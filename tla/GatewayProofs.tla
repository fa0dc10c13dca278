---------------------------- MODULE GatewayProofs ----------------------------
(***************************************************************************)
(* Proofs about the proxy path for every configuration and any number of   *)
(* requests: the controller is used as its specification says, slots       *)
(* follow the upstream exchanges, and what failover, the retry guard and   *)
(* the token accounting do with each of them.                              *)
(*                                                                         *)
(* A step of a request is summarised once, as StepSummary; every theorem   *)
(* follows from the summary and none looks at the handlers again.          *)
(***************************************************************************)
EXTENDS Gateway, FiniteSetTheorems, SequenceTheorems, TLAPS

Controller == INSTANCE AdmissionProofs
Registry == INSTANCE RegistryProofs

-----------------------------------------------------------------------------
(* The inductive invariant.                                                 *)

\* What acquire() was called with on behalf of r.
LeaseOf(r) == [department |-> call[r].department, model_name |-> call[r].model,
               endpoint |-> call[r].endpoint]

\* How far a request has come determines what is known of it.
PhaseOK(r) ==
    /\ phase[r] \in {"idle", "reading"} => ~call[r].stream /\ attempted[r] = {}
    /\ InFlight(r) => call[r].model \in Models
    /\ phase[r] \in {"ready", "streaming", "yielded", "closing"} => call[r].stream
    /\ phase[r] \notin {"closing", "done"} => ending[r] = "none"
    /\ phase[r] = "closing" =>
         ending[r] \in {"broken", "disconnected", "failed", "completed", "abandoned"}

\* A lease is for the exchange under way, or for one that leaked it.
LeaseOK(r) ==
    /\ lease[r] # NoLease <=> Enabled /\ (InFlight(r) \/ Leaked(r))
    /\ lease[r] # NoLease => lease[r] = LeaseOf(r)

\* The endings that come with token accounting.
Accounted == {"answered", "unreachable", "lost", "disconnected", "failed", "broken",
              "abandoned", "completed"}

AccountingOK(r) ==
    IF phase[r] = "done" /\ ending[r] \in Accounted
    THEN Len(accounting[r]) = 1 ELSE accounting[r] = <<>>

RequestOK(r) == PhaseOK(r) /\ LeaseOK(r) /\ AccountingOK(r)

GatewayInv ==
    /\ TypeOK
    /\ Controller!Inv
    /\ Registry!TypeOK
    /\ \A r \in Requests : RequestOK(r)

-----------------------------------------------------------------------------
(* The controller and the registry that the gateway instantiates are those  *)
(* the other proofs are about.                                              *)

\* Counting is the same wherever it is instantiated.
LEMMA SameCounting ==
    /\ \A S : Admission!Cardinality(S) = Cardinality(S)
    /\ \A S : Controller!Cardinality(S) = Cardinality(S)
BY DEF Admission!Cardinality, Controller!Cardinality, Cardinality

\* The configuration of the gateway is one of the admission controller's.
LEMMA ControllerConfigured ==
    /\ Controller!SizeAssumption /\ Controller!LimitAssumption
    /\ Controller!BudgetAssumption /\ Controller!GuardAssumption
<1> USE ConfigurationAssumption
<1>1. Controller!SizeAssumption
    BY DEF Admission!SizeAssumption, Controller!SizeAssumption, Admission!IsFiniteSet,
           Controller!IsFiniteSet, Admission!Leases, Controller!Leases
<1>2. Controller!LimitAssumption
    BY DEF Admission!LimitAssumption, Controller!LimitAssumption, Admission!Keys,
           Controller!Keys, Admission!Positive, Controller!Positive
<1>3. Controller!BudgetAssumption
    BY DEF Admission!BudgetAssumption, Controller!BudgetAssumption, Admission!Keys,
           Controller!Keys, Admission!Positive, Controller!Positive
<1>4. Controller!GuardAssumption
    BY DEF Admission!GuardAssumption, Controller!GuardAssumption, Admission!Positive,
           Controller!Positive
<1> QED
    BY <1>1, <1>2, <1>3, <1>4

\* And one of the routing registry's.
LEMMA RegistryConfigured == Registry!PoolAssumption
BY ConfigurationAssumption DEF Routing!PoolAssumption, Registry!PoolAssumption

\* The two instances of Admission take the same steps.
LEMMA SameController ==
    /\ Admission!Init <=> Controller!Init
    /\ [Admission!Next]_(Admission!vars) <=> [Controller!Next]_(Controller!vars)
<1> USE DEF Admission!slotVars, Controller!slotVars, Admission!tokenVars,
        Controller!tokenVars, Admission!guardVars, Controller!guardVars,
        Admission!vars, Controller!vars, Admission!Keys, Controller!Keys,
        Admission!Leases, Controller!Leases, Admission!Key, Controller!Key,
        Admission!MaxUsage, Controller!MaxUsage
<1>1. Admission!Init <=> Controller!Init
    BY DEF Admission!Init, Controller!Init
<1>2. Admission!Next <=> Controller!Next
    BY DEF Admission!Next, Controller!Next, Admission!Tick, Controller!Tick,
           Admission!Admit, Controller!Admit, Admission!Reject, Controller!Reject,
           Admission!AdmitAndGiveBack, Controller!AdmitAndGiveBack,
           Admission!Finish, Controller!Finish,
           Admission!FailedHeader, Controller!FailedHeader,
           Admission!AcquireAdmitted, Controller!AcquireAdmitted,
           Admission!AcquireRejected, Controller!AcquireRejected,
           Admission!TakeSlot, Controller!TakeSlot, Admission!Release, Controller!Release,
           Admission!RecordTokens, Controller!RecordTokens,
           Admission!RecordRetryEvent, Controller!RecordRetryEvent,
           Admission!RetryQueue, Controller!RetryQueue,
           Admission!Admits, Controller!Admits,
           Admission!ReachesBudget, Controller!ReachesBudget,
           Admission!BudgetSpent, Controller!BudgetSpent,
           Admission!ModelFull, Controller!ModelFull,
           Admission!DepartmentModelFull, Controller!DepartmentModelFull,
           Admission!GuardOpen, Controller!GuardOpen,
           Admission!DropOldTokenEvents, Controller!DropOldTokenEvents,
           Admission!FreshTotal, Controller!FreshTotal,
           Admission!FreshEvents, Controller!FreshEvents,
           Admission!ExpiredEvents, Controller!ExpiredEvents,
           Admission!TokensOfFirst, Controller!TokensOfFirst,
           Admission!TokensAt, Controller!TokensAt,
           Admission!DropFirst, Controller!DropFirst,
           Admission!ExpiredCount, Controller!ExpiredCount,
           Admission!MaxZero, Controller!MaxZero,
           Admission!Cardinality, Controller!Cardinality
<1> QED
    BY <1>1, <1>2

\* So do the two instances of Routing.
LEMMA SameRegistry ==
    /\ Routing!Init <=> Registry!Init
    /\ \A m, excluded, u :
         /\ Routing!SelectUpstream(m, excluded, u) <=> Registry!SelectUpstream(m, excluded, u)
         /\ Routing!NoHealthyUpstream(m, excluded) <=> Registry!NoHealthyUpstream(m, excluded)
BY DEF Routing!Init, Registry!Init, Routing!SelectUpstream, Registry!SelectUpstream,
       Routing!NoHealthyUpstream, Registry!NoHealthyUpstream, Routing!vars, Registry!vars,
       Routing!Candidates, Registry!Candidates, Routing!FirstCandidate,
       Registry!FirstCandidate, Routing!Eligible, Registry!Eligible, Routing!MemberAt,
       Registry!MemberAt, Routing!IndexAt, Registry!IndexAt, Routing!PoolSize,
       Registry!PoolSize

-----------------------------------------------------------------------------
(* What a step of request r amounts to.                                     *)

LeaseType == lease \in [Requests -> Admission!Leases \cup {NoLease}]

\* What the step may rely on.
Before(r) == TypeOK /\ LeaseType /\ RequestOK(r)

\* Nothing of request q changes.
Untouched(q) ==
    /\ phase'[q] = phase[q] /\ call'[q] = call[q] /\ attempted'[q] = attempted[q]
    /\ status'[q] = status[q] /\ ending'[q] = ending[q] /\ usage'[q] = usage[q]
    /\ parsing'[q] = parsing[q] /\ accounting'[q] = accounting[q] /\ lease'[q] = lease[q]

\* The controller is used as its specification says.
ControllerEffect == [Admission!Next]_(Admission!vars)

\* The guard hears of the end of an exchange that failed, and of nothing else.
RetryEffect(r) ==
    \/ UNCHANGED admissionGuard
    \/ /\ Admission!RecordRetryEvent(RequestKey(r))
       /\ phase[r] = "connecting" /\ phase'[r] \in {"done", "ready"}
       /\ status'[r] >= 500

\* A token window is trimmed, or charged at the end of a 2xx exchange.
TokenEffect(r) ==
    \/ UNCHANGED admissionTokens
    \/ \E k \in Departments \X Models : Admission!DropOldTokenEvents(k)
    \/ /\ \E u \in 0..(MaxPrompt + MaxOutput) : Admission!RecordTokens(RequestKey(r), u)
       /\ phase[r] \in {"connecting", "closing"} /\ phase'[r] = "done"
       /\ Success(status'[r])
       /\ accounting'[r] = <<"recorded">>
       /\ lease'[r] = NoLease

\* An upstream is selected among those not attempted, or none is; the request
\* becomes unreachable only when there is none.
RouteEffect(r) ==
    /\ \/ UNCHANGED routingVars /\ attempted'[r] = attempted[r]
       \/ \E u \in Upstreams :
            /\ call'[r].model \in Models
            /\ Routing!SelectUpstream(call'[r].model, attempted[r], u)
            /\ attempted'[r] = attempted[r] \cup {u}
    /\ phase[r] # "done" /\ ending'[r] = "unreachable" =>
         /\ call'[r].model \in Models
         /\ Routing!NoHealthyUpstream(call'[r].model, attempted[r])

StepSummary(r) ==
    /\ TypeOK' /\ RequestOK(r)' /\ \A q \in Requests \ {r} : Untouched(q)
    /\ ControllerEffect /\ RetryEffect(r) /\ TokenEffect(r) /\ RouteEffect(r)

-----------------------------------------------------------------------------
(* Steps that call neither the controller nor the registry.                 *)

\* A step that calls neither the controller nor the registry, and changes one
\* request only, needs no more than that request's types and consistency.
LEMMA QuietStep ==
    ASSUME NEW r \in Requests, UNCHANGED <<admissionVars, routingVars, attempted>>,
           TypeOK', RequestOK(r)', \A q \in Requests \ {r} : Untouched(q),
           ending'[r] # "unreachable"
    PROVE  StepSummary(r)
<1>1. ControllerEffect
    BY DEF ControllerEffect, admissionVars, admissionSlots, admissionTokens, admissionGuard,
           Admission!vars, Admission!slotVars, Admission!tokenVars, Admission!guardVars
<1> QED
    BY <1>1 DEF StepSummary, RetryEffect, TokenEffect, RouteEffect, admissionVars

Calls == [department : Departments, endpoint : Endpoints,
          model : Models \cup {NoModel}, stream : BOOLEAN]

\* TypeOK with the types of the single variables named.
Phases == {"idle", "reading", "connecting", "ready", "streaming", "yielded", "closing",
           "done"}
Endings == {"none", "rejected", "unreachable", "lost", "crashed", "cancelled", "answered",
            "unstarted", "broken", "disconnected", "failed", "completed", "abandoned",
            "close_failed"}
Codes == {0} \cup 200..599
Counts == Seq({"recorded", "missing_usage", "parse_error"})

\* The type invariant, variable by variable, before and after a step.
LEMMA TypeParts ==
    /\ TypeOK <=>
         /\ phase \in [Requests -> Phases] /\ call \in [Requests -> Calls]
         /\ attempted \in [Requests -> SUBSET Upstreams]
         /\ status \in [Requests -> Codes] /\ usage \in [Requests -> Extracted]
         /\ parsing \in [Requests -> BOOLEAN] /\ ending \in [Requests -> Endings]
         /\ accounting \in [Requests -> Counts]
    /\ TypeOK' <=>
         /\ phase' \in [Requests -> Phases] /\ call' \in [Requests -> Calls]
         /\ attempted' \in [Requests -> SUBSET Upstreams]
         /\ status' \in [Requests -> Codes] /\ usage' \in [Requests -> Extracted]
         /\ parsing' \in [Requests -> BOOLEAN] /\ ending' \in [Requests -> Endings]
         /\ accounting' \in [Requests -> Counts]
BY DEF TypeOK, Phases, Endings, Codes, Counts, Calls, Extracted

\* The phases, endings and statuses that the handlers assign.
LEMMA Names ==
    /\ {"idle", "reading", "connecting", "ready", "streaming", "yielded", "closing", "done"}
         \subseteq Phases
    /\ {"none", "rejected", "unreachable", "lost", "crashed", "cancelled", "answered",
        "unstarted", "broken", "disconnected", "failed", "completed", "abandoned",
        "close_failed"} \subseteq Endings
    /\ {0} \cup 200..599 \subseteq Codes
BY DEF Phases, Endings, Codes

\* Ending a request, or moving it on, and answering it keep the types.
LEMMA MoveTypes ==
    ASSUME TypeOK, NEW r \in Requests
    PROVE  /\ \A p \in Phases : Become(r, p) => phase' \in [Requests -> Phases]
           /\ \A how \in Endings :
                 /\ End(r, how) =>
                      phase' \in [Requests -> Phases] /\ ending' \in [Requests -> Endings]
                 /\ Close(r, how) =>
                      phase' \in [Requests -> Phases] /\ ending' \in [Requests -> Endings]
           /\ \A s \in Codes : Answer(r, s) => status' \in [Requests -> Codes]
           /\ \A what \in {"recorded", "missing_usage", "parse_error"} :
                 Account(r, what) => accounting' \in [Requests -> Counts]
<1>1. /\ phase \in [Requests -> Phases] /\ ending \in [Requests -> Endings]
      /\ status \in [Requests -> Codes] /\ accounting \in [Requests -> Counts]
    BY TypeParts
<1>2. "done" \in Phases /\ "closing" \in Phases
    BY DEF Phases
<1>3. \A what \in {"recorded", "missing_usage", "parse_error"} :
         Append(accounting[r], what) \in Counts
    BY <1>1 DEF Counts
<1> QED
    BY <1>1, <1>2, <1>3 DEF Become, End, Close, Answer, Account

\* The attributes of a request keep their types as its handler learns them.
LEMMA CallType ==
    ASSUME NEW r \in Requests, TypeOK
    PROVE  /\ \A d \in Departments, e \in Endpoints :
                [call EXCEPT ![r].department = d, ![r].endpoint = e] \in [Requests -> Calls]
           /\ \A m \in Models :
                [call EXCEPT ![r].model = m] \in [Requests -> Calls]
           /\ \A m \in Models, stream \in BOOLEAN :
                [call EXCEPT ![r].model = m, ![r].stream = stream] \in [Requests -> Calls]
<1>1. call \in [Requests -> Calls] /\ call[r] \in Calls
    BY DEF TypeOK, Calls
<1>2. ASSUME NEW d \in Departments, NEW e \in Endpoints
      PROVE  [[call[r] EXCEPT !.department = d] EXCEPT !.endpoint = e] \in Calls
    BY <1>1 DEF Calls
<1>3. ASSUME NEW m \in Models
      PROVE  [call[r] EXCEPT !.model = m] \in Calls
    BY <1>1 DEF Calls
<1>4. ASSUME NEW m \in Models, NEW stream \in BOOLEAN
      PROVE  [[call[r] EXCEPT !.model = m] EXCEPT !.stream = stream] \in Calls
    BY <1>1 DEF Calls
<1> QED
    BY <1>1, <1>2, <1>3, <1>4

\* The arrival of a request calls nobody.
LEMMA ArriveStep ==
    ASSUME NEW r \in Requests, Before(r), NEW d \in Departments, NEW e \in Endpoints,
           Arrive(r, d, e)
    PROVE  StepSummary(r)
<1>1. TypeOK'
    <2>1. call' \in [Requests -> Calls]
        BY CallType DEF Before, Arrive
    <2>2. /\ phase' \in [Requests -> Phases] /\ ending' \in [Requests -> Endings]
          /\ status' \in [Requests -> Codes]
        BY TypeParts, MoveTypes, Names DEF Before, Arrive, RefusedKey, RefusedSize
    <2> QED
        BY <2>1, <2>2, TypeParts DEF Before, Arrive, streamVars
<1> USE DEF Before, Arrive, Become, End, Answer, RefusedKey, RefusedSize
<1>2. RequestOK(r)'
    BY DEF TypeOK, RequestOK, PhaseOK, LeaseOK, AccountingOK, InFlight, Leaked, Accounted,
           admissionVars, admissionSlots
<1>3. \A q \in Requests \ {r} : Untouched(q)
    BY DEF TypeOK, Untouched, streamVars, admissionVars, admissionSlots
<1>4. ending'[r] # "unreachable"
    BY DEF TypeOK, RequestOK, PhaseOK
<1> QED
    BY <1>1, <1>2, <1>3, <1>4, QuietStep

\* The request is turned down before it asks for admission.
LEMMA RejectStep ==
    ASSUME NEW r \in Requests, Before(r),
           RejectBody(r) \/ \E m \in Models : RejectShape(r, m)
    PROVE  StepSummary(r)
<1>1. /\ phase[r] = "reading"
      /\ End(r, "rejected")
      /\ \E s \in Codes : Answer(r, s)
      /\ UNCHANGED <<admissionVars, routingVars, attempted, streamVars, accounting>>
    BY Names DEF RejectBody, RejectShape, RefusedBody, UnknownModel
<1>2. call' = call \/ \E m \in Models : call' = [call EXCEPT ![r].model = m]
    BY DEF RejectBody, RejectShape
<1>3. TypeOK'
    <2>1. call' \in [Requests -> Calls]
        <3>1. CASE call' = call
            BY <3>1, TypeParts DEF Before
        <3>2. ASSUME NEW m \in Models, call' = [call EXCEPT ![r].model = m]
              PROVE  call' \in [Requests -> Calls]
            BY <3>2, CallType DEF Before
        <3> QED
            BY <1>2, <3>1, <3>2
    <2>2. /\ phase' \in [Requests -> Phases] /\ ending' \in [Requests -> Endings]
          /\ status' \in [Requests -> Codes]
        BY <1>1, MoveTypes, Names DEF Before
    <2> QED
        BY <1>1, <2>1, <2>2, TypeParts DEF Before, streamVars
<1> USE DEF End, Become, Answer
<1>4. /\ phase'[r] = "done" /\ ending'[r] = "rejected"
      /\ lease'[r] = lease[r] /\ accounting'[r] = accounting[r]
    BY <1>1 DEF Before, TypeOK, admissionVars, admissionSlots
<1>5. RequestOK(r)'
    BY <1>1, <1>4 DEF Before, RequestOK, PhaseOK, LeaseOK, AccountingOK, InFlight, Leaked,
                      Accounted
<1>6. \A q \in Requests \ {r} : Untouched(q)
    BY <1>1, <1>2 DEF Before, TypeOK, Untouched, streamVars, admissionVars, admissionSlots
<1> QED
    BY <1>1, <1>3, <1>4, <1>5, <1>6, QuietStep

\* Relaying a stream: the request goes on, starts to close, or ends without
\* the rest of the finally block.
LEMMA StreamStep ==
    ASSUME NEW r \in Requests, Before(r), UNCHANGED Unshared,
           phase[r] \in {"ready", "streaming", "yielded", "closing"},
           \/ /\ \E p \in {"streaming", "yielded"} : Become(r, p)
              /\ phase[r] # "closing"
              /\ ending' = ending
           \/ \E how \in {"broken", "disconnected", "failed", "completed", "abandoned"} :
                 Close(r, how)
           \/ \E how \in {"unstarted", "close_failed"} : End(r, how),
           usage' \in [Requests -> Extracted], parsing' \in [Requests -> BOOLEAN],
           \A q \in Requests \ {r} : usage'[q] = usage[q] /\ parsing'[q] = parsing[q]
    PROVE  StepSummary(r)
<1>1. /\ UNCHANGED <<admissionVars, routingVars, attempted>>
      /\ call' = call /\ status' = status /\ accounting' = accounting /\ lease' = lease
    BY DEF Unshared, admissionVars, admissionSlots
<1>2. TypeOK'
    <2>1. phase' \in [Requests -> Phases] /\ ending' \in [Requests -> Endings]
        BY MoveTypes, Names, TypeParts DEF Before
    <2> QED
        BY <1>1, <2>1, TypeParts DEF Before
<1>3. /\ \A q \in Requests \ {r} : phase'[q] = phase[q] /\ ending'[q] = ending[q]
      /\ \/ /\ phase'[r] \in {"streaming", "yielded"} /\ phase[r] # "closing"
            /\ ending'[r] = ending[r]
         \/ /\ phase'[r] = "closing"
            /\ ending'[r] \in {"broken", "disconnected", "failed", "completed", "abandoned"}
         \/ /\ phase'[r] = "done"
            /\ ending'[r] \in {"unstarted", "close_failed"}
    BY DEF Become, Close, End, Before, TypeOK
<1>4. RequestOK(r)'
    <2> USE DEF Before, RequestOK
    <2>1. PhaseOK(r)'
        BY <1>1, <1>3 DEF PhaseOK, InFlight
    <2>2. LeaseOK(r)'
        BY <1>1, <1>3 DEF LeaseOK, LeaseOf, InFlight, Leaked, PhaseOK
    <2>3. AccountingOK(r)'
        BY <1>1, <1>3 DEF AccountingOK, Accounted
    <2> QED
        BY <2>1, <2>2, <2>3
<1>5. \A q \in Requests \ {r} : Untouched(q)
    BY <1>1, <1>3 DEF Untouched
<1>6. ending'[r] # "unreachable"
    BY <1>3 DEF Before, RequestOK, PhaseOK
<1> QED
    BY <1>1, <1>2, <1>4, <1>5, <1>6, QuietStep

\* Nor do the steps of a stream before its generator has ended.
LEMMA StreamSteps ==
    ASSUME NEW r \in Requests, Before(r),
           \/ BodyStarts(r) \/ BodyNeverStarts(r) \/ ChunkArrives(r)
           \/ StreamBreaks(r) \/ ClientLeaves(r) \/ StreamFails(r) \/ StreamEnds(r)
           \/ ChunkTaken(r) \/ GeneratorClosed(r) \/ CloseFails(r)
    PROVE  StepSummary(r)
<1>0. usage \in [Requests -> Extracted] /\ parsing \in [Requests -> BOOLEAN]
    BY TypeParts DEF Before
<1>1. CASE BodyStarts(r)
    BY <1>0, <1>1, StreamStep DEF BodyStarts, streamVars
<1>2. CASE BodyNeverStarts(r)
    BY <1>0, <1>2, StreamStep DEF BodyNeverStarts, streamVars
<1>3. CASE ChunkArrives(r)
    <2>1. /\ usage' \in [Requests -> Extracted] /\ parsing' \in [Requests -> BOOLEAN]
          /\ \A q \in Requests \ {r} : usage'[q] = usage[q] /\ parsing'[q] = parsing[q]
        BY <1>0, <1>3 DEF ChunkArrives, Parse, ConsumeEvents, GiveUpParsing, streamVars
    <2> QED
        BY <1>3, <2>1, StreamStep DEF ChunkArrives
<1>4. CASE StreamBreaks(r)
    BY <1>0, <1>4, StreamStep DEF StreamBreaks, streamVars
<1>5. CASE ClientLeaves(r)
    BY <1>0, <1>5, StreamStep DEF ClientLeaves, streamVars
<1>6. CASE StreamFails(r)
    BY <1>0, <1>6, StreamStep DEF StreamFails, streamVars
<1>7. CASE StreamEnds(r)
    <2>1. /\ usage' \in [Requests -> Extracted] /\ parsing' \in [Requests -> BOOLEAN]
          /\ \A q \in Requests \ {r} : usage'[q] = usage[q] /\ parsing'[q] = parsing[q]
        BY <1>0, <1>7 DEF StreamEnds, Parse, ConsumeEvents, GiveUpParsing, streamVars
    <2>2. UNCHANGED Unshared /\ phase[r] = "streaming" /\ Close(r, "completed")
        BY <1>7 DEF StreamEnds
    <2> QED
        BY <2>1, <2>2, StreamStep
<1>8. CASE ChunkTaken(r)
    BY <1>0, <1>8, StreamStep DEF ChunkTaken, streamVars
<1>9. CASE GeneratorClosed(r)
    BY <1>0, <1>9, StreamStep DEF GeneratorClosed, streamVars
<1>10. CASE CloseFails(r)
    BY <1>0, <1>10, StreamStep DEF CloseFails, streamVars
<1> QED
    BY <1>1, <1>2, <1>3, <1>4, <1>5, <1>6, <1>7, <1>8, <1>9, <1>10

-----------------------------------------------------------------------------
(* The calls on the controller.                                             *)

\* release() leaves the request without a lease.
LEMMA ReleaseEffect ==
    ASSUME NEW r \in Requests, LeaseType, Admission!Release(r)
    PROVE  /\ lease'[r] = NoLease
           /\ \A q \in Requests \ {r} : lease'[q] = lease[q]
BY DEF LeaseType, Admission!Release, Admission!slotVars

\* A request in flight holds a slot if admission control is on; the slot is
\* for the key under which the handler reports.
LEMMA SlotOfExchange ==
    ASSUME NEW r \in Requests, Before(r), InFlight(r)
    PROVE  /\ RequestKey(r) \in Departments \X Models
           /\ Enabled => lease[r] # NoLease /\ Admission!Key(lease[r]) = RequestKey(r)
           /\ ~Enabled => lease[r] = NoLease
<1>1. call[r].department \in Departments /\ call[r].model \in Models
    BY DEF Before, TypeOK, RequestOK, PhaseOK
<1> QED
    BY <1>1 DEF Before, RequestOK, LeaseOK, LeaseOf, Admission!Key, RequestKey

\* The end of an exchange, as the handlers put it together from the calls of
\* the controller, is one of the controller's steps, or none without a slot.
LEMMA FinishRefines ==
    ASSUME NEW r \in Requests, Before(r), InFlight(r),
           NEW tokens \in 0..(MaxPrompt + MaxOutput),
           \/ tokens = 0 /\ Admission!RecordRetryEvent(RequestKey(r))
           \/ UNCHANGED admissionGuard,
           Admission!RecordTokens(RequestKey(r), tokens),
           Admission!Release(r), UNCHANGED now
    PROVE  ControllerEffect
<1>1. CASE Enabled
    <2>1. Admission!Finish(r, tokens, TRUE) \/ Admission!Finish(r, tokens, FALSE)
        BY <1>1, SlotOfExchange
           DEF Admission!Finish, Admission!guardVars, admissionGuard
    <2>2. \E failed \in BOOLEAN : Admission!Finish(r, tokens, failed)
        BY <2>1
    <2> QED
        BY <2>2 DEF ControllerEffect, Admission!Next, Admission!MaxUsage
<1>2. CASE ~Enabled
    <2>1. lease[r] = NoLease
        BY <1>2, SlotOfExchange
    <2> QED
        BY <1>2, <2>1
           DEF ControllerEffect, Admission!Release, Admission!RecordTokens,
               Admission!RecordRetryEvent, Admission!vars, Admission!slotVars,
               Admission!tokenVars, Admission!guardVars, admissionGuard
<1> QED
    BY <1>1, <1>2

\* Reporting no tokens is no call of record_tokens().
LEMMA NoTokens ==
    ASSUME NEW k, UNCHANGED admissionTokens
    PROVE  Admission!RecordTokens(k, 0)
BY DEF Admission!RecordTokens, admissionTokens, Admission!tokenVars

\* A slot given back with nothing to report.
LEMMA ReleaseRefines ==
    ASSUME NEW r \in Requests, Before(r), InFlight(r), Admission!Release(r),
           UNCHANGED <<now, admissionTokens, admissionGuard>>
    PROVE  ControllerEffect
<1>1. 0 \in 0..(MaxPrompt + MaxOutput)
    BY ConfigurationAssumption DEF Admission!SizeAssumption
<1>2. Admission!RecordTokens(RequestKey(r), 0)
    BY NoTokens
<1> QED
    BY <1>1, <1>2, FinishRefines

-----------------------------------------------------------------------------
(* Steps that end an exchange.                                              *)

\* The request itself, when its exchange is over and its slot given back.
LEMMA OverStep ==
    ASSUME NEW r \in Requests, Before(r), InFlight(r), NEW how \in Endings,
           End(r, how), Admission!Release(r),
           ~(call[r].stream /\ how \in {"unstarted", "cancelled", "close_failed"}),
           \/ status' = status
           \/ \E s \in Codes : Answer(r, s),
           IF how \in Accounted
           THEN \E what \in {"recorded", "missing_usage", "parse_error"} : Account(r, what)
           ELSE accounting' = accounting,
           UNCHANGED <<call, attempted, streamVars>>
    PROVE  /\ TypeOK' /\ RequestOK(r)'
           /\ \A q \in Requests \ {r} : Untouched(q)
<1>1. TypeOK'
    <2>1. /\ phase' \in [Requests -> Phases] /\ ending' \in [Requests -> Endings]
          /\ status' \in [Requests -> Codes]
        BY MoveTypes, TypeParts DEF Before
    <2>2. accounting' \in [Requests -> Counts]
        <3>1. CASE accounting' = accounting
            BY <3>1, TypeParts DEF Before
        <3>2. CASE \E what \in {"recorded", "missing_usage", "parse_error"} : Account(r, what)
            BY <3>2, MoveTypes DEF Before
        <3> QED
            BY <3>1, <3>2
    <2> QED
        BY <2>1, <2>2, TypeParts DEF Before, streamVars
<1>2. /\ lease'[r] = NoLease
      /\ \A q \in Requests \ {r} : lease'[q] = lease[q]
    BY ReleaseEffect DEF Before
<1>3. /\ phase'[r] = "done" /\ ending'[r] = how
      /\ \A q \in Requests \ {r} : phase'[q] = phase[q] /\ ending'[q] = ending[q]
    BY DEF End, Become, Before, TypeOK
<1>4. /\ accounting[r] = <<>>
      /\ IF how \in Accounted THEN Len(accounting'[r]) = 1 ELSE accounting'[r] = <<>>
      /\ \A q \in Requests \ {r} : accounting'[q] = accounting[q]
    <2>1. accounting[r] = <<>>
        BY DEF Before, RequestOK, AccountingOK, InFlight
    <2>2. \A what : Len(Append(<<>>, what)) = 1
        OBVIOUS
    <2>3. DOMAIN accounting = Requests
        BY TypeParts DEF Before
    <2> QED
        BY <2>1, <2>2, <2>3 DEF Account
<1>5. RequestOK(r)'
    <2>1. PhaseOK(r)'
        BY <1>3 DEF PhaseOK, InFlight
    <2>2. LeaseOK(r)'
        BY <1>2, <1>3 DEF LeaseOK, InFlight, Leaked
    <2>3. AccountingOK(r)'
        BY <1>3, <1>4 DEF AccountingOK
    <2> QED
        BY <2>1, <2>2, <2>3 DEF RequestOK
<1>6. \A q \in Requests \ {r} : status'[q] = status[q]
    BY DEF Answer, Before, TypeOK
<1>7. \A q \in Requests \ {r} : Untouched(q)
    BY <1>2, <1>3, <1>4, <1>6 DEF Untouched, streamVars
<1> QED
    BY <1>1, <1>5, <1>7

\* The exchange failed: a retry event, no tokens, the slot given back.
LEMMA TransportStep ==
    ASSUME NEW r \in Requests, Before(r), phase[r] = "connecting",
           NEW timedOut \in BOOLEAN, NEW how \in {"unreachable", "lost"},
           TransportError(r, timedOut), End(r, how),
           UNCHANGED <<now, admissionTokens, routingVars, call, attempted, streamVars>>,
           how = "unreachable" =>
             Routing!NoHealthyUpstream(call[r].model, attempted[r])
    PROVE  StepSummary(r)
<1>1. InFlight(r) /\ call[r].model \in Models
    BY DEF InFlight, Before, RequestOK, PhaseOK
<1>2. /\ Admission!RecordRetryEvent(RequestKey(r)) /\ Admission!Release(r)
      /\ Account(r, "missing_usage")
      /\ \E s \in {502, 504} : Answer(r, s)
    BY DEF TransportError
<1>3. /\ TypeOK' /\ RequestOK(r)'
      /\ \A q \in Requests \ {r} : Untouched(q)
    <2>1. how \in Endings /\ how \in Accounted
        BY Names DEF Accounted
    <2>2. \E s \in Codes : Answer(r, s)
        BY <1>2, Names
    <2>3. IF how \in Accounted
          THEN \E what \in {"recorded", "missing_usage", "parse_error"} : Account(r, what)
          ELSE accounting' = accounting
        BY <1>2, <2>1
    <2>4. how \notin {"unstarted", "cancelled", "close_failed"}
        OBVIOUS
    <2> QED
        BY <1>1, <1>2, <2>1, <2>2, <2>3, <2>4, OverStep
<1>4. ControllerEffect
    <2>1. 0 \in 0..(MaxPrompt + MaxOutput)
        BY ConfigurationAssumption DEF Admission!SizeAssumption
    <2>2. Admission!RecordTokens(RequestKey(r), 0)
        BY NoTokens
    <2> QED
        BY <1>1, <1>2, <2>1, <2>2, FinishRefines
<1>5. phase'[r] = "done" /\ ending'[r] = how /\ status'[r] >= 500
    BY <1>2 DEF End, Become, Answer, Before, TypeOK
<1>6. RetryEffect(r) /\ TokenEffect(r)
    BY <1>2, <1>5 DEF RetryEffect, TokenEffect
<1>7. RouteEffect(r)
    BY <1>1, <1>5 DEF RouteEffect
<1> QED
    BY <1>3, <1>4, <1>6, <1>7 DEF StepSummary

\* A transport error of post() or send(), which may fail over to another upstream.
LEMMA ExchangeFailsStep ==
    ASSUME NEW r \in Requests, Before(r), NEW timedOut \in BOOLEAN,
           ExchangeFails(r, timedOut)
    PROVE  StepSummary(r)
BY TransportStep DEF ExchangeFails

\* Failover to another upstream, or the end of the request without one.
LEMMA ConnectFailsStep ==
    ASSUME NEW r \in Requests, Before(r), NEW timedOut \in BOOLEAN,
           ConnectFails(r, timedOut)
    PROVE  StepSummary(r)
<1>1. /\ phase[r] = "connecting"
      /\ UNCHANGED <<now, admissionTokens, call, streamVars>>
    BY DEF ConnectFails
<1>2. CASE TryAnother(r)
    <2>1. PICK u \in Upstreams :
             /\ Routing!SelectUpstream(call[r].model, attempted[r], u)
             /\ attempted' = [attempted EXCEPT ![r] = attempted[r] \cup {u}]
        BY <1>2 DEF TryAnother, Before, TypeOK
    <2>2. UNCHANGED <<admissionVars, call, phase, status, streamVars, ending, accounting>>
        BY <1>1, <1>2 DEF TryAnother, admissionVars
    <2>3. /\ attempted'[r] = attempted[r] \cup {u}
          /\ \A q \in Requests \ {r} : attempted'[q] = attempted[q]
          /\ attempted' \in [Requests -> SUBSET Upstreams]
        BY <2>1 DEF Before, TypeOK
    <2>4. TypeOK'
        BY <2>2, <2>3, TypeParts DEF Before, streamVars
    <2>5. RequestOK(r)'
        BY <1>1, <2>2
           DEF Before, RequestOK, PhaseOK, LeaseOK, LeaseOf, AccountingOK, InFlight, Leaked,
               admissionVars, admissionSlots
    <2>6. \A q \in Requests \ {r} : Untouched(q)
        BY <2>2, <2>3 DEF Untouched, admissionVars, admissionSlots, streamVars
    <2>7. ControllerEffect
        BY <2>2 DEF ControllerEffect, admissionVars, admissionSlots, admissionTokens,
                    admissionGuard, Admission!vars, Admission!slotVars,
                    Admission!tokenVars, Admission!guardVars
    <2>8. call'[r].model = call[r].model /\ call[r].model \in Models /\ ending'[r] = "none"
        BY <1>1, <2>2 DEF Before, RequestOK, PhaseOK, InFlight
    <2>9. RouteEffect(r)
        BY <2>1, <2>3, <2>8 DEF RouteEffect
    <2> QED
        BY <2>2, <2>4, <2>5, <2>6, <2>7, <2>9
           DEF StepSummary, RetryEffect, TokenEffect, admissionVars
<1>3. CASE ~TryAnother(r)
    <2>1. /\ Routing!NoHealthyUpstream(call[r].model, attempted[r])
          /\ TransportError(r, timedOut) /\ End(r, "unreachable")
          /\ UNCHANGED attempted
        BY <1>3 DEF ConnectFails
    <2>2. UNCHANGED routingVars
        BY <2>1 DEF Routing!NoHealthyUpstream, Routing!vars, routingVars
    <2> QED
        BY <1>1, <2>1, <2>2, TransportStep
<1> QED
    BY <1>2, <1>3

\* An end that reports nothing to the controller but the release.
LEMMA SilentEnd ==
    ASSUME NEW r \in Requests, Before(r), InFlight(r), NEW how \in {"crashed", "cancelled"},
           End(r, how), Admission!Release(r), how = "cancelled" => ~call[r].stream,
           status' = status \/ Answer(r, 500),
           UNCHANGED <<now, admissionTokens, admissionGuard, routingVars, call, attempted,
                       streamVars, accounting>>
    PROVE  StepSummary(r)
<1>1. how \in Endings /\ how \notin Accounted
    BY Names DEF Accounted
<1>2. /\ TypeOK' /\ RequestOK(r)'
      /\ \A q \in Requests \ {r} : Untouched(q)
    <2>1. 500 \in Codes
        BY Names
    <2>2. ~(call[r].stream /\ how \in {"unstarted", "cancelled", "close_failed"})
        OBVIOUS
    <2> QED
        BY <1>1, <2>1, <2>2, OverStep
<1>3. ControllerEffect
    BY ReleaseRefines
<1>4. ending'[r] # "unreachable"
    BY DEF End, Before, TypeOK
<1> QED
    BY <1>2, <1>3, <1>4 DEF StepSummary, RetryEffect, TokenEffect, RouteEffect

\* An exception in the handler gives the slot back on its way out.
LEMMA HandlerCrashesStep ==
    ASSUME NEW r \in Requests, Before(r), HandlerCrashes(r)
    PROVE  StepSummary(r)
<1>1. InFlight(r)
    BY DEF HandlerCrashes, InFlight
<1> QED
    BY <1>1, SilentEnd DEF HandlerCrashes

\* Cancelled before admission, while a plain request waits, or, leaking the
\* slot, while a streaming request waits.
LEMMA HandlerCancelledStep ==
    ASSUME NEW r \in Requests, Before(r), HandlerCancelled(r)
    PROVE  StepSummary(r)
<1>1. /\ phase[r] \in {"reading", "connecting"}
      /\ IF call[r].stream THEN UNCHANGED admissionSlots ELSE Admission!Release(r)
      /\ End(r, "cancelled")
      /\ UNCHANGED <<now, admissionTokens, admissionGuard, routingVars, call, attempted,
                     status, streamVars, accounting>>
    BY DEF HandlerCancelled
<1>2. CASE InFlight(r) /\ ~call[r].stream
    BY <1>1, <1>2, SilentEnd
<1>3. CASE ~(InFlight(r) /\ ~call[r].stream)
    <2>1. UNCHANGED admissionSlots
        <3>1. phase[r] = "reading" => ~call[r].stream /\ lease[r] = NoLease
            BY DEF Before, RequestOK, PhaseOK, LeaseOK, InFlight, Leaked
        <3> QED
            BY <1>1, <1>3, <3>1
               DEF InFlight, Admission!Release, Admission!slotVars, admissionSlots
    <2>2. UNCHANGED <<admissionVars, lease>>
        BY <1>1, <2>1 DEF admissionVars, admissionSlots
    <2>3. phase' \in [Requests -> Phases] /\ ending' \in [Requests -> Endings]
        BY <1>1, MoveTypes, Names DEF Before
    <2>4. TypeOK'
        BY <1>1, <2>3, TypeParts DEF Before, streamVars
    <2>5. /\ phase'[r] = "done" /\ ending'[r] = "cancelled"
          /\ \A q \in Requests \ {r} : phase'[q] = phase[q] /\ ending'[q] = ending[q]
        BY <1>1 DEF End, Become, Before, TypeOK
    <2>6. RequestOK(r)'
        <3> USE DEF Before, RequestOK
        <3>1. PhaseOK(r)'
            BY <2>5 DEF PhaseOK, InFlight
        <3>2. LeaseOK(r)'
            BY <1>1, <1>3, <2>2, <2>5 DEF LeaseOK, LeaseOf, InFlight, Leaked, PhaseOK
        <3>3. AccountingOK(r)'
            BY <1>1, <2>5 DEF AccountingOK, Accounted
        <3> QED
            BY <3>1, <3>2, <3>3
    <2>7. \A q \in Requests \ {r} : Untouched(q)
        BY <1>1, <2>2, <2>5 DEF Untouched, streamVars
    <2> QED
        BY <1>1, <2>2, <2>4, <2>5, <2>6, <2>7, QuietStep
<1> QED
    BY <1>2, <1>3

\* The header of a stream: the slot is kept, a 5xx counts as a retry event.
LEMMA HeaderArrivesStep ==
    ASSUME NEW r \in Requests, Before(r), NEW s \in Statuses, HeaderArrives(r, s)
    PROVE  StepSummary(r)
<1>1. /\ phase[r] = "connecting" /\ call[r].stream
      /\ CountFailure(r, s) /\ Answer(r, s) /\ Become(r, "ready")
      /\ UNCHANGED <<now, admissionSlots, admissionTokens, routingVars, call, attempted,
                     streamVars, ending, accounting>>
    BY DEF HeaderArrives
<1>2. s \in 200..599 /\ s \in Codes
    BY GatewayAssumption DEF Codes
<1>3. TypeOK'
    <2>1. phase' \in [Requests -> Phases] /\ status' \in [Requests -> Codes]
        BY <1>1, <1>2, MoveTypes, Names DEF Before
    <2> QED
        BY <1>1, <2>1, TypeParts DEF Before, streamVars
<1>4. /\ phase'[r] = "ready" /\ status'[r] = s /\ lease' = lease
      /\ \A q \in Requests \ {r} : phase'[q] = phase[q] /\ status'[q] = status[q]
    BY <1>1 DEF Become, Answer, Before, TypeOK, admissionSlots
<1>5. RequestOK(r)'
    BY <1>1, <1>4 DEF Before, RequestOK, PhaseOK, LeaseOK, LeaseOf, AccountingOK, InFlight,
                      Leaked
<1>6. \A q \in Requests \ {r} : Untouched(q)
    BY <1>1, <1>4 DEF Untouched, streamVars
<1>7. InFlight(r) /\ call[r].model \in Models /\ ending[r] = "none"
    BY <1>1 DEF InFlight, Before, RequestOK, PhaseOK
<1>8. ControllerEffect
    <2>1. CASE UNCHANGED admissionGuard
        BY <1>1, <2>1 DEF ControllerEffect, admissionSlots, admissionTokens,
                    admissionGuard, Admission!vars, Admission!slotVars,
                    Admission!tokenVars, Admission!guardVars
    <2>2. CASE Admission!RecordRetryEvent(RequestKey(r)) /\ Enabled
        <3>1. Admission!FailedHeader(r)
            BY <1>1, <1>7, <2>2, SlotOfExchange
               DEF Admission!FailedHeader, Admission!slotVars, Admission!tokenVars,
                   admissionSlots, admissionTokens
        <3> QED
            BY <3>1 DEF ControllerEffect, Admission!Next
    <2>3. CASE Admission!RecordRetryEvent(RequestKey(r)) /\ ~Enabled
        <3>1. UNCHANGED admissionGuard
            BY <2>3 DEF Admission!RecordRetryEvent, Admission!guardVars, admissionGuard
        <3> QED
            BY <2>1, <3>1
    <2> QED
        BY <1>1, <2>1, <2>2, <2>3 DEF CountFailure
<1>9. RetryEffect(r)
    BY <1>1, <1>4 DEF CountFailure, RetryEffect
<1>10. TokenEffect(r) /\ RouteEffect(r)
    BY <1>1, <1>7 DEF TokenEffect, RouteEffect
<1> QED
    BY <1>3, <1>5, <1>6, <1>8, <1>9, <1>10 DEF StepSummary

\* _record_usage() accounts once, and charges tokens only for a 2xx.
LEMMA RecordUsageEffect ==
    ASSUME NEW r \in Requests, Before(r), InFlight(r), NEW s, NEW u \in Extracted,
           RecordUsage(r, s, u)
    PROVE  /\ \E what \in {"recorded", "missing_usage", "parse_error"} : Account(r, what)
           /\ \E t \in 0..(MaxPrompt + MaxOutput) :
                /\ Admission!RecordTokens(RequestKey(r), t)
                /\ t = 0 \/ Success(s)
           /\ \/ UNCHANGED admissionTokens
              \/ /\ \E t \in 0..(MaxPrompt + MaxOutput) :
                      Admission!RecordTokens(RequestKey(r), t)
                 /\ Success(s)
                 /\ accounting'[r] = <<"recorded">>
<1>1. 0 \in 0..(MaxPrompt + MaxOutput) /\ (u # -1 => u \in 0..(MaxPrompt + MaxOutput))
    BY ConfigurationAssumption DEF Admission!SizeAssumption, Extracted
<1>2. CASE Success(s) /\ u # -1
    <2>1. Account(r, "recorded") /\ Admission!RecordTokens(RequestKey(r), u)
        BY <1>2 DEF RecordUsage
    <2>2. accounting'[r] = <<"recorded">>
        <3>1. accounting[r] = <<>> /\ DOMAIN accounting = Requests
            BY TypeParts DEF Before, RequestOK, AccountingOK, InFlight
        <3>2. Append(<<>>, "recorded") = <<"recorded">>
            OBVIOUS
        <3> QED
            BY <2>1, <3>1, <3>2 DEF Account
    <2> QED
        BY <1>1, <1>2, <2>1, <2>2
<1>3. CASE ~(Success(s) /\ u # -1)
    <2>1. Account(r, "missing_usage") /\ UNCHANGED admissionTokens
        BY <1>3 DEF RecordUsage
    <2>2. Admission!RecordTokens(RequestKey(r), 0)
        BY <2>1, NoTokens
    <2> QED
        BY <1>1, <2>1, <2>2
<1> QED
    BY <1>2, <1>3

\* An exchange that ends with tokens or a retry event to report.
LEMMA ReportStep ==
    ASSUME NEW r \in Requests, Before(r), InFlight(r), NEW how \in Endings \ {"unreachable"},
           End(r, how), Admission!Release(r),
           ~(call[r].stream /\ how \in {"unstarted", "cancelled", "close_failed"}),
           status' = status \/ \E s \in Codes : Answer(r, s),
           IF how \in Accounted
           THEN \E what \in {"recorded", "missing_usage", "parse_error"} : Account(r, what)
           ELSE accounting' = accounting,
           UNCHANGED <<now, routingVars, call, attempted, streamVars>>,
           NEW tokens \in 0..(MaxPrompt + MaxOutput),
           \/ tokens = 0 /\ Admission!RecordRetryEvent(RequestKey(r))
           \/ UNCHANGED admissionGuard,
           Admission!RecordTokens(RequestKey(r), tokens),
           RetryEffect(r), TokenEffect(r)
    PROVE  StepSummary(r)
<1>1. /\ TypeOK' /\ RequestOK(r)'
      /\ \A q \in Requests \ {r} : Untouched(q)
    BY OverStep
<1>2. ControllerEffect
    BY FinishRefines
<1>3. ending'[r] = how
    BY DEF End, Before, TypeOK
<1> QED
    BY <1>1, <1>2, <1>3 DEF StepSummary, RouteEffect

\* A complete answer: accounted, except if the handler crashed on it.
LEMMA AnswerArrivesStep ==
    ASSUME NEW r \in Requests, Before(r), NEW s \in Statuses, AnswerArrives(r, s)
    PROVE  StepSummary(r)
<1> DEFINE Outcome(how) ==
             /\ End(r, how)
             /\ IF how \in Accounted
                THEN \E what \in {"recorded", "missing_usage", "parse_error"} :
                        Account(r, what)
                ELSE accounting' = accounting
             /\ \E t \in 0..(MaxPrompt + MaxOutput) :
                  /\ Admission!RecordTokens(RequestKey(r), t)
                  /\ t = 0 \/ Success(s)
             /\ \/ UNCHANGED admissionTokens
                \/ /\ \E t \in 0..(MaxPrompt + MaxOutput) :
                        Admission!RecordTokens(RequestKey(r), t)
                   /\ Success(s) /\ Answer(r, s)
                   /\ accounting'[r] = <<"recorded">>
             /\ Answer(r, s) \/ Answer(r, 500)
<1>1. /\ phase[r] = "connecting" /\ ~call[r].stream
      /\ CountFailure(r, s) /\ Admission!Release(r)
      /\ UNCHANGED <<now, routingVars, call, attempted, streamVars>>
    BY DEF AnswerArrives
<1>2. s \in 200..599 /\ s \in Codes /\ 500 \in Codes
    BY GatewayAssumption DEF Codes
<1>3. InFlight(r)
    BY <1>1 DEF InFlight
<1>4. Outcome("answered") \/ Outcome("crashed")
    <2>1. "answered" \in Accounted /\ "crashed" \notin Accounted
        BY DEF Accounted
    <2>2. 0 \in 0..(MaxPrompt + MaxOutput)
        BY ConfigurationAssumption DEF Admission!SizeAssumption
    <2>3. UNCHANGED admissionTokens => Admission!RecordTokens(RequestKey(r), 0)
        BY NoTokens
    <2>4. CASE Account(r, "parse_error") /\ Answer(r, s) /\ End(r, "answered")
                 /\ UNCHANGED admissionTokens
        BY <2>1, <2>2, <2>3, <2>4
    <2>5. CASE Answer(r, 500) /\ End(r, "crashed")
                 /\ UNCHANGED <<admissionTokens, accounting>>
        BY <2>1, <2>2, <2>3, <2>5
    <2>6. ASSUME NEW u \in Extracted, RecordUsage(r, s, u), Answer(r, s), End(r, "answered")
          PROVE  Outcome("answered")
        BY <1>3, <2>1, <2>6, RecordUsageEffect
    <2> QED
        BY <2>4, <2>5, <2>6 DEF AnswerArrives
<1>5. PICK how \in {"answered", "crashed"} : Outcome(how)
    BY <1>4
<1>6. PICK t \in 0..(MaxPrompt + MaxOutput) :
         Admission!RecordTokens(RequestKey(r), t) /\ (t = 0 \/ Success(s))
    BY <1>5
<1>7. \/ t = 0 /\ Admission!RecordRetryEvent(RequestKey(r))
      \/ UNCHANGED admissionGuard
    BY <1>1, <1>2, <1>6 DEF CountFailure, Success
<1>8. phase'[r] = "done" /\ ending'[r] = how /\ status'[r] \in {s, 500}
    BY <1>5 DEF End, Become, Answer, Before, TypeOK
<1>9. RetryEffect(r)
    BY <1>1, <1>2, <1>8 DEF CountFailure, RetryEffect
<1>10. lease'[r] = NoLease
    BY <1>1, ReleaseEffect DEF Before
<1>11. TokenEffect(r)
    <2>1. CASE UNCHANGED admissionTokens
        BY <2>1 DEF TokenEffect
    <2>2. CASE ~UNCHANGED admissionTokens
        <3>1. /\ \E v \in 0..(MaxPrompt + MaxOutput) :
                   Admission!RecordTokens(RequestKey(r), v)
              /\ Success(s) /\ Answer(r, s)
              /\ accounting'[r] = <<"recorded">>
            BY <1>5, <2>2
        <3>2. status'[r] = s
            BY <3>1 DEF Answer, Before, TypeOK
        <3> QED
            BY <1>1, <1>8, <1>10, <3>1, <3>2 DEF TokenEffect
    <2> QED
        BY <2>1, <2>2
<1>12. how \in Endings \ {"unreachable"} /\ how \notin {"unstarted", "cancelled", "close_failed"}
    BY Names
<1>13. \E c \in Codes : Answer(r, c)
    BY <1>2, <1>5
<1>14. IF how \in Accounted
       THEN \E what \in {"recorded", "missing_usage", "parse_error"} : Account(r, what)
       ELSE accounting' = accounting
    BY <1>5
<1>15. End(r, how)
    BY <1>5
<1> HIDE DEF Outcome
<1> QED
    BY <1>1, <1>3, <1>6, <1>7, <1>9, <1>11, <1>12, <1>13, <1>14, <1>15, ReportStep

\* The finally block of a stream: the slot given back, the usage accounted.
LEMMA UpstreamClosedStep ==
    ASSUME NEW r \in Requests, Before(r), UpstreamClosed(r)
    PROVE  StepSummary(r)
<1>1. /\ phase[r] = "closing" /\ Admission!Release(r) /\ AccountStream(r)
      /\ Become(r, "done")
      /\ UNCHANGED <<now, admissionGuard, routingVars, call, attempted, status, streamVars,
                     ending>>
    BY DEF UpstreamClosed, ReleaseStream
<1>2. InFlight(r)
    BY <1>1 DEF InFlight
<1>3. /\ ending[r] \in {"broken", "disconnected", "failed", "completed", "abandoned"}
      /\ ending[r] \in Endings \ {"unreachable"} /\ ending[r] \in Accounted
    BY <1>1, Names DEF Before, RequestOK, PhaseOK, Accounted
<1>4. End(r, ending[r])
    <2>1. ending' = [ending EXCEPT ![r] = ending[r]]
        BY <1>1 DEF Before, TypeOK
    <2> QED
        BY <1>1, <2>1 DEF End
<1> DEFINE Charged ==
             /\ \E t \in 0..(MaxPrompt + MaxOutput) :
                   Admission!RecordTokens(RequestKey(r), t)
             /\ Success(status[r])
             /\ accounting'[r] = <<"recorded">>
<1>5. /\ \E what \in {"recorded", "missing_usage", "parse_error"} : Account(r, what)
      /\ \E t \in 0..(MaxPrompt + MaxOutput) : Admission!RecordTokens(RequestKey(r), t)
      /\ UNCHANGED admissionTokens \/ Charged
    <2>1. CASE ending[r] \in {"disconnected", "failed"} \/ ~parsing[r]
        <3>1. /\ Account(r, "missing_usage") \/ Account(r, "parse_error")
              /\ UNCHANGED admissionTokens
            BY <1>1, <2>1 DEF AccountStream
        <3>2. Admission!RecordTokens(RequestKey(r), 0)
            BY <3>1, NoTokens
        <3>3. 0 \in 0..(MaxPrompt + MaxOutput)
            BY ConfigurationAssumption DEF Admission!SizeAssumption
        <3> QED
            BY <3>1, <3>2, <3>3
    <2>2. CASE ~(ending[r] \in {"disconnected", "failed"} \/ ~parsing[r])
        <3>1. RecordUsage(r, status[r], usage[r])
            BY <1>1, <2>2 DEF AccountStream
        <3>2. usage[r] \in Extracted
            BY TypeParts DEF Before
        <3> QED
            BY <1>2, <3>1, <3>2, RecordUsageEffect
    <2> QED
        BY <2>1, <2>2
<1>6. PICK tokens \in 0..(MaxPrompt + MaxOutput) :
         Admission!RecordTokens(RequestKey(r), tokens)
    BY <1>5
<1>7. phase'[r] = "done" /\ status'[r] = status[r]
    BY <1>1 DEF Become, Before, TypeOK
<1>8. lease'[r] = NoLease
    BY <1>1, ReleaseEffect DEF Before
<1>9. TokenEffect(r)
    BY <1>1, <1>5, <1>7, <1>8 DEF TokenEffect
<1>10. RetryEffect(r)
    BY <1>1 DEF RetryEffect
<1>11. ending[r] \notin {"unstarted", "cancelled", "close_failed"}
    BY <1>3
<1> HIDE DEF Charged
<1> QED
    BY <1>1, <1>2, <1>3, <1>4, <1>5, <1>6, <1>9, <1>10, <1>11, ReportStep

-----------------------------------------------------------------------------
(* Admission.                                                               *)

\* A request turned down by acquire(), or for want of an upstream: its slot
\* is free again and at most a trimmed token window remains.
LEMMA TurnedDownStep ==
    ASSUME NEW r \in Requests, Before(r), phase[r] = "reading",
           NEW m \in Models, NEW stream \in BOOLEAN,
           call' = [call EXCEPT ![r].model = m, ![r].stream = stream],
           NEW s \in Codes, Answer(r, s), End(r, "rejected"),
           UNCHANGED <<admissionSlots, admissionGuard, routingVars, attempted, streamVars,
                       accounting>>,
           ControllerEffect, TokenEffect(r)
    PROVE  StepSummary(r)
<1>1. TypeOK'
    <2>1. call' \in [Requests -> Calls]
        BY CallType DEF Before
    <2>2. /\ phase' \in [Requests -> Phases] /\ ending' \in [Requests -> Endings]
          /\ status' \in [Requests -> Codes]
        BY MoveTypes, Names DEF Before
    <2> QED
        BY <2>1, <2>2, TypeParts DEF Before, streamVars
<1>2. /\ phase'[r] = "done" /\ ending'[r] = "rejected" /\ lease' = lease
      /\ \A q \in Requests \ {r} :
           /\ phase'[q] = phase[q] /\ ending'[q] = ending[q] /\ status'[q] = status[q]
           /\ call'[q] = call[q]
    BY DEF End, Become, Answer, Before, TypeOK, admissionSlots
<1>3. RequestOK(r)'
    BY <1>2 DEF Before, RequestOK, PhaseOK, LeaseOK, AccountingOK, InFlight, Leaked, Accounted
<1>4. \A q \in Requests \ {r} : Untouched(q)
    BY <1>2 DEF Untouched, streamVars
<1> QED
    BY <1>1, <1>2, <1>3, <1>4 DEF StepSummary, RetryEffect, RouteEffect

\* A request let in, and on its way to the first upstream.
LEMMA LetInStep ==
    ASSUME NEW r \in Requests, Before(r), phase[r] = "reading",
           NEW m \in Models, NEW stream \in BOOLEAN,
           call' = [call EXCEPT ![r].model = m, ![r].stream = stream],
           NEW u \in Upstreams, Routing!SelectUpstream(m, {}, u),
           attempted' = [attempted EXCEPT ![r] = {u}],
           Become(r, "connecting"),
           IF Enabled THEN lease' = [lease EXCEPT ![r] = LeaseOf(r)'] ELSE lease' = lease,
           UNCHANGED <<admissionGuard, status, ending, streamVars, accounting>>,
           ControllerEffect, TokenEffect(r)
    PROVE  StepSummary(r)
<1>1. TypeOK'
    <2>1. call' \in [Requests -> Calls]
        BY CallType DEF Before
    <2>2. phase' \in [Requests -> Phases]
        BY MoveTypes, Names DEF Before
    <2>3. attempted' \in [Requests -> SUBSET Upstreams]
        BY DEF Before, TypeOK
    <2> QED
        BY <2>1, <2>2, <2>3, TypeParts DEF Before, streamVars
<1>2. call'[r].model = m /\ LeaseOf(r)' \in Admission!Leases
    <2>0. call' \in [Requests -> Calls]
        BY CallType DEF Before
    <2>1. call'[r] \in Calls
        BY <2>0
    <2>2. call'[r].model = m
        BY TypeParts DEF Before, Calls
    <2> QED
        BY <2>1, <2>2 DEF Calls, LeaseOf, Admission!Leases
<1>3. /\ phase'[r] = "connecting" /\ attempted'[r] = {u} /\ attempted[r] = {}
      /\ ending'[r] = ending[r] /\ ending[r] = "none"
      /\ \A q \in Requests \ {r} :
           /\ phase'[q] = phase[q] /\ attempted'[q] = attempted[q] /\ call'[q] = call[q]
           /\ lease'[q] = lease[q]
    BY DEF Become, Before, TypeOK, LeaseType, RequestOK, PhaseOK
<1>4. /\ lease[r] = NoLease
      /\ Enabled => lease'[r] = LeaseOf(r)'
      /\ ~Enabled => lease'[r] = NoLease
    BY DEF Before, LeaseType, RequestOK, LeaseOK, InFlight, Leaked
<1>5. NoLease \notin Admission!Leases
    BY ConfigurationAssumption DEF Admission!SizeAssumption
<1>6. RequestOK(r)'
    <2>1. PhaseOK(r)'
        BY <1>2, <1>3 DEF PhaseOK, InFlight
    <2>2. LeaseOK(r)'
        BY <1>2, <1>3, <1>4, <1>5 DEF LeaseOK, InFlight
    <2>3. AccountingOK(r)'
        BY <1>3 DEF Before, RequestOK, AccountingOK
    <2> QED
        BY <2>1, <2>2, <2>3 DEF RequestOK
<1>7. \A q \in Requests \ {r} : Untouched(q)
    BY <1>3 DEF Untouched, streamVars
<1>8. RouteEffect(r)
    BY <1>2, <1>3 DEF RouteEffect
<1> QED
    BY <1>1, <1>6, <1>7, <1>8 DEF StepSummary, RetryEffect

\* acquire() and the first selection of an upstream.
LEMMA DispatchStep ==
    ASSUME NEW r \in Requests, Before(r), NEW m \in Models, NEW stream \in BOOLEAN,
           Dispatch(r, m, stream)
    PROVE  StepSummary(r)
<1> DEFINE l == [department |-> call[r].department, model_name |-> m,
                 endpoint |-> call[r].endpoint]
           k == Admission!Key(l)
           Rejected == /\ Admission!AcquireRejected(l)
                       /\ Answer(r, 429)
                       /\ End(r, "rejected")
                       /\ UNCHANGED <<routingVars, attempted>>
           NoUpstream == /\ Routing!NoHealthyUpstream(m, {})
                         /\ IF Enabled
                            THEN Admission!Admits(k) /\ Admission!DropOldTokenEvents(k)
                            ELSE UNCHANGED admissionTokens
                         /\ Answer(r, 503)
                         /\ End(r, "rejected")
                         /\ UNCHANGED <<admissionSlots, attempted>>
           LetIn == /\ IF Enabled
                       THEN Admission!AcquireAdmitted(r, l)
                       ELSE UNCHANGED <<admissionSlots, admissionTokens>>
                    /\ \E u \in Upstreams :
                         /\ Routing!SelectUpstream(m, {}, u)
                         /\ attempted' = [attempted EXCEPT ![r] = {u}]
                    /\ Become(r, "connecting")
                    /\ UNCHANGED <<status, ending>>
<1>1. /\ phase[r] = "reading"
      /\ call' = [call EXCEPT ![r].model = m, ![r].stream = stream]
      /\ Rejected \/ NoUpstream \/ LetIn
      /\ UNCHANGED <<now, admissionGuard, streamVars, accounting>>
    BY DEF Dispatch
<1>2. l \in Admission!Leases /\ k \in Departments \X Models
    <2>1. call[r] \in Calls
        BY TypeParts DEF Before
    <2> QED
        BY <2>1 DEF Calls, Admission!Leases, Admission!Key
<1>3. 429 \in Codes /\ 503 \in Codes
    BY DEF Codes
<1>4. Admission!DropOldTokenEvents(k) => TokenEffect(r)
    BY <1>2 DEF TokenEffect
<1>5. /\ admissionSlots = Admission!slotVars /\ admissionSlots' = Admission!slotVars'
      /\ admissionTokens = Admission!tokenVars /\ admissionTokens' = Admission!tokenVars'
      /\ admissionGuard = Admission!guardVars /\ admissionGuard' = Admission!guardVars'
    BY DEF admissionSlots, admissionTokens, admissionGuard, Admission!slotVars,
           Admission!tokenVars, Admission!guardVars
<1>6. UNCHANGED <<now, admissionSlots, admissionTokens, admissionGuard>> => ControllerEffect
    BY <1>5 DEF ControllerEffect, Admission!vars
<1> HIDE DEF l, k
<1>7. CASE Rejected
    <2>1. ControllerEffect
        <3>1. Admission!Reject(l)
            BY <1>1, <1>5, <1>7 DEF Admission!Reject
        <3> QED
            BY <1>2, <3>1 DEF ControllerEffect, Admission!Next
    <2>2. UNCHANGED admissionSlots
        BY <1>5, <1>7 DEF Admission!AcquireRejected
    <2>3. TokenEffect(r)
        <3>1. Admission!DropOldTokenEvents(k) \/ UNCHANGED admissionTokens
            BY <1>5, <1>7 DEF Admission!AcquireRejected, k
        <3> QED
            BY <1>4, <3>1 DEF TokenEffect
    <2> QED
        BY <1>1, <1>3, <1>7, <2>1, <2>2, <2>3, TurnedDownStep
<1>8. CASE NoUpstream
    <2>1. ControllerEffect
        <3>1. CASE Enabled
            <4>1. Admission!AdmitAndGiveBack(l)
                BY <1>1, <1>5, <1>8, <3>1 DEF Admission!AdmitAndGiveBack, k
            <4> QED
                BY <1>2, <4>1 DEF ControllerEffect, Admission!Next
        <3>2. CASE ~Enabled
            BY <1>1, <1>6, <1>8, <3>2
        <3> QED
            BY <3>1, <3>2
    <2>2. TokenEffect(r)
        BY <1>4, <1>8 DEF TokenEffect
    <2>3. UNCHANGED routingVars
        BY <1>8 DEF Routing!NoHealthyUpstream, Routing!vars, routingVars
    <2> QED
        BY <1>1, <1>3, <1>8, <2>1, <2>2, <2>3, TurnedDownStep
<1>9. CASE LetIn
    <2>1. ControllerEffect
        <3>1. CASE Enabled
            <4>1. Admission!Admit(r, l)
                BY <1>1, <1>5, <1>9, <3>1 DEF Admission!Admit
            <4> QED
                BY <1>2, <4>1 DEF ControllerEffect, Admission!Next
        <3>2. CASE ~Enabled
            BY <1>1, <1>6, <1>9, <3>2
        <3> QED
            BY <3>1, <3>2
    <2>2. TokenEffect(r)
        BY <1>4, <1>9 DEF TokenEffect, Admission!AcquireAdmitted, k
    <2>3. l = LeaseOf(r)'
        <3>1. call[r] \in Calls /\ DOMAIN call = Requests
            BY TypeParts DEF Before
        <3>2. /\ call'[r].model = m /\ call'[r].department = call[r].department
              /\ call'[r].endpoint = call[r].endpoint
            BY <1>1, <3>1 DEF Calls
        <3> QED
            BY <3>2 DEF LeaseOf, l
    <2>4. IF Enabled THEN lease' = [lease EXCEPT ![r] = LeaseOf(r)'] ELSE lease' = lease
        BY <1>9, <2>3 DEF Admission!AcquireAdmitted, Admission!TakeSlot, admissionSlots
    <2>5. PICK u \in Upstreams :
             /\ Routing!SelectUpstream(m, {}, u)
             /\ attempted' = [attempted EXCEPT ![r] = {u}]
        BY <1>9
    <2> QED
        BY <1>1, <1>9, <2>1, <2>2, <2>4, <2>5, LetInStep
<1> QED
    BY <1>1, <1>7, <1>8, <1>9

-----------------------------------------------------------------------------
(* Every step of the gateway.                                               *)

\* Whatever a request does next, its step is of the kind StepSummary describes.
LEMMA EveryRequestStep ==
    ASSUME NEW r \in Requests, Before(r), RequestStep(r)
    PROVE  StepSummary(r)
<1>1. CASE \E d \in Departments, e \in Endpoints : Arrive(r, d, e)
    BY <1>1, ArriveStep
<1>2. CASE HandlerCancelled(r)
    BY <1>2, HandlerCancelledStep
<1>3. CASE Proceed(r)
    <2>1. CASE \E s \in Statuses : UpstreamAnswers(r, s)
        BY <2>1, AnswerArrivesStep, HeaderArrivesStep DEF UpstreamAnswers
    <2>2. CASE UpstreamClosed(r)
        BY <2>2, UpstreamClosedStep
    <2>3. CASE OtherStep(r)
        <3>1. CASE RejectBody(r) \/ \E m \in Models : RejectShape(r, m)
            BY <3>1, RejectStep
        <3>2. CASE \E m \in Models, stream \in BOOLEAN : Dispatch(r, m, stream)
            BY <3>2, DispatchStep
        <3>3. CASE \E timedOut \in BOOLEAN : ConnectFails(r, timedOut)
                                              \/ ExchangeFails(r, timedOut)
            BY <3>3, ConnectFailsStep, ExchangeFailsStep
        <3>4. CASE HandlerCrashes(r)
            BY <3>4, HandlerCrashesStep
        <3>5. CASE \/ BodyStarts(r) \/ BodyNeverStarts(r) \/ ChunkArrives(r)
                   \/ StreamBreaks(r) \/ ClientLeaves(r) \/ StreamFails(r)
                   \/ StreamEnds(r) \/ ChunkTaken(r) \/ GeneratorClosed(r) \/ CloseFails(r)
            BY <3>5, StreamSteps
        <3> QED
            BY <2>3, <3>1, <3>2, <3>3, <3>4, <3>5 DEF OtherStep
    <2> QED
        BY <1>3, <2>1, <2>2, <2>3 DEF Proceed
<1> QED
    BY <1>1, <1>2, <1>3 DEF RequestStep

\* The steps of no request: time passes, probes change the health of upstreams.
WorldStep ==
    /\ UNCHANGED <<requestVars, admissionSlots, admissionTokens, admissionGuard,
                   round_robin_index>>
    /\ ControllerEffect
    /\ UNCHANGED healthy \/ healthy' \in [Upstreams -> BOOLEAN]

\* What the steps of requests need of the invariant; and both modules that know
\* leases mean the same by them.
LEMMA Configured ==
    /\ GatewayInv => LeaseType /\ \A r \in Requests : Before(r)
    /\ Admission!Leases = Controller!Leases /\ Admission!Keys = Controller!Keys
<1>1. Admission!Leases = Controller!Leases /\ Admission!Keys = Controller!Keys
    BY DEF Admission!Leases, Controller!Leases, Admission!Keys, Controller!Keys
<1>2. GatewayInv => LeaseType
    BY <1>1 DEF GatewayInv, LeaseType, Controller!Inv, Controller!TypeOK
<1> QED
    BY <1>1, <1>2 DEF GatewayInv, Before

\* A step of the gateway is a step of one request, or of none.
LEMMA GatewayStep ==
    ASSUME GatewayInv, [Next]_vars
    PROVE  WorldStep \/ \E r \in Requests : StepSummary(r)
<1>1. ASSUME NEW r \in Requests, RequestStep(r)
      PROVE  StepSummary(r)
    BY <1>1, Configured, EveryRequestStep
<1>2. CASE Tick
    <2>1. ControllerEffect
        BY <1>2 DEF Tick, ControllerEffect, Admission!Next
    <2> QED
        BY <1>2, <2>1
           DEF Tick, WorldStep, routingVars, Admission!Tick, Admission!slotVars,
               Admission!tokenVars, Admission!guardVars, admissionSlots, admissionTokens,
               admissionGuard
<1>3. CASE HealthChanges \/ UNCHANGED vars
    <2>1. /\ UNCHANGED <<requestVars, admissionVars, round_robin_index>>
          /\ UNCHANGED healthy \/ healthy' \in [Upstreams -> BOOLEAN]
        BY <1>3 DEF HealthChanges, Routing!SetUpstreamHealth, vars, routingVars
    <2> QED
        BY <2>1 DEF WorldStep, ControllerEffect, admissionVars, admissionSlots,
                    admissionTokens, admissionGuard, Admission!vars, Admission!slotVars,
                    Admission!tokenVars, Admission!guardVars
<1> QED
    BY <1>1, <1>2, <1>3 DEF Next

\* Requests that a step does not touch stay as they were.
LEMMA UntouchedOK ==
    ASSUME NEW q, RequestOK(q), Untouched(q)
    PROVE  RequestOK(q)'
BY DEF Untouched, RequestOK, PhaseOK, LeaseOK, LeaseOf, AccountingOK, InFlight, Leaked

\* Selections keep the registry well formed.
LEMMA RegistryStep ==
    ASSUME NEW r \in Requests, Registry!TypeOK, RouteEffect(r)
    PROVE  Registry!TypeOK'
<1>1. CASE UNCHANGED routingVars
    BY <1>1 DEF routingVars, Registry!TypeOK, Registry!PoolSize
<1>2. ASSUME NEW m \in Models, NEW excluded, NEW u, Routing!SelectUpstream(m, excluded, u)
      PROVE  Registry!TypeOK'
    BY <1>2, SameRegistry, RegistryConfigured, Registry!SelectMoves
<1> QED
    BY <1>1, <1>2 DEF RouteEffect

\* A gateway that has just started satisfies the invariant.
LEMMA GatewayInvInit == Init => GatewayInv
<1> SUFFICES ASSUME Init PROVE GatewayInv
    OBVIOUS
<1>1. TypeOK
    <2>1. NoCall \in Calls
        <3>1. (CHOOSE d \in Departments : TRUE) \in Departments
            BY GatewayAssumption
        <3>2. (CHOOSE e \in Endpoints : TRUE) \in Endpoints
            BY GatewayAssumption
        <3> QED
            BY <3>1, <3>2 DEF NoCall, Calls
    <2>2. -1 \in Extracted
        BY ConfigurationAssumption DEF Admission!SizeAssumption, Extracted
    <2>3. <<>> \in Counts
        BY DEF Counts
    <2> QED
        BY <2>1, <2>2, <2>3, TypeParts DEF Init, Phases, Endings, Codes
<1>2. Controller!Inv
    BY SameController, ControllerConfigured, Controller!InvInit DEF Init
<1>3. Registry!TypeOK
    BY SameRegistry, RegistryConfigured, Registry!RoutingTypeInit DEF Init
<1>4. \A r \in Requests : lease[r] = NoLease
    BY DEF Init, Admission!Init
<1>5. \A r \in Requests : RequestOK(r)
    BY <1>4 DEF Init, NoCall, RequestOK, PhaseOK, LeaseOK, AccountingOK, InFlight, Leaked
<1> QED
    BY <1>1, <1>2, <1>3, <1>5 DEF GatewayInv

\* Every step of the gateway keeps the invariant.
LEMMA GatewayInvNext == GatewayInv /\ [Next]_vars => GatewayInv'
<1> SUFFICES ASSUME GatewayInv, [Next]_vars PROVE GatewayInv'
    OBVIOUS
<1>1. ControllerEffect => Controller!Inv'
    BY SameController, ControllerConfigured, Controller!InvNext DEF GatewayInv, ControllerEffect
<1>2. ASSUME NEW r \in Requests, StepSummary(r)
      PROVE  GatewayInv'
    <2>1. TypeOK' /\ Controller!Inv'
        BY <1>1, <1>2 DEF StepSummary
    <2>2. Registry!TypeOK'
        BY <1>2, RegistryStep DEF StepSummary, GatewayInv
    <2>3. \A q \in Requests : RequestOK(q)'
        BY <1>2, UntouchedOK DEF StepSummary, GatewayInv
    <2> QED
        BY <2>1, <2>2, <2>3 DEF GatewayInv
<1>3. CASE WorldStep
    <2>1. Controller!Inv'
        BY <1>1, <1>3 DEF WorldStep
    <2>2. Registry!TypeOK'
        BY <1>3 DEF WorldStep, GatewayInv, Registry!TypeOK, Registry!PoolSize
    <2>3. TypeOK'
        BY <1>3 DEF WorldStep, GatewayInv, TypeOK, requestVars, streamVars
    <2>4. \A q \in Requests : Untouched(q)
        BY <1>3 DEF WorldStep, Untouched, requestVars, streamVars, admissionSlots
    <2>5. \A q \in Requests : RequestOK(q)'
        BY <2>4, UntouchedOK DEF GatewayInv
    <2> QED
        BY <2>1, <2>2, <2>3, <2>5 DEF GatewayInv
<1> QED
    BY <1>2, <1>3, GatewayStep

-----------------------------------------------------------------------------
(* State properties.                                                        *)

\* Every behaviour of the gateway stays within the inductive invariant.
THEOREM GatewayInvariance == Spec => []GatewayInv
<1> QED
    BY GatewayInvInit, GatewayInvNext, PTL DEF Spec

\* The handlers keep the state of every request well formed.
THEOREM GatewayTypeCorrect == Spec => []TypeOK
<1>1. GatewayInv => TypeOK
    BY DEF GatewayInv
<1> QED
    BY <1>1, GatewayInvariance, PTL

\* A request holds its slot exactly while its upstream exchange is under way,
\* and beyond it only on the three ways out of Leaked.
THEOREM SlotsFollowExchanges == Spec => []SlotsFollowRequests
<1>1. GatewayInv => SlotsFollowRequests
    BY DEF GatewayInv, RequestOK, LeaseOK, SlotsFollowRequests
<1> QED
    BY <1>1, GatewayInvariance, PTL

\* Every exchange under way is counted by the controller, so the limit of a
\* model bounds the exchanges with its upstreams.
LEMMA LoadIsCounted == GatewayInv => UpstreamLoadWithinLimits
<1> SUFFICES ASSUME GatewayInv, Enabled, NEW m \in DOMAIN ModelLimit
             PROVE  Cardinality({r \in Requests : InFlight(r) /\ call[r].model = m})
                      <= ModelLimit[m]
    BY DEF UpstreamLoadWithinLimits
<1> DEFINE Load == {r \in Requests : InFlight(r) /\ call[r].model = m}
           Slots == Controller!HoldersOfModel(m)
<1>1. Load \subseteq Slots
    <2> SUFFICES ASSUME NEW r \in Requests, InFlight(r), call[r].model = m
                 PROVE  r \in Slots
        OBVIOUS
    <2>1. lease[r] # NoLease /\ lease[r] = LeaseOf(r)
        BY DEF GatewayInv, RequestOK, LeaseOK
    <2>2. lease[r].model_name = m
        BY <2>1 DEF LeaseOf
    <2> QED
        BY <2>1, <2>2 DEF Controller!HoldersOfModel, Controller!Holders
<1>2. IsFiniteSet(Slots)
    <2>1. IsFiniteSet(Requests)
        BY ConfigurationAssumption
           DEF Admission!SizeAssumption, Admission!IsFiniteSet, IsFiniteSet
    <2>2. Slots \subseteq Requests
        BY DEF Controller!HoldersOfModel, Controller!Holders
    <2> QED
        BY <2>1, <2>2, FS_Subset
<1>3. Cardinality(Load) <= Cardinality(Slots)
    BY <1>1, <1>2, FS_Subset
<1>4. Cardinality(Slots) <= ModelLimit[m]
    BY SameCounting DEF GatewayInv, Controller!Inv, Controller!WithinLimits
<1>5. Cardinality(Load) \in Nat /\ Cardinality(Slots) \in Nat
    BY <1>1, <1>2, FS_Subset, FS_CardinalityType
<1>6. ModelLimit[m] \in Nat
    BY ConfigurationAssumption DEF Admission!LimitAssumption, Admission!Positive
<1> QED
    BY <1>3, <1>4, <1>5, <1>6

\* No upstream pool ever carries more exchanges than max_active_requests of
\* its model, streams included until they are closed.
THEOREM UpstreamLoadBounded == Spec => []UpstreamLoadWithinLimits
<1> QED
    BY LoadIsCounted, GatewayInvariance, PTL

\* Token accounting covers every exchange exactly once.
THEOREM AccountingComplete == Spec => []EveryExchangeAccounted
<1>1. GatewayInv => EveryExchangeAccounted
    <2>1. Len(<<>>) = 0
        OBVIOUS
    <2> QED
        BY <2>1 DEF GatewayInv, RequestOK, AccountingOK, Accounted, EveryExchangeAccounted
<1> QED
    BY <1>1, GatewayInvariance, PTL

\* Whatever interleaving of requests, failovers and disconnects occurs, the
\* controller sees only behaviours its specification allows: the handlers call
\* acquire(), release() and the record methods in a legal order.
THEOREM HandlersUseController == Spec => AdmissionSpec
<1>1. Init => Admission!Init
    BY DEF Init
<1>2. GatewayInv /\ [Next]_vars => [Admission!Next]_(Admission!vars)
    BY GatewayStep DEF WorldStep, StepSummary, ControllerEffect
<1> QED
    BY <1>1, <1>2, GatewayInvariance, PTL DEF Spec, AdmissionSpec, Admission!Spec

\* They use the registry as its specification says, too, the monitor's rounds
\* included: what is proved of Routing for any selections and any failovers, such
\* as the fairness of the round robin, is true of the gateway's.
THEOREM HandlersUseRegistry == Spec => Routing!Spec
<1>1. Init => Routing!Init
    BY DEF Init
<1>2. ASSUME GatewayInv, NEW r \in Requests, StepSummary(r)
      PROVE  [Routing!Next]_(Routing!vars)
    <2>1. CASE UNCHANGED routingVars
        BY <2>1 DEF routingVars, Routing!vars
    <2>2. CASE \E u \in Upstreams :
                 /\ call'[r].model \in Models
                 /\ Routing!SelectUpstream(call'[r].model, attempted[r], u)
        <3>1. attempted[r] \in SUBSET Upstreams
            BY <1>2 DEF GatewayInv, TypeOK
        <3> QED
            BY <2>2, <3>1 DEF Routing!Next
    <2> QED
        BY <1>2, <2>1, <2>2 DEF StepSummary, RouteEffect
<1>3. WorldStep => [Routing!Next]_(Routing!vars)
    BY DEF WorldStep, Routing!Next, Routing!SetUpstreamHealth, Routing!vars
<1>4. GatewayInv /\ [Next]_vars => [Routing!Next]_(Routing!vars)
    BY <1>2, <1>3, GatewayStep
<1> QED
    BY <1>1, <1>4, GatewayInvariance, PTL DEF Spec, Routing!Spec

\* The gateway as a whole keeps what Quota promises of budgets and of the retry
\* guard: windows that are always exact, whatever the requests in flight do.
THEOREM GatewayImplementsQuota == Spec => Controller!ImplementsQuota
<1>1. AdmissionSpec => Controller!Spec
    BY SameController, PTL DEF AdmissionSpec, Admission!Spec, Controller!Spec
<1>2. Controller!Spec => Controller!ImplementsQuota
    BY ControllerConfigured, Controller!ControllerImplementsQuota
<1> QED
    BY <1>1, <1>2, HandlersUseController, PTL

-----------------------------------------------------------------------------
(* Action properties.                                                       *)

\* What one selection does for the request it is made for.
LEMMA SelectionIsNew ==
    ASSUME GatewayInv, NEW m \in Models, NEW excluded \in SUBSET Upstreams, NEW u,
           Routing!SelectUpstream(m, excluded, u)
    PROVE  /\ u \in {Pool[m][i] : i \in DOMAIN Pool[m]} \ excluded
           /\ healthy[u]
           /\ \A n \in Models \ {m} : round_robin_index'[n] = round_robin_index[n]
<1>1. Registry!TypeOK /\ Registry!SelectUpstream(m, excluded, u)
    BY SameRegistry DEF GatewayInv
<1>2. u \in {Pool[m][i] : i \in DOMAIN Pool[m]} /\ Registry!Eligible(u, excluded)
    BY <1>1, RegistryConfigured, Registry!SelectedIsEligible
<1>3. \A n \in Models \ {m} : round_robin_index'[n] = round_robin_index[n]
    BY <1>1 DEF Registry!TypeOK, Registry!SelectUpstream
<1> QED
    BY <1>2, <1>3 DEF Registry!Eligible

\* A refusal means that every member was tried or is known to be unhealthy.
LEMMA RefusalIsJustified ==
    ASSUME GatewayInv, NEW m \in Models, NEW excluded,
           Routing!NoHealthyUpstream(m, excluded),
           NEW i \in DOMAIN Pool[m]
    PROVE  Pool[m][i] \in excluded \/ ~healthy[Pool[m][i]]
<1>1. Registry!TypeOK /\ Registry!Candidates(m, excluded) = {}
    BY SameRegistry DEF GatewayInv, Registry!NoHealthyUpstream
<1>2. ~Registry!Eligible(Pool[m][i], excluded)
    BY <1>1, RegistryConfigured, Registry!RefusedMeansNoneLeft
<1> QED
    BY <1>2 DEF Registry!Eligible

\* No step of the gateway breaks the rules of failover.
LEMMA FailoverHolds == GatewayInv /\ [Next]_vars => FailoverStep
<1> SUFFICES ASSUME GatewayInv, [Next]_vars PROVE FailoverStep
    OBVIOUS
<1> DEFINE PoolOf(m) == {Pool[m][i] : i \in DOMAIN Pool[m]}
<1>1. \A q \in Requests : phase[q] # "done" => ending[q] # "unreachable"
    BY DEF GatewayInv, RequestOK, PhaseOK
<1>2. CASE WorldStep
    <2>1. /\ round_robin_index' = round_robin_index /\ attempted' = attempted
          /\ ending' = ending
        BY <1>2 DEF WorldStep, requestVars
    <2> QED
        BY <1>1, <2>1 DEF FailoverStep
<1>3. ASSUME NEW r \in Requests, StepSummary(r)
      PROVE  FailoverStep
    <2>1. \A q \in Requests \ {r} : attempted'[q] = attempted[q] /\ ending'[q] = ending[q]
        BY <1>3 DEF StepSummary, Untouched
    <2>2. attempted[r] \in SUBSET Upstreams
        BY DEF GatewayInv, TypeOK
    <2>3. RouteEffect(r)
        BY <1>3 DEF StepSummary
    <2>4. attempted'[r] # attempted[r] =>
            \E u \in PoolOf(call'[r].model) \ attempted[r] :
               healthy[u] /\ attempted'[r] = attempted[r] \cup {u}
        BY <2>2, <2>3, SelectionIsNew DEF RouteEffect
    <2>5. phase[r] # "done" /\ ending'[r] = "unreachable" =>
            \A u \in PoolOf(call'[r].model) : u \in attempted[r] \/ ~healthy[u]
        BY <2>3, RefusalIsJustified DEF RouteEffect
    <2>6. ASSUME NEW m \in Models, round_robin_index'[m] # round_robin_index[m]
          PROVE  call'[r].model = m /\ attempted'[r] # attempted[r]
        <3>1. PICK u \in Upstreams :
                 /\ call'[r].model \in Models
                 /\ Routing!SelectUpstream(call'[r].model, attempted[r], u)
                 /\ attempted'[r] = attempted[r] \cup {u}
            BY <2>3, <2>6 DEF RouteEffect, routingVars
        <3>2. /\ u \notin attempted[r]
              /\ \A n \in Models \ {call'[r].model} :
                    round_robin_index'[n] = round_robin_index[n]
            BY <2>2, <3>1, SelectionIsNew
        <3> QED
            BY <2>6, <3>1, <3>2
    <2> QED
        BY <1>1, <2>1, <2>4, <2>5, <2>6 DEF FailoverStep
<1> QED
    BY <1>2, <1>3, GatewayStep

\* Failover tries healthy members of the pool, each at most once, and gives up
\* only when none is left, with any number of requests moving the round robin.
THEOREM FailoverIsSound == Spec => FailoverSound
<1>1. GatewayInv /\ [Next]_vars => [FailoverStep]_vars
    BY FailoverHolds
<1> QED
    BY <1>1, GatewayInvariance, PTL DEF Spec, FailoverSound

\* The controller's variables as the invariant types them.
LEMMA ControllerTypes ==
    GatewayInv => /\ Controller!TypeOK
                  /\ retry_events \in [Departments \X Models -> Seq(Nat)]
                  /\ cooldown_until \in [Departments \X Models -> Nat]
                  /\ token_totals \in [Departments \X Models -> Nat]
BY DEF GatewayInv, Controller!Inv, Controller!TypeOK, Controller!Keys

\* No step of the gateway reports an exchange that did not fail, or twice.
LEMMA RetryEventHolds == GatewayInv /\ [Next]_vars => RetryEventStep
<1> SUFFICES ASSUME GatewayInv, [Next]_vars, NEW k \in Departments \X Models,
                    <<retry_events[k], cooldown_until[k]>>
                      # <<retry_events'[k], cooldown_until'[k]>>
             PROVE  \E r \in Requests : /\ RequestKey(r) = k
                                        /\ phase[r] = "connecting"
                                        /\ phase'[r] \in {"done", "ready"}
                                        /\ status'[r] >= 500
    BY DEF RetryEventStep
<1>1. ~UNCHANGED admissionGuard
    BY DEF admissionGuard
<1>2. PICK r \in Requests : StepSummary(r)
    BY <1>1, GatewayStep DEF WorldStep
<1>3. /\ Admission!RecordRetryEvent(RequestKey(r))
      /\ phase[r] = "connecting" /\ phase'[r] \in {"done", "ready"}
      /\ status'[r] >= 500
    BY <1>1, <1>2 DEF StepSummary, RetryEffect
<1>4. RequestKey(r) = k
    BY <1>3, ControllerTypes DEF Admission!RecordRetryEvent, Admission!guardVars
<1> QED
    BY <1>3, <1>4

\* The retry guard hears of an exchange once, at its end or its header, and
\* only if it failed.
THEOREM OneRetryEvent == Spec => OneRetryEventPerFailure
<1>1. GatewayInv /\ [Next]_vars => [RetryEventStep]_vars
    BY RetryEventHolds
<1> QED
    BY <1>1, GatewayInvariance, PTL DEF Spec, OneRetryEventPerFailure

\* The two instances of Admission trim and charge a window alike.
LEMMA SameWindows ==
    \A k, tokens :
      /\ Admission!DropOldTokenEvents(k) <=> Controller!DropOldTokenEvents(k)
      /\ Admission!RecordTokens(k, tokens) <=> Controller!RecordTokens(k, tokens)
BY DEF Admission!DropOldTokenEvents, Controller!DropOldTokenEvents,
       Admission!RecordTokens, Controller!RecordTokens,
       Admission!FreshTotal, Controller!FreshTotal,
       Admission!FreshEvents, Controller!FreshEvents,
       Admission!ExpiredEvents, Controller!ExpiredEvents,
       Admission!TokensOfFirst, Controller!TokensOfFirst,
       Admission!TokensAt, Controller!TokensAt,
       Admission!DropFirst, Controller!DropFirst,
       Admission!ExpiredCount, Controller!ExpiredCount,
       Admission!MaxZero, Controller!MaxZero, Admission!MaxUsage, Controller!MaxUsage,
       Admission!Cardinality, Controller!Cardinality,
       Admission!tokenVars, Controller!tokenVars

\* No step of the gateway charges a budget but at the end of a 2xx exchange.
LEMMA ChargeHolds == GatewayInv /\ [Next]_vars => ChargeStep
<1> SUFFICES ASSUME GatewayInv, [Next]_vars, NEW k \in Departments \X Models,
                    token_totals'[k] > token_totals[k]
             PROVE  \E r \in Requests : /\ RequestKey(r) = k
                                        /\ phase[r] # "done" /\ phase'[r] = "done"
                                        /\ Success(status'[r])
                                        /\ accounting'[r] = <<"recorded">>
                                        /\ lease[r] # NoLease /\ lease'[r] = NoLease
    BY DEF ChargeStep
<1>1. token_totals[k] \in Nat /\ Controller!TypeOK
    BY ControllerTypes
<1>2. ~UNCHANGED admissionTokens
    BY <1>1 DEF admissionTokens
<1>3. ASSUME NEW j \in Departments \X Models, Admission!DropOldTokenEvents(j)
      PROVE  FALSE
    <2>1. \A q \in Controller!Keys : token_totals'[q] <= token_totals[q]
        BY <1>1, <1>3, SameWindows, ControllerConfigured, Controller!DropOldStep
           DEF Controller!Keys
    <2>2. token_totals'[k] \in Nat
        BY <1>1, <1>3, SameWindows, ControllerConfigured, Controller!DropOldStep
           DEF Controller!Keys, Controller!TokenType
    <2> QED
        BY <1>1, <2>1, <2>2 DEF Controller!Keys
<1>4. PICK r \in Requests : StepSummary(r)
    BY <1>2, GatewayStep DEF WorldStep
<1>5. PICK u \in 0..(MaxPrompt + MaxOutput) :
         /\ Admission!RecordTokens(RequestKey(r), u)
         /\ phase[r] \in {"connecting", "closing"} /\ phase'[r] = "done"
         /\ Success(status'[r])
         /\ accounting'[r] = <<"recorded">>
         /\ lease'[r] = NoLease
    BY <1>2, <1>3, <1>4 DEF StepSummary, TokenEffect
<1>6. Enabled
    BY <1>2, <1>5 DEF Admission!RecordTokens, Admission!tokenVars, admissionTokens
<1>7. lease[r] # NoLease
    BY <1>5, <1>6 DEF GatewayInv, RequestOK, LeaseOK, InFlight
<1>8. RequestKey(r) = k
    BY <1>1, <1>5, ControllerTypes DEF Admission!RecordTokens, Admission!tokenVars
<1> QED
    BY <1>5, <1>7, <1>8

\* A token budget is charged only at the end of an exchange answered 2xx, by
\* the request that gives its slot back in the same step.
THEOREM ChargedOnce == Spec => ChargedOnceFrom2xx
<1>1. GatewayInv /\ [Next]_vars => [ChargeStep]_vars
    BY ChargeHolds
<1> QED
    BY <1>1, GatewayInvariance, PTL DEF Spec, ChargedOnceFrom2xx
=============================================================================
