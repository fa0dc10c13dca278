------------------------------- MODULE Gateway -------------------------------
(***************************************************************************)
(* The proxy path (services/proxy.py): every request runs as one coroutine *)
(* of the event loop and yields only where the code awaits.  The code      *)
(* between two awaits is one step here, with all the calls it makes on the *)
(* admission controller and the routing registry.                          *)
(*                                                                         *)
(*   idle       not yet received                                           *)
(*   reading    await request.body()                                       *)
(*   connecting await post() or send(stream=True), with failover           *)
(*   ready      the StreamingResponse exists, its body is not iterated yet *)
(*   streaming  await the next chunk of the upstream                       *)
(*   yielded    suspended at the yield that hands a chunk to the client    *)
(*   closing    await upstream_response.aclose() in the finally block      *)
(*   done       over                                                       *)
(***************************************************************************)
EXTENDS Integers, Sequences, FiniteSets

CONSTANTS
    Departments, Models, Endpoints, Requests, NoLease, Enabled, ModelLimit,
    DepartmentModelLimit, TokenBudget, RetryGuard, MaxPrompt, MaxOutput, MaxTime,
    Upstreams, Pool,
    RejectUnknownKeys,    \* security.reject_unknown_api_keys
    ShapeLimited,         \* the models with a request_shape_limits entry
    Statuses,             \* what upstreams answer
    NoModel               \* model of a request that was turned down before

ASSUME GatewayAssumption ==
    /\ Departments # {} /\ Endpoints # {}
    /\ RejectUnknownKeys \in BOOLEAN
    /\ ShapeLimited \subseteq Models
    /\ Statuses \subseteq 200..599
    /\ NoModel \notin Models

VARIABLES
    now, lease, active_by_model, active_by_department_model, inflight,
    token_events, token_totals, retry_events, cooldown_until,   \* Admission
    healthy, round_robin_index,                                 \* Routing
    phase,
    call,         \* department, endpoint, model and stream flag
    attempted,    \* attempted_upstream_names
    status,       \* status line sent, or about to be sent, to the client; 0: none
    usage,        \* latest_usage, prompt and output added; -1 stands for None
    parsing,      \* parsing_enabled and no "parse_error" override
    ending,       \* how the request ended
    accounting    \* the token accounting statuses recorded for it

admissionSlots == <<lease, active_by_model, active_by_department_model, inflight>>
admissionTokens == <<token_events, token_totals>>
admissionGuard == <<retry_events, cooldown_until>>
admissionVars == <<now, admissionSlots, admissionTokens, admissionGuard>>
routingVars == <<healthy, round_robin_index>>
streamVars == <<usage, parsing>>
requestVars == <<phase, call, attempted, status, streamVars, ending, accounting>>
vars == <<admissionVars, routingVars, requestVars>>

Admission == INSTANCE Admission
Routing == INSTANCE Routing

\* The gateway's controller and registry are built from one valid configuration.
ASSUME ConfigurationAssumption ==
    /\ Admission!SizeAssumption /\ Admission!LimitAssumption
    /\ Admission!BudgetAssumption /\ Admission!GuardAssumption
    /\ Routing!PoolAssumption

NoCall == [department |-> CHOOSE d \in Departments : TRUE,
           endpoint |-> CHOOSE e \in Endpoints : TRUE,
           model |-> NoModel, stream |-> FALSE]

Init ==
    /\ Admission!Init
    /\ Routing!Init
    /\ phase = [r \in Requests |-> "idle"]
    /\ call = [r \in Requests |-> NoCall]
    /\ attempted = [r \in Requests |-> {}]
    /\ status = [r \in Requests |-> 0]
    /\ usage = [r \in Requests |-> -1]
    /\ parsing = [r \in Requests |-> TRUE]
    /\ ending = [r \in Requests |-> "none"]
    /\ accounting = [r \in Requests |-> <<>>]

RequestKey(r) == <<call[r].department, call[r].model>>
Success(s) == s \in 200..299

Become(r, p) == phase' = [phase EXCEPT ![r] = p]
End(r, how) == Become(r, "done") /\ ending' = [ending EXCEPT ![r] = how]
Answer(r, s) == status' = [status EXCEPT ![r] = s]
Account(r, what) == accounting' = [accounting EXCEPT ![r] = Append(@, what)]

-----------------------------------------------------------------------------
(* Before admission.                                                        *)

\* _enforce_source_resolution_policy(): a missing or unknown API key.
RefusedKey(r) == RejectUnknownKeys /\ Answer(r, 401)

\* _content_length_exceeds_limit(): the declared size is too large.
RefusedSize(r) == Answer(r, 413)

\* The source of the request, then the checks made before its body is read.
Arrive(r, d, e) ==
    /\ phase[r] = "idle"
    /\ call' = [call EXCEPT ![r].department = d, ![r].endpoint = e]
    /\ \/ /\ Become(r, "reading")
          /\ UNCHANGED <<status, ending>>
       \/ /\ RefusedKey(r) \/ RefusedSize(r)
          /\ End(r, "rejected")
    /\ UNCHANGED <<admissionVars, routingVars, attempted, streamVars, accounting>>

\* The body cannot be read, is too large, is not JSON or not an object (400,
\* 413), or names no model (422) ...
RefusedBody(r) == \E s \in {400, 413, 422} : Answer(r, s)

\* ... or the model it names is in no pool.
UnknownModel(r) == Answer(r, 404)

RejectBody(r) ==
    /\ phase[r] = "reading"
    /\ RefusedBody(r) \/ UnknownModel(r)
    /\ End(r, "rejected")
    /\ UNCHANGED <<admissionVars, routingVars, call, attempted, streamVars, accounting>>

\* check_request_shape() turns the payload down: its size, its output cap or n.
RejectShape(r, m) ==
    /\ phase[r] = "reading"
    /\ Enabled /\ m \in ShapeLimited
    /\ call' = [call EXCEPT ![r].model = m]
    /\ \E s \in {413, 422} : Answer(r, s)
    /\ End(r, "rejected")
    /\ UNCHANGED <<admissionVars, routingVars, attempted, streamVars, accounting>>

\* acquire(), then the first _select_upstream(), up to the await of the
\* upstream.  Without an upstream the slot is given back at once (503).
Dispatch(r, m, stream) ==
    LET l == [department |-> call[r].department, model_name |-> m,
              endpoint |-> call[r].endpoint]
    IN
    /\ phase[r] = "reading"
    /\ call' = [call EXCEPT ![r].model = m, ![r].stream = stream]
    /\ \/ /\ Admission!AcquireRejected(l)
          /\ Answer(r, 429)
          /\ End(r, "rejected")
          /\ UNCHANGED <<routingVars, attempted>>
       \/ /\ Routing!NoHealthyUpstream(m, {})
          /\ IF Enabled
             THEN /\ Admission!Admits(Admission!Key(l))
                  /\ Admission!DropOldTokenEvents(Admission!Key(l))
             ELSE UNCHANGED admissionTokens
          /\ Answer(r, 503)
          /\ End(r, "rejected")
          /\ UNCHANGED <<admissionSlots, attempted>>
       \/ /\ IF Enabled
             THEN Admission!AcquireAdmitted(r, l)
             ELSE UNCHANGED <<admissionSlots, admissionTokens>>
          /\ \E u \in Upstreams :
               /\ Routing!SelectUpstream(m, {}, u)
               /\ attempted' = [attempted EXCEPT ![r] = {u}]
          /\ Become(r, "connecting")
          /\ UNCHANGED <<status, ending>>
    /\ UNCHANGED <<now, admissionGuard, streamVars, accounting>>

-----------------------------------------------------------------------------
(* Waiting for an upstream.                                                 *)

\* Mutant of TransportError: a status outside the documented label values.
TransportErrorNewLabel(r, timedOut) ==
    /\ Admission!RecordRetryEvent(RequestKey(r))
    /\ Admission!Release(r)
    /\ Account(r, "upstream_error")
    /\ Answer(r, IF timedOut THEN 504 ELSE 502)

\* _raise_upstream_transport_error(), and the release on the way out.
TransportError(r, timedOut) ==
    /\ Admission!RecordRetryEvent(RequestKey(r))
    /\ Admission!Release(r)
    /\ Account(r, "missing_usage")
    /\ Answer(r, IF timedOut THEN 504 ELSE 502)

\* Mutant of TryAnother: upstreams tried before are not excluded.
TryAnyAgain(r) ==
    /\ \E u \in Upstreams :
         /\ Routing!SelectUpstream(call[r].model, {}, u)
         /\ attempted' = [attempted EXCEPT ![r] = @ \cup {u}]
    /\ UNCHANGED <<admissionSlots, admissionGuard, phase, status, ending, accounting>>

\* Mutant of TryAnother: every failed connection counts as a retry event.
TryAnotherCounted(r) ==
    /\ \E u \in Upstreams :
         /\ Routing!SelectUpstream(call[r].model, attempted[r], u)
         /\ attempted' = [attempted EXCEPT ![r] = @ \cup {u}]
    /\ Admission!RecordRetryEvent(RequestKey(r))
    /\ UNCHANGED <<admissionSlots, phase, status, ending, accounting>>

\* Failover: select an upstream that was not attempted yet and go on waiting.
TryAnother(r) ==
    /\ \E u \in Upstreams :
         /\ Routing!SelectUpstream(call[r].model, attempted[r], u)
         /\ attempted' = [attempted EXCEPT ![r] = @ \cup {u}]
    /\ UNCHANGED <<admissionSlots, admissionGuard, phase, status, ending, accounting>>

\* ConnectError or ConnectTimeout: another upstream that was not tried yet is
\* selected and tried; without one the request fails.
ConnectFails(r, timedOut) ==
    /\ phase[r] = "connecting"
    /\ \/ TryAnother(r)
       \/ /\ Routing!NoHealthyUpstream(call[r].model, attempted[r])
          /\ TransportError(r, timedOut)
          /\ End(r, "unreachable")
          /\ UNCHANGED attempted
    /\ UNCHANGED <<now, admissionTokens, call, streamVars>>

\* Any other httpx error: the request may have reached the upstream, no retry.
ExchangeFails(r, timedOut) ==
    /\ phase[r] = "connecting"
    /\ TransportError(r, timedOut)
    /\ End(r, "lost")
    /\ UNCHANGED <<now, admissionTokens, routingVars, call, attempted, streamVars>>

\* An exception outside httpx.HTTPError: released, answered with 500.
HandlerCrashes(r) ==
    /\ phase[r] = "connecting"
    /\ Admission!Release(r)
    /\ Answer(r, 500)
    /\ End(r, "crashed")
    /\ UNCHANGED <<now, admissionTokens, admissionGuard, routingVars, call, attempted,
                   streamVars, accounting>>

\* CancelledError is no Exception: it passes the handler of a streaming
\* request, while the finally block of the others still releases.
HandlerCancelled(r) ==
    /\ phase[r] \in {"reading", "connecting"}
    /\ IF call[r].stream THEN UNCHANGED admissionSlots ELSE Admission!Release(r)
    /\ End(r, "cancelled")
    /\ UNCHANGED <<now, admissionTokens, admissionGuard, routingVars, call, attempted,
                   status, streamVars, accounting>>

\* An upstream answer of 500 and above counts as a retry event.
CountFailure(r, s) ==
    IF s >= 500 THEN Admission!RecordRetryEvent(RequestKey(r))
                ELSE UNCHANGED admissionGuard

\* Mutant of RecordUsage: usage reported with an error status is charged.
RecordUsageAnyStatus(r, s, u) ==
    IF u # -1
    THEN /\ Account(r, "recorded")
         /\ Admission!RecordTokens(RequestKey(r), u)
    ELSE /\ Account(r, "missing_usage")
         /\ UNCHANGED admissionTokens

\* _record_usage() and, with its result, record_tokens(); u = -1 is no usage.
RecordUsage(r, s, u) ==
    IF Success(s) /\ u # -1
    THEN /\ Account(r, "recorded")
         /\ Admission!RecordTokens(RequestKey(r), u)
    ELSE /\ Account(r, "missing_usage")
         /\ UNCHANGED admissionTokens

\* What _extract_usage() may find in a payload; -1 stands for None.
Extracted == -1..(MaxPrompt + MaxOutput)

\* A complete answer to a request without streaming.  Its body is no JSON, is
\* JSON the usage extractor chokes on (500), or yields a usage or none.
AnswerArrives(r, s) ==
    /\ phase[r] = "connecting"
    /\ ~call[r].stream
    /\ CountFailure(r, s)
    /\ \/ /\ Account(r, "parse_error")
          /\ Answer(r, s)
          /\ End(r, "answered")
          /\ UNCHANGED admissionTokens
       \/ /\ Answer(r, 500)
          /\ End(r, "crashed")
          /\ UNCHANGED <<admissionTokens, accounting>>
       \/ /\ \E u \in Extracted : RecordUsage(r, s, u)
          /\ Answer(r, s)
          /\ End(r, "answered")
    /\ Admission!Release(r)
    /\ UNCHANGED <<now, routingVars, call, attempted, streamVars>>

\* Mutant of HeaderArrives: the slot is released when the handler returns.
HeaderReleasesSlot(r, s) ==
    /\ phase[r] = "connecting"
    /\ call[r].stream
    /\ CountFailure(r, s)
    /\ Answer(r, s)
    /\ Become(r, "ready")
    /\ Admission!Release(r)
    /\ UNCHANGED <<now, admissionTokens, routingVars, call, attempted, streamVars,
                   ending, accounting>>

\* The header of a streamed answer.
HeaderArrives(r, s) ==
    /\ phase[r] = "connecting"
    /\ call[r].stream
    /\ CountFailure(r, s)
    /\ Answer(r, s)
    /\ Become(r, "ready")
    /\ UNCHANGED <<now, admissionSlots, admissionTokens, routingVars, call, attempted,
                   streamVars, ending, accounting>>

-----------------------------------------------------------------------------
(* Relaying a stream: _stream_bytes().                                      *)

Unshared == <<admissionVars, routingVars, call, attempted, status, accounting>>

BodyStarts(r) ==
    /\ phase[r] = "ready"
    /\ Become(r, "streaming")
    /\ UNCHANGED <<Unshared, streamVars, ending>>

\* The client is gone before the server asks for the first chunk.  A generator
\* that never ran has no finally block to run.
BodyNeverStarts(r) ==
    /\ phase[r] = "ready"
    /\ End(r, "unstarted")
    /\ UNCHANGED <<Unshared, streamVars>>

Close(r, how) == Become(r, "closing") /\ ending' = [ending EXCEPT ![r] = how]

\* _consume_sse_events(): the last usage in the events of a chunk replaces
\* the one before; events that are no JSON or carry none change nothing.
ConsumeEvents(r) ==
    /\ usage' \in {[usage EXCEPT ![r] = IF u = -1 THEN @ ELSE u] : u \in Extracted}
    /\ UNCHANGED parsing

\* A chunk that cannot be decoded or overflows the buffer ends the parsing.
GiveUpParsing(r) ==
    /\ parsing' = [parsing EXCEPT ![r] = FALSE]
    /\ UNCHANGED usage

Parse(r) ==
    IF parsing[r] THEN ConsumeEvents(r) \/ GiveUpParsing(r) ELSE UNCHANGED streamVars

\* A chunk is parsed for usage, while that works, and handed on.
ChunkArrives(r) ==
    /\ phase[r] = "streaming"
    /\ Become(r, "yielded")
    /\ Parse(r)
    /\ UNCHANGED <<Unshared, ending>>

\* An exception that is neither an httpx error nor a cancellation: mostly the usage
\* extractor, which raises over an event that is JSON but no object.
StreamBreaks(r) ==
    /\ phase[r] = "streaming"
    /\ Close(r, "broken")
    /\ UNCHANGED <<Unshared, streamVars>>

\* is_disconnected() at a chunk, or cancellation while waiting for one.
ClientLeaves(r) ==
    /\ phase[r] = "streaming"
    /\ Close(r, "disconnected")
    /\ UNCHANGED <<Unshared, streamVars>>

\* Mutant of StreamFails: a broken stream starts the whole exchange again.
StreamFailsRetried(r) ==
    /\ phase[r] = "streaming"
    /\ Become(r, "connecting")
    /\ UNCHANGED <<Unshared, streamVars, ending>>

\* A read timeout or a broken connection in mid-stream.
StreamFails(r) ==
    /\ phase[r] = "streaming"
    /\ Close(r, "failed")
    /\ UNCHANGED <<Unshared, streamVars>>

\* The upstream closes the stream: the decoder is flushed and the buffer searched
\* a last time, as with a chunk.
StreamEnds(r) ==
    /\ phase[r] = "streaming"
    /\ Close(r, "completed")
    /\ Parse(r)
    /\ UNCHANGED Unshared

\* The client takes the chunk ...
ChunkTaken(r) ==
    /\ phase[r] = "yielded"
    /\ Become(r, "streaming")
    /\ UNCHANGED <<Unshared, streamVars, ending>>

\* ... or goes away first: the generator is closed at its yield, and
\* GeneratorExit is neither of the exceptions the code looks at.
GeneratorClosed(r) ==
    /\ phase[r] = "yielded"
    /\ Close(r, "abandoned")
    /\ UNCHANGED <<Unshared, streamVars>>

\* Mutant of ReleaseStream: a client that disconnects keeps its slot.
ReleaseUnlessDisconnected(r) ==
    IF ending[r] = "disconnected" THEN UNCHANGED admissionSlots ELSE Admission!Release(r)

\* Mutant of ReleaseStream: the release is forgotten.
ReleaseForgotten(r) == UNCHANGED admissionSlots

\* The first thing the finally block does after aclose().
ReleaseStream(r) == Admission!Release(r)

\* Mutant of AccountStream: no return after the accounting of a failure.
AccountStreamTwice(r) ==
    /\ accounting' = [accounting EXCEPT ![r] =
          (IF ending[r] \in {"disconnected", "failed"} THEN <<"missing_usage">> ELSE <<>>)
          \o <<IF parsing[r] THEN "missing_usage" ELSE "parse_error">>]
    /\ UNCHANGED admissionTokens

\* The accounting of a stream: disconnects and failures first, then a parsing
\* that went wrong, then the usage.
AccountStream(r) ==
    IF ending[r] \in {"disconnected", "failed"}
    THEN Account(r, "missing_usage") /\ UNCHANGED admissionTokens
    ELSE IF ~parsing[r]
    THEN Account(r, "parse_error") /\ UNCHANGED admissionTokens
    ELSE RecordUsage(r, status[r], usage[r])

\* The finally block after aclose().
UpstreamClosed(r) ==
    /\ phase[r] = "closing"
    /\ ReleaseStream(r)
    /\ AccountStream(r)
    /\ Become(r, "done")
    /\ UNCHANGED <<now, admissionGuard, routingVars, call, attempted, status, streamVars,
                   ending>>

\* aclose() raises: nothing after it in the finally block runs.
CloseFails(r) ==
    /\ phase[r] = "closing"
    /\ End(r, "close_failed")
    /\ UNCHANGED <<Unshared, streamVars>>

-----------------------------------------------------------------------------
(* The world around the requests.                                           *)

Tick == Admission!Tick /\ UNCHANGED <<routingVars, requestVars>>

\* The monitor ends a round of probes.
HealthChanges ==
    /\ \E verdict \in [Upstreams -> BOOLEAN] : Routing!SetUpstreamHealth(verdict)
    /\ UNCHANGED <<admissionVars, requestVars>>

\* The steps that end in an answer of the upstream, and the others.
UpstreamAnswers(r, s) == AnswerArrives(r, s) \/ HeaderArrives(r, s)

OtherStep(r) ==
    \/ RejectBody(r)
    \/ \E m \in Models : RejectShape(r, m)
    \/ \E m \in Models, stream \in BOOLEAN : Dispatch(r, m, stream)
    \/ \E timedOut \in BOOLEAN : ConnectFails(r, timedOut) \/ ExchangeFails(r, timedOut)
    \/ HandlerCrashes(r)
    \/ BodyStarts(r) \/ BodyNeverStarts(r)
    \/ ChunkArrives(r) \/ StreamBreaks(r) \/ ClientLeaves(r)
    \/ StreamFails(r) \/ StreamEnds(r)
    \/ ChunkTaken(r) \/ GeneratorClosed(r)
    \/ CloseFails(r)

Proceed(r) ==
    \/ \E s \in Statuses : UpstreamAnswers(r, s)
    \/ UpstreamClosed(r)
    \/ OtherStep(r)

RequestStep(r) ==
    \/ \E d \in Departments, e \in Endpoints : Arrive(r, d, e)
    \/ Proceed(r)
    \/ HandlerCancelled(r)

Next ==
    \/ \E r \in Requests : RequestStep(r)
    \/ Tick
    \/ HealthChanges

Spec == Init /\ [][Next]_vars

\* The await of the client's body has no timeout: an upload may stall for ever.
AfterRead(r) == phase[r] # "reading" /\ Proceed(r)

\* A request that has been read goes on.  That rests on three assumptions about the
\* world.  An upstream that is silent for as long as the timeout raises, but httpx
\* limits each connect, read and write only: answers, streamed or not, are assumed
\* to be finite.  The client takes its chunks or is reported gone.  Closing the
\* upstream's response comes to an end.  Nothing is assumed of the upload.
Fairness ==
    \A r \in Requests :
        /\ WF_vars(AfterRead(r))
        /\ SF_vars(StreamEnds(r) \/ StreamFails(r))

FairSpec == Spec /\ Fairness

-----------------------------------------------------------------------------
(* Properties.                                                              *)

InFlight(r) == phase[r] \in {"connecting", "ready", "streaming", "yielded", "closing"}

\* The three ways out of a streaming request that pass every release().
Leaked(r) ==
    /\ phase[r] = "done"
    /\ call[r].stream
    /\ ending[r] \in {"unstarted", "cancelled", "close_failed"}

\* The request's own state has the shape the code gives it.
TypeOK ==
    /\ phase \in [Requests -> {"idle", "reading", "connecting", "ready", "streaming",
                               "yielded", "closing", "done"}]
    /\ call \in [Requests -> [department : Departments, endpoint : Endpoints,
                              model : Models \cup {NoModel}, stream : BOOLEAN]]
    /\ attempted \in [Requests -> SUBSET Upstreams]
    /\ status \in [Requests -> {0} \cup 200..599]
    /\ usage \in [Requests -> -1..(MaxPrompt + MaxOutput)]
    /\ parsing \in [Requests -> BOOLEAN]
    /\ ending \in [Requests -> {"none", "rejected", "unreachable", "lost", "crashed",
            "cancelled", "answered", "unstarted", "broken", "disconnected", "failed",
            "completed", "abandoned", "close_failed"}]
    /\ accounting \in [Requests -> Seq({"recorded", "missing_usage", "parse_error"})]

\* Across failover, streaming, disconnects and errors a request holds its
\* slot from acquire() until its upstream exchange is over, never shorter, and
\* longer only in the three cases of Leaked.
SlotsFollowRequests ==
    Enabled => \A r \in Requests :
        lease[r] # NoLease <=> InFlight(r) \/ Leaked(r)

\* What the in-flight gauge is documented to count: a slot held by a request
\* that is over is a slot nobody will ever release.
SlotFreedAtEnd ==
    \A r \in Requests : phase[r] = "done" => lease[r] = NoLease

\* The point of the limit: no model has more exchanges under way with its
\* upstreams than max_active_requests, counting streams until they are closed.
UpstreamLoadWithinLimits ==
    Enabled => \A m \in DOMAIN ModelLimit :
        Cardinality({r \in Requests : InFlight(r) /\ call[r].model = m}) <= ModelLimit[m]

\* Failover tries healthy pool members of the model, each at most once (every
\* turn of the registry is for an upstream new to some request), and gives up
\* only when every member was tried or is known to be unhealthy.
FailoverStep ==
    /\ \A m \in Models : round_robin_index'[m] # round_robin_index[m] =>
         \E r \in Requests : call'[r].model = m /\ attempted'[r] # attempted[r]
    /\ \A r \in Requests :
         LET pool == {Pool[call'[r].model][i] : i \in DOMAIN Pool[call'[r].model]}
         IN  /\ attempted'[r] # attempted[r] =>
                  \E u \in pool \ attempted[r] :
                     healthy[u] /\ attempted'[r] = attempted[r] \cup {u}
             /\ phase[r] # "done" /\ ending'[r] = "unreachable" =>
                  \A u \in pool : u \in attempted[r] \/ ~healthy[u]

FailoverSound == [][FailoverStep]_vars

\* The retry guard hears of a request at most once, when its upstream exchange
\* turns out a failure: however many upstreams failover went through, and not
\* for rejected, cancelled or merely unsuccessful requests.
RetryEventStep ==
    \A k \in Departments \X Models :
        <<retry_events[k], cooldown_until[k]>> # <<retry_events'[k], cooldown_until'[k]>> =>
          \E r \in Requests : /\ RequestKey(r) = k
                              /\ phase[r] = "connecting"
                              /\ phase'[r] \in {"done", "ready"}
                              /\ status'[r] >= 500

OneRetryEventPerFailure == [][RetryEventStep]_vars

\* Token accounting covers every request that reached an upstream exactly once,
\* except those whose handler raised or was cancelled before its accounting.
EveryExchangeAccounted ==
    \A r \in Requests :
        Len(accounting[r]) =
            IF ending[r] \in {"answered", "unreachable", "lost", "disconnected", "failed",
                              "broken", "abandoned", "completed"} /\ phase[r] = "done"
            THEN 1 ELSE 0

\* A budget is charged only by a request whose upstream answered 2xx and which
\* gives its slot back in the same step.
ChargeStep ==
    \A k \in Departments \X Models :
        token_totals'[k] > token_totals[k] =>
          \E r \in Requests : /\ RequestKey(r) = k
                              /\ phase[r] # "done" /\ phase'[r] = "done"
                              /\ Success(status'[r])
                              /\ accounting'[r] = <<"recorded">>
                              /\ lease[r] # NoLease /\ lease'[r] = NoLease

ChargedOnceFrom2xx == [][ChargeStep]_vars

\* The handlers use the admission controller the way its specification says:
\* whatever the handlers do, its theorems hold of the gateway.
AdmissionSpec == Admission!Spec

\* A request that was dispatched ends, through failovers, relaying and closing, and
\* with it its use of upstreams, provided that upstreams' answers are finite.
EveryRequestEnds ==
    \A r \in Requests : InFlight(r) ~> phase[r] = "done"

\* Every admitted request gives its slot back, except in the cases of Leaked,
\* provided that upstreams' answers, streamed or not, are finite and that clients
\* take their chunks or are reported gone.
EverySlotReturned ==
    \A r \in Requests : lease[r] # NoLease ~> (lease[r] = NoLease \/ Leaked(r))
=============================================================================
