---------------------------- MODULE RequestMetrics ----------------------------
(***************************************************************************)
(* request_metrics_middleware (main.py) around the request path.  The      *)
(* handler leaves a status override and a failure origin in request.state; *)
(* the middleware, another coroutine, reads them when it finalizes the     *)
(* request: once the response exists, or, if call_next returns a           *)
(* StreamingResponse, once the body it wrapped has ended.  Which of the    *)
(* two holds depends on the Starlette version and is chosen at the start.  *)
(*                                                                         *)
(*   idle      the request was not received yet                            *)
(*   waiting   await call_next(request)                                    *)
(*   relaying  suspended in _wrap_streaming_body()                         *)
(*   over      nothing of it will run again                                *)
(***************************************************************************)
EXTENDS Gateway

VARIABLES
    wraps,       \* isinstance(response, StreamingResponse)
    middleware,
    override,    \* status code override; 0 stands for None
    origin,      \* failure origin; "none" stands for None
    recorded     \* the labels the request was counted under

contextVars == <<override, origin>>
metricsVars == <<vars, wraps, middleware, contextVars, recorded>>

NotRecorded == [status_class |-> "none", failure_origin |-> "none"]

\* initialize_request_metrics_state(), for every request.
MetricsInit ==
    /\ Init
    /\ wraps \in BOOLEAN
    /\ middleware = [r \in Requests |-> "idle"]
    /\ override = [r \in Requests |-> 0]
    /\ origin = [r \in Requests |-> "none"]
    /\ recorded = [r \in Requests |-> NotRecorded]

-----------------------------------------------------------------------------
(* The handler's steps, with what they leave for the middleware.            *)

Received(r) ==
    /\ \E d \in Departments, e \in Endpoints : Arrive(r, d, e)
    /\ middleware' = [middleware EXCEPT ![r] = "waiting"]
    /\ UNCHANGED contextVars

\* Mutant of NoteUpstreamStatus: the failure is attributed when it is final.
NoteUpstreamStatusLate(r, s) == UNCHANGED contextVars

\* The origin of an upstream failure is noted before its body is read.
NoteUpstreamStatus(r, s) ==
    /\ origin' = [origin EXCEPT ![r] = IF s >= 400 THEN "upstream" ELSE @]
    /\ UNCHANGED override

\* Mutant of NoteStreamEnd: a generator closed at its yield is a disconnect.
NoteStreamLeft(r) ==
    IF ending[r] \in {"disconnected", "failed", "abandoned"}
    THEN /\ override' = [override EXCEPT ![r] =
                            IF ending[r] = "failed" THEN 502 ELSE 499]
         /\ origin' = [origin EXCEPT ![r] = "gateway"]
    ELSE UNCHANGED contextVars

\* The finally block of a stream marks a disconnect or a failure.
NoteStreamEnd(r) ==
    IF ending[r] \in {"disconnected", "failed"}
    THEN /\ override' = [override EXCEPT ![r] =
                            IF ending[r] = "failed" THEN 502 ELSE 499]
         /\ origin' = [origin EXCEPT ![r] = "gateway"]
    ELSE UNCHANGED contextVars

HandlerStep(r) ==
    \/ Received(r)
    \/ /\ \/ \E s \in Statuses : UpstreamAnswers(r, s) /\ NoteUpstreamStatus(r, s)
          \/ UpstreamClosed(r) /\ NoteStreamEnd(r)
          \/ (OtherStep(r) \/ HandlerCancelled(r)) /\ UNCHANGED contextVars
       /\ UNCHANGED middleware

-----------------------------------------------------------------------------
(* The middleware.                                                          *)

\* _status_class(): whatever is neither 2xx nor 4xx counts as 5xx.
StatusClass(s) ==
    IF Success(s) THEN "2xx" ELSE IF s \in 400..499 THEN "4xx" ELSE "5xx"

\* Mutant of FinalStatus: the status line wins over the override.
FinalStatusIgnoringOverride(r, default) == default

\* The status that finalize_request_metrics() counts.
FinalStatus(r, default) == IF override[r] = 0 THEN default ELSE override[r]

\* Mutant of Finalize: requests that named no known model are not counted.
FinalizeKnownModel(r, final) ==
    /\ recorded' = [recorded EXCEPT ![r] = IF call[r].model = NoModel THEN @ ELSE
          [status_class |-> StatusClass(final),
           failure_origin |-> IF final < 400 THEN "none"
                              ELSE IF origin[r] = "none" THEN "gateway" ELSE origin[r]]]
    /\ middleware' = [middleware EXCEPT ![r] = "over"]
    /\ UNCHANGED <<vars, wraps, contextVars>>

\* finalize_request_metrics(): the request is counted, and a failure once more
\* under its origin, which is the gateway unless the handler said otherwise.
Finalize(r, final) ==
    /\ recorded' = [recorded EXCEPT ![r] =
          [status_class |-> StatusClass(final),
           failure_origin |-> IF final < 400 THEN "none"
                              ELSE IF origin[r] = "none" THEN "gateway" ELSE origin[r]]]
    /\ middleware' = [middleware EXCEPT ![r] = "over"]
    /\ UNCHANGED <<vars, wraps, contextVars>>

\* The handler raised something that is no HTTPException, and so does call_next.
HandlerRaised(r) ==
    /\ middleware[r] = "waiting"
    /\ ending[r] = "crashed"
    /\ Finalize(r, FinalStatus(r, 500))

\* call_next returns as soon as the status line was sent, for a stream at any
\* time from then on.
ResponseReturned(r) ==
    /\ middleware[r] = "waiting"
    /\ status[r] # 0 /\ ending[r] # "crashed"
    /\ \/ ~wraps /\ Finalize(r, FinalStatus(r, status[r]))
       \/ /\ wraps
          /\ middleware' = [middleware EXCEPT ![r] = "relaying"]
          /\ UNCHANGED <<vars, wraps, contextVars, recorded>>

\* The exceptions of a stream that its finally block lets through: once parsing was
\* given up it ends in a return, which swallows them.
BodyRaises(r) == ending[r] = "close_failed" \/ (ending[r] = "broken" /\ parsing[r])

\* The wrapped body has ended, or raised.  A close that failed because it was
\* cancelled ends the body like any other.
WrapperEnds(r) ==
    /\ middleware[r] = "relaying"
    /\ phase[r] = "done"
    /\ \/ BodyRaises(r) /\ Finalize(r, 500)
       \/ /\ ~BodyRaises(r) \/ ending[r] = "close_failed"
          /\ Finalize(r, FinalStatus(r, status[r]))

\* The client is gone and the server cancels the wrapper, which need not wait
\* for the handler to notice.
WrapperClosed(r) ==
    /\ middleware[r] = "relaying"
    /\ Finalize(r, FinalStatus(r, status[r]))

MiddlewareStep(r) == HandlerRaised(r) \/ ResponseReturned(r) \/ WrapperEnds(r)

MetricsNext ==
    \/ \E r \in Requests : HandlerStep(r) /\ UNCHANGED <<wraps, recorded>>
    \/ \E r \in Requests : MiddlewareStep(r) \/ WrapperClosed(r)
    \/ (Tick \/ HealthChanges) /\ UNCHANGED <<wraps, middleware, contextVars, recorded>>

MetricsSpec == MetricsInit /\ [][MetricsNext]_metricsVars

\* The middleware is a coroutine of the same loop and waits for nothing but
\* the response and its body; the handler goes on as Fairness of Gateway says.
MetricsFairSpec ==
    /\ MetricsSpec
    /\ Fairness
    /\ \A r \in Requests : WF_metricsVars(MiddlewareStep(r))

-----------------------------------------------------------------------------
(* Properties.                                                              *)

\* The labels of an upstream's answer, and those of a failure of the gateway.
AnswerLabels(s) == [status_class |-> StatusClass(s),
                    failure_origin |-> IF s >= 400 THEN "upstream" ELSE "none"]
GatewayLabels(s) == [status_class |-> StatusClass(s), failure_origin |-> "gateway"]

\* What a request whose handler is over is counted as.  An upstream's answer, and
\* a stream that came to its end, count by their status; a refusal or a failure to
\* get an answer as the gateway's; a crash as a failure of either; a stream that was
\* disconnected or failed as 499 or 502, whatever its status line was.  A stream the
\* client left at a chunk, or before the first one, is indistinguishable from a
\* complete one: it counts by its status line.  So may one that an exception broke or
\* whose close failed, if the wrapper did not see the exception.
CountFits(r, count) ==
    /\ ending[r] # "cancelled"
    /\ ending[r] \in {"answered", "completed", "abandoned", "unstarted"} =>
          count = AnswerLabels(status[r])
    /\ ending[r] \in {"rejected", "unreachable", "lost"} => count = GatewayLabels(status[r])
    /\ ending[r] = "disconnected" => count = GatewayLabels(499)
    /\ ending[r] = "failed" => count = GatewayLabels(502)
    /\ ending[r] \in {"crashed", "broken", "close_failed"} =>
          \/ count.status_class = "5xx" /\ count.failure_origin # "none"
          \/ ending[r] # "crashed" /\ count = AnswerLabels(status[r])

\* finalize_request_metrics() never replaces a count, and a request finalized after
\* its handler is over is counted as what became of it, in both counters, with
\* the exceptions for streams left or broken that CountFits states.
OutcomeStep ==
    \A r \in Requests : recorded'[r] # recorded[r] =>
        /\ recorded[r] = NotRecorded
        /\ phase[r] = "done" => CountFits(r, recorded'[r])

OutcomeRecorded == [][OutcomeStep]_metricsVars

\* What the README says of failed or incomplete requests: error metrics are recorded
\* for them, and token metrics are not.  So a request that is not finalized before its
\* handler is over, whose tokens were recorded, and which is not counted as a failure
\* was completed.
SuccessStep ==
    \A r \in Requests :
        /\ wraps /\ phase[r] = "done" /\ accounting[r] = <<"recorded">>
        /\ recorded'[r] # recorded[r] /\ recorded'[r].failure_origin = "none"
        => ending[r] \in {"answered", "completed"}

SuccessMeansCompleted == [][SuccessStep]_metricsVars

\* Tokens and requests are counted by two coroutines: a request whose tokens
\* were recorded is a success in the request counters as well, unless a later
\* event broke its stream.
TokensImplySuccess ==
    \A r \in Requests :
        accounting[r] = <<"recorded">> /\ recorded[r] # NotRecorded =>
            recorded[r].status_class = "2xx" \/ ending[r] = "broken"

\* Failures are blamed on the upstream only if it answered, and on the gateway
\* only if the client did not get an upstream's answer as it was: the gateway
\* refused, failed over in vain, crashed on it, or broke off its stream.  An
\* answer that makes the handler crash is blamed on the upstream if its status
\* was an error, although the client gets a 500 of the gateway.
OriginFollowsExchange ==
    \A r \in Requests :
        LET failure == recorded[r].failure_origin IN
        /\ failure = "upstream" => ending[r] \notin {"rejected", "unreachable", "lost"}
        /\ failure = "gateway" => ending[r] \notin {"answered", "completed", "abandoned"}

\* Every request that was turned down at its headers or has been read is counted in
\* the end, unless its handler was cancelled (`except Exception` does not see it) or
\* its body never started, provided that upstreams' answers are finite.  A request
\* whose upload stalls waits, uncounted, for as long as the client likes.
EveryRequestRecorded ==
    \A r \in Requests :
        middleware[r] = "waiting" /\ phase[r] # "reading" ~>
            recorded[r] # NotRecorded \/ ending[r] \in {"cancelled", "unstarted"}
=============================================================================
