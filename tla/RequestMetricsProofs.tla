------------------------- MODULE RequestMetricsProofs -------------------------
(***************************************************************************)
(* Proofs about the request counters: what the middleware counts a request *)
(* as agrees with what its handler did, for every interleaving of the two  *)
(* coroutines and whichever response class call_next returns.              *)
(***************************************************************************)
EXTENDS RequestMetrics, GatewayProofs

-----------------------------------------------------------------------------
(* The inductive invariant.                                                 *)

Waiting == {"idle", "reading", "connecting"}
Relaying == {"ready", "streaming", "yielded", "closing"}

Middlewares == {"idle", "waiting", "relaying", "over"}
Origins == {"none", "upstream", "gateway"}

MetricsType ==
    /\ wraps \in BOOLEAN
    /\ middleware \in [Requests -> Middlewares]
    /\ override \in [Requests -> {0, 499, 502}]
    /\ origin \in [Requests -> Origins]
    /\ recorded \in [Requests -> [status_class : {"none", "2xx", "4xx", "5xx"},
                                  failure_origin : Origins]]

\* The endings after an upstream's answer that leave its status as the outcome.
AnswerKept == {"answered", "completed", "abandoned", "broken", "unstarted", "close_failed"}

AnswerStands(r) ==
    phase[r] \in Relaying \/ (phase[r] = "done" /\ ending[r] \in AnswerKept)

\* What the handler has left for the middleware, at each point of the request.
ContextOK(r) ==
    /\ phase[r] \in Waiting => status[r] = 0 /\ override[r] = 0 /\ origin[r] = "none"
    /\ AnswerStands(r) =>
          /\ status[r] # 0 /\ override[r] = 0
          /\ origin[r] = IF status[r] >= 400 THEN "upstream" ELSE "none"
    /\ phase[r] = "done" =>
          /\ ending[r] # "none"
          /\ ending[r] = "disconnected" => override[r] = 499 /\ origin[r] = "gateway"
          /\ ending[r] = "failed" => override[r] = 502 /\ origin[r] = "gateway"
          /\ ending[r] \in {"rejected", "unreachable", "lost"} =>
               status[r] >= 400 /\ override[r] = 0 /\ origin[r] = "none"
          /\ ending[r] = "cancelled" =>
               status[r] = 0 /\ override[r] = 0 /\ origin[r] = "none"
          /\ ending[r] = "crashed" =>
               status[r] = 500 /\ override[r] = 0 /\ origin[r] # "gateway"

\* Tokens are recorded at the end of an answer with a 2xx status.
TokensOK(r) ==
    accounting[r] = <<"recorded">> =>
        /\ phase[r] = "done" /\ Success(status[r])
        /\ ending[r] \in {"answered", "completed", "abandoned", "broken"}

\* What was counted agrees with the outcome so far, and with any to come.
CountOK(r) ==
    /\ middleware[r] = "relaying" => status[r] # 0
    /\ middleware[r] # "over" => recorded[r] = NotRecorded
    /\ recorded[r] # NotRecorded =>
         /\ phase[r] \notin Waiting
         /\ Success(status[r]) =>
              \/ recorded[r].status_class = "2xx"
              \/ /\ phase[r] = "done"
                 /\ ending[r] \in {"crashed", "broken", "close_failed", "disconnected",
                                   "failed"}
         /\ recorded[r].failure_origin = "upstream" =>
              \/ phase[r] \in Relaying
              \/ phase[r] = "done" /\ ending[r] \in AnswerKept
                                        \cup {"crashed", "disconnected", "failed"}
         /\ recorded[r].failure_origin = "gateway" =>
              phase[r] = "done" /\ ending[r] \notin {"answered", "completed", "abandoned"}

MetricsOK(r) == ContextOK(r) /\ TokensOK(r) /\ CountOK(r)

MetricsInv == GatewayInv /\ MetricsType /\ \A r \in Requests : MetricsOK(r)

-----------------------------------------------------------------------------
(* What a step of the handler tells the middleware.                         *)

SameContext(r) == override'[r] = override[r] /\ origin'[r] = origin[r]

\* The request waits on, without an answer.
Waits(r) ==
    /\ phase[r] \in Waiting /\ phase'[r] \in Waiting
    /\ status'[r] = status[r] /\ accounting'[r] = accounting[r]
    /\ SameContext(r)

\* It ends without an answer of an upstream.
EndsUnanswered(r) ==
    /\ phase[r] \in Waiting /\ phase'[r] = "done"
    /\ \/ ending'[r] = "cancelled" /\ status'[r] = status[r]
       \/ ending'[r] = "crashed" /\ status'[r] = 500
       \/ ending'[r] \in {"rejected", "unreachable", "lost"} /\ status'[r] >= 400
    /\ accounting'[r] # <<"recorded">>
    /\ SameContext(r)

\* An upstream answers: the answer is passed on, relayed, or crashes the handler.
GetsAnswer(r) ==
    /\ phase[r] \in Waiting
    /\ override'[r] = override[r]
    /\ \E s \in Statuses :
         /\ origin'[r] = IF s >= 400 THEN "upstream" ELSE origin[r]
         /\ \/ /\ status'[r] = s
               /\ \/ phase'[r] = "ready" /\ accounting'[r] = accounting[r]
                  \/ /\ phase'[r] = "done" /\ ending'[r] = "answered"
                     /\ accounting'[r] = <<"recorded">> => Success(s)
            \/ /\ phase'[r] = "done" /\ ending'[r] = "crashed" /\ status'[r] = 500
               /\ accounting'[r] = accounting[r]

\* The stream goes on, starts to close, or ends without its finally block.
Relays(r) ==
    /\ phase[r] \in Relaying
    /\ \/ phase'[r] \in Relaying
       \/ phase'[r] = "done" /\ ending'[r] \in {"unstarted", "close_failed"}
    /\ status'[r] = status[r] /\ accounting'[r] = accounting[r]
    /\ SameContext(r)

\* The stream is closed and accounted.
IsClosed(r) ==
    /\ phase[r] = "closing" /\ phase'[r] = "done"
    /\ status'[r] = status[r] /\ ending'[r] = ending[r]
    /\ accounting'[r] = <<"recorded">> =>
         Success(status[r]) /\ ending[r] \notin {"disconnected", "failed"}
    /\ IF ending[r] \in {"disconnected", "failed"}
       THEN /\ override'[r] = IF ending[r] = "failed" THEN 502 ELSE 499
            /\ origin'[r] = "gateway"
       ELSE SameContext(r)

Outcome(r) ==
    Waits(r) \/ EndsUnanswered(r) \/ GetsAnswer(r) \/ Relays(r) \/ IsClosed(r)

\* The middleware begins to wait for a request that just came in.
ReceivedNow(r) == phase[r] \in Waiting /\ middleware'[r] = "waiting"

\* The context of the other requests is left alone, and so are the counters.
HandlerSummary(r) ==
    /\ MetricsType' /\ StepSummary(r) /\ Outcome(r)
    /\ recorded' = recorded
    /\ middleware'[r] = middleware[r] \/ ReceivedNow(r)
    /\ \A q \in Requests \ {r} : SameContext(q) /\ middleware'[q] = middleware[q]

\* Whatever the handler does keeps the context of its request in order.
LEMMA OutcomeKeepsOrder ==
    ASSUME NEW r \in Requests, RequestOK(r), RequestOK(r)', MetricsOK(r), TypeOK, TypeOK',
           Outcome(r), recorded'[r] = recorded[r],
           middleware'[r] = middleware[r] \/ ReceivedNow(r)
    PROVE  MetricsOK(r)'
<1>0. /\ \A s \in Statuses : s # 0 /\ s \in 200..599
      /\ phase[r] \in Phases /\ phase'[r] \in Phases
      /\ ending[r] \in Endings /\ ending'[r] \in Endings
      /\ status[r] \in Codes /\ status'[r] \in Codes
    BY GatewayAssumption, TypeParts
<1> USE DEF ReceivedNow
<1>1. CASE Waits(r)
    BY <1>0, <1>1 DEF Waits, SameContext, MetricsOK, ContextOK, TokensOK, CountOK,
                      AnswerStands, Waiting, Relaying
<1>2. CASE EndsUnanswered(r)
    BY <1>0, <1>2 DEF EndsUnanswered, SameContext, MetricsOK, ContextOK, TokensOK, CountOK,
                      AnswerStands, AnswerKept, Waiting, Relaying
<1>3. CASE GetsAnswer(r)
    <2>1. /\ phase[r] \in Waiting /\ phase'[r] \notin Waiting
          /\ accounting[r] # <<"recorded">> /\ recorded'[r] = NotRecorded
          /\ override'[r] = 0 /\ origin[r] = "none"
        BY <1>3 DEF GetsAnswer, MetricsOK, ContextOK, TokensOK, CountOK, Waiting
    <2>2. PICK s \in Statuses :
            /\ origin'[r] = IF s >= 400 THEN "upstream" ELSE "none"
            /\ \/ /\ status'[r] = s
                  /\ \/ phase'[r] = "ready" /\ accounting'[r] = accounting[r]
                     \/ /\ phase'[r] = "done" /\ ending'[r] = "answered"
                        /\ accounting'[r] = <<"recorded">> => Success(s)
               \/ /\ phase'[r] = "done" /\ ending'[r] = "crashed" /\ status'[r] = 500
                  /\ accounting'[r] = accounting[r]
        BY <1>3, <2>1 DEF GetsAnswer
    <2>3. ContextOK(r)'
        BY <1>0, <2>1, <2>2 DEF ContextOK, AnswerStands, AnswerKept, Waiting, Relaying
    <2>4. TokensOK(r)'
        BY <2>1, <2>2 DEF TokensOK
    <2>5. CountOK(r)'
        BY <1>0, <1>3, <2>1, <2>2 DEF CountOK, MetricsOK, GetsAnswer, ContextOK
    <2> QED
        BY <2>3, <2>4, <2>5 DEF MetricsOK
<1>4. CASE Relays(r)
    <2> USE <1>0, <1>4 DEF Relays, SameContext, MetricsOK, Waiting, Relaying, RequestOK, PhaseOK
    <2>1. ContextOK(r)'
        BY DEF ContextOK, AnswerStands, AnswerKept
    <2>2. TokensOK(r)'
        BY DEF TokensOK
    <2>3. CountOK(r)'
        BY DEF CountOK, AnswerKept
    <2> QED
        BY <2>1, <2>2, <2>3
<1>5. CASE IsClosed(r)
    <2> USE <1>0, <1>5 DEF IsClosed, SameContext, MetricsOK, Waiting, Relaying, RequestOK, PhaseOK
    <2>1. ContextOK(r)'
        BY DEF ContextOK, AnswerStands, AnswerKept
    <2>2. TokensOK(r)'
        BY DEF TokensOK
    <2>3. CountOK(r)'
        BY DEF CountOK, AnswerKept
    <2> QED
        BY <2>1, <2>2, <2>3
<1> QED
    BY <1>1, <1>2, <1>3, <1>4, <1>5 DEF Outcome

\* No token accounting, or one for a failure, is none of recorded tokens.
LEMMA NothingRecorded ==
    /\ <<>> # <<"recorded">>
    /\ \A what \in {"missing_usage", "parse_error"} : Append(<<>>, what) # <<"recorded">>
<1>1. Len(<<>>) = 0 /\ Len(<<"recorded">>) = 1
    OBVIOUS
<1>2. \A what : Append(<<>>, what) = <<what>>
    OBVIOUS
<1>3. \A what \in {"missing_usage", "parse_error"} : <<what>>[1] # <<"recorded">>[1]
    OBVIOUS
<1> QED
    BY <1>1, <1>2, <1>3

\* Before its end a request has no token accounting.
LEMMA NotAccountedYet ==
    ASSUME NEW r \in Requests, Before(r), phase[r] # "done"
    PROVE  accounting[r] = <<>>
BY DEF Before, RequestOK, AccountingOK

\* The request ends, with the status line that goes with its end.
EndsWithStatus(r, how) ==
    /\ End(r, how)
    /\ \/ how = "cancelled" /\ status' = status
       \/ how = "crashed" /\ Answer(r, 500)
       \/ how \in {"rejected", "unreachable", "lost"} /\ \E s \in 400..599 : Answer(r, s)

\* The request is turned down, fails, crashes or is cancelled without an answer.
LEMMA UnansweredOutcome ==
    ASSUME NEW r \in Requests, Before(r), SameContext(r), phase[r] \in Waiting,
           NEW how \in {"rejected", "unreachable", "lost", "crashed", "cancelled"},
           EndsWithStatus(r, how), accounting' = accounting \/ Account(r, "missing_usage")
    PROVE  Outcome(r)
<1>1. /\ phase'[r] = "done" /\ ending'[r] = how
      /\ \/ how = "cancelled" /\ status'[r] = status[r]
         \/ how = "crashed" /\ status'[r] = 500
         \/ how \in {"rejected", "unreachable", "lost"} /\ status'[r] >= 400
    <2>1. phase'[r] = "done" /\ ending'[r] = how
        BY DEF EndsWithStatus, End, Become, Before, TypeOK
    <2>2. \A s : Answer(r, s) => status'[r] = s
        BY DEF Answer, Before, TypeOK
    <2>3. ASSUME NEW s \in 400..599, Answer(r, s)
          PROVE  status'[r] >= 400
        BY <2>2, <2>3
    <2> QED
        BY <2>1, <2>2, <2>3 DEF EndsWithStatus
<1>2. accounting[r] = <<>>
    BY NotAccountedYet DEF Waiting
<1>3. accounting'[r] = <<>> \/ accounting'[r] = Append(<<>>, "missing_usage")
    BY <1>2 DEF Account, Before, TypeOK
<1> QED
    BY <1>1, <1>3, NothingRecorded DEF Outcome, EndsUnanswered

\* A request is read, turned down or dispatched.
LEMMA EarlyOutcome ==
    ASSUME NEW r \in Requests, Before(r), SameContext(r),
           \/ \E d \in Departments, e \in Endpoints : Arrive(r, d, e)
           \/ RejectBody(r)
           \/ \E m \in Models : RejectShape(r, m)
           \/ \E m \in Models, stream \in BOOLEAN : Dispatch(r, m, stream)
    PROVE  Outcome(r)
<1>1. /\ phase[r] \in Waiting /\ accounting' = accounting
      /\ \/ EndsWithStatus(r, "rejected")
         \/ \E p \in Waiting : Become(r, p) /\ status' = status
    <2>1. ASSUME NEW s \in {400, 401, 404, 413, 422, 429, 503}, Answer(r, s),
                 End(r, "rejected")
          PROVE  EndsWithStatus(r, "rejected")
        <3>1. s \in 400..599
            OBVIOUS
        <3> QED
            BY <2>1, <3>1 DEF EndsWithStatus
    <2>2. CASE \E d \in Departments, e \in Endpoints : Arrive(r, d, e)
        BY <2>1, <2>2 DEF Arrive, Waiting, RefusedKey, RefusedSize
    <2>3. CASE RejectBody(r)
        BY <2>1, <2>3 DEF RejectBody, Waiting, RefusedBody, UnknownModel
    <2>4. CASE \E m \in Models : RejectShape(r, m)
        BY <2>1, <2>4 DEF RejectShape, Waiting
    <2>5. CASE \E m \in Models, stream \in BOOLEAN : Dispatch(r, m, stream)
        <3>1. PICK m \in Models, stream \in BOOLEAN : Dispatch(r, m, stream)
            BY <2>5
        <3>2. /\ phase[r] \in Waiting /\ accounting' = accounting
              /\ \/ Answer(r, 429) /\ End(r, "rejected")
                 \/ Answer(r, 503) /\ End(r, "rejected")
                 \/ Become(r, "connecting") /\ status' = status
            BY <3>1 DEF Dispatch, Waiting
        <3> QED
            BY <3>2, <2>1 DEF Waiting
    <2> QED
        BY <2>2, <2>3, <2>4, <2>5
<1>2. CASE EndsWithStatus(r, "rejected")
    BY <1>1, <1>2, UnansweredOutcome
<1>3. CASE \E p \in Waiting : Become(r, p) /\ status' = status
    <2>1. phase'[r] \in Waiting
        BY <1>3 DEF Become, Before, TypeOK
    <2> QED
        BY <1>1, <1>3, <2>1 DEF Outcome, Waits
<1> QED
    BY <1>1, <1>2, <1>3

\* No upstream answers: another one is tried, or the request is over.
LEMMA FailingOutcome ==
    ASSUME NEW r \in Requests, Before(r), SameContext(r),
           \/ \E timedOut \in BOOLEAN : ConnectFails(r, timedOut) \/ ExchangeFails(r, timedOut)
           \/ HandlerCrashes(r)
           \/ HandlerCancelled(r)
    PROVE  Outcome(r)
<1>1. phase[r] \in Waiting
    BY DEF ConnectFails, ExchangeFails, HandlerCrashes, HandlerCancelled, Waiting
<1>2. \/ phase' = phase /\ status' = status /\ accounting' = accounting
      \/ /\ \E how \in {"unreachable", "lost", "crashed", "cancelled"} : EndsWithStatus(r, how)
         /\ accounting' = accounting \/ Account(r, "missing_usage")
    BY DEF ConnectFails, ExchangeFails, HandlerCrashes, HandlerCancelled, TryAnother,
           TransportError, EndsWithStatus
<1>3. CASE phase' = phase /\ status' = status /\ accounting' = accounting
    BY <1>1, <1>3 DEF Outcome, Waits
<1> QED
    BY <1>1, <1>2, <1>3, UnansweredOutcome

\* A stream is relayed.
LEMMA StreamOutcome ==
    ASSUME NEW r \in Requests, Before(r), SameContext(r),
           \/ BodyStarts(r) \/ BodyNeverStarts(r) \/ ChunkArrives(r)
           \/ StreamBreaks(r) \/ ClientLeaves(r) \/ StreamFails(r) \/ StreamEnds(r)
           \/ ChunkTaken(r) \/ GeneratorClosed(r) \/ CloseFails(r)
    PROVE  Outcome(r)
<1>1. /\ phase[r] \in Relaying /\ UNCHANGED Unshared
      /\ \/ \E p \in Relaying : Become(r, p)
         \/ \E how \in {"unstarted", "close_failed"} : End(r, how)
    BY DEF BodyStarts, BodyNeverStarts, ChunkArrives, StreamBreaks, ClientLeaves,
           StreamFails, StreamEnds, ChunkTaken, GeneratorClosed, CloseFails, Close, Relaying
<1>2. \/ phase'[r] \in Relaying
      \/ phase'[r] = "done" /\ ending'[r] \in {"unstarted", "close_failed"}
    BY <1>1 DEF Become, End, Before, TypeOK
<1> QED
    BY <1>1, <1>2 DEF Outcome, Relays, Unshared

\* The finally block of a stream runs to its end.
LEMMA ClosedOutcome ==
    ASSUME NEW r \in Requests, Before(r), UpstreamClosed(r), NoteStreamEnd(r),
           override \in [Requests -> {0, 499, 502}], origin \in [Requests -> Origins]
    PROVE  Outcome(r)
<1>1. /\ phase[r] = "closing" /\ phase'[r] = "done"
      /\ status'[r] = status[r] /\ ending'[r] = ending[r]
    BY DEF UpstreamClosed, Become, Before, TypeOK
<1>2. accounting[r] = <<>> /\ accounting \in [Requests -> Counts]
    BY <1>1, NotAccountedYet, TypeParts DEF Before
<1>3. accounting'[r] = <<"recorded">> =>
        Success(status[r]) /\ ending[r] \notin {"disconnected", "failed"}
    <2>1. \/ Account(r, "missing_usage")
          \/ Account(r, "parse_error")
          \/ Success(status[r]) /\ ending[r] \notin {"disconnected", "failed"}
        BY DEF UpstreamClosed, AccountStream, RecordUsage
    <2>2. ASSUME NEW what \in {"missing_usage", "parse_error"}, Account(r, what)
          PROVE  accounting'[r] = Append(<<>>, what)
        BY <1>2, <2>2 DEF Account
    <2> QED
        BY <2>1, <2>2, NothingRecorded
<1>4. IF ending[r] \in {"disconnected", "failed"}
      THEN /\ override'[r] = IF ending[r] = "failed" THEN 502 ELSE 499
           /\ origin'[r] = "gateway"
      ELSE SameContext(r)
    BY DEF NoteStreamEnd, contextVars, SameContext
<1> QED
    BY <1>1, <1>3, <1>4 DEF Outcome, IsClosed

\* An upstream answers, with the origin of a failure noted.
LEMMA AnsweredOutcome ==
    ASSUME NEW r \in Requests, Before(r), NEW s \in Statuses, UpstreamAnswers(r, s),
           NoteUpstreamStatus(r, s), origin \in [Requests -> Origins]
    PROVE  Outcome(r)
<1>1. /\ phase[r] = "connecting" /\ accounting[r] = <<>>
      /\ accounting \in [Requests -> Counts]
    BY NotAccountedYet, TypeParts
       DEF UpstreamAnswers, AnswerArrives, HeaderArrives, Before
<1>2. /\ override'[r] = override[r]
      /\ origin'[r] = IF s >= 400 THEN "upstream" ELSE origin[r]
    BY DEF NoteUpstreamStatus
<1>3. \/ Answer(r, s) /\ Become(r, "ready") /\ accounting' = accounting
      \/ Answer(r, s) /\ End(r, "answered") /\ Account(r, "parse_error")
      \/ Answer(r, s) /\ End(r, "answered") /\ Account(r, "missing_usage")
      \/ Answer(r, s) /\ End(r, "answered") /\ Success(s)
      \/ Answer(r, 500) /\ End(r, "crashed") /\ accounting' = accounting
    BY DEF UpstreamAnswers, AnswerArrives, HeaderArrives, RecordUsage
<1>4. /\ \A c : Answer(r, c) => status'[r] = c
      /\ \A p : Become(r, p) => phase'[r] = p
      /\ \A how : End(r, how) => phase'[r] = "done" /\ ending'[r] = how
      /\ \A what : Account(r, what) => accounting'[r] = Append(<<>>, what)
    BY <1>1 DEF Answer, Become, End, Account, Before, TypeOK
<1>5. \/ /\ status'[r] = s
         /\ \/ phase'[r] = "ready" /\ accounting'[r] = accounting[r]
            \/ /\ phase'[r] = "done" /\ ending'[r] = "answered"
               /\ accounting'[r] = <<"recorded">> => Success(s)
      \/ /\ phase'[r] = "done" /\ ending'[r] = "crashed" /\ status'[r] = 500
         /\ accounting'[r] = accounting[r]
    BY <1>3, <1>4, NothingRecorded
<1> QED
    BY <1>1, <1>2, <1>5 DEF Outcome, GetsAnswer, Waiting

-----------------------------------------------------------------------------
(* The steps of the two coroutines.                                         *)

\* A step of a handler, with what it leaves in the context.
LEMMA EveryHandlerStep ==
    ASSUME MetricsInv, NEW r \in Requests, HandlerStep(r), UNCHANGED <<wraps, recorded>>
    PROVE  HandlerSummary(r)
<1>0. Before(r) /\ MetricsType
    BY Configured DEF MetricsInv
<1>1. RequestStep(r)
    BY DEF HandlerStep, Received, RequestStep, Proceed
<1>2. StepSummary(r)
    BY <1>0, <1>1, EveryRequestStep
<1>3. CASE Received(r)
    <2>1. Outcome(r)
        BY <1>0, <1>3, EarlyOutcome DEF Received, contextVars, SameContext
    <2>2. /\ MetricsType'
          /\ ReceivedNow(r)
          /\ \A q \in Requests \ {r} : SameContext(q) /\ middleware'[q] = middleware[q]
        BY <1>0, <1>3 DEF Received, ReceivedNow, Arrive, Waiting, MetricsType, Middlewares,
                          contextVars, SameContext
    <2> QED
        BY <1>2, <2>1, <2>2 DEF HandlerSummary
<1>4. ASSUME NEW s \in Statuses, UpstreamAnswers(r, s), NoteUpstreamStatus(r, s),
             UNCHANGED middleware
      PROVE  HandlerSummary(r)
    <2>1. Outcome(r)
        BY <1>0, <1>4, AnsweredOutcome DEF MetricsType
    <2>2. /\ MetricsType'
          /\ \A q \in Requests \ {r} : SameContext(q) /\ middleware'[q] = middleware[q]
        BY <1>0, <1>4 DEF NoteUpstreamStatus, MetricsType, Origins, SameContext
    <2> QED
        BY <1>2, <1>4, <2>1, <2>2 DEF HandlerSummary
<1>5. CASE UpstreamClosed(r) /\ NoteStreamEnd(r) /\ UNCHANGED middleware
    <2>1. Outcome(r)
        BY <1>0, <1>5, ClosedOutcome DEF MetricsType
    <2>2. /\ MetricsType'
          /\ \A q \in Requests \ {r} : SameContext(q) /\ middleware'[q] = middleware[q]
        BY <1>0, <1>5 DEF NoteStreamEnd, MetricsType, Origins, contextVars, SameContext
    <2> QED
        BY <1>2, <1>5, <2>1, <2>2 DEF HandlerSummary
<1>6. CASE /\ OtherStep(r) \/ HandlerCancelled(r)
           /\ UNCHANGED contextVars /\ UNCHANGED middleware
    <2>1. SameContext(r)
        BY <1>6 DEF contextVars, SameContext
    <2>2. Outcome(r)
        BY <1>0, <1>6, <2>1, EarlyOutcome, FailingOutcome, StreamOutcome DEF OtherStep
    <2>3. /\ MetricsType'
          /\ \A q \in Requests \ {r} : SameContext(q) /\ middleware'[q] = middleware[q]
        BY <1>0, <1>6 DEF MetricsType, contextVars, SameContext
    <2> QED
        BY <1>2, <1>6, <2>2, <2>3 DEF HandlerSummary
<1> QED
    BY <1>3, <1>4, <1>5, <1>6 DEF HandlerStep

\* What finalize_request_metrics() leaves: only the counters of r change.
IsCounted(r, final) ==
    /\ recorded'[r] = [status_class |-> StatusClass(final),
                       failure_origin |-> IF final < 400 THEN "none"
                                          ELSE IF origin[r] = "none" THEN "gateway"
                                          ELSE origin[r]]
    /\ middleware'[r] = "over"

\* The statuses a request can be counted with, and when.
Countable(r, final) ==
    \/ status[r] # 0 /\ final = FinalStatus(r, status[r])
    \/ phase[r] = "done" /\ ending[r] \in {"broken", "close_failed"} /\ final = 500
    \/ phase[r] = "done" /\ ending[r] = "crashed" /\ final = FinalStatus(r, 500)

\* The middleware observes the request and changes nothing of it.
MiddlewareSummary(r) ==
    /\ MetricsType' /\ UNCHANGED <<vars, contextVars>> /\ middleware[r] # "over"
    /\ \/ /\ recorded'[r] = recorded[r] /\ status[r] # 0
       \/ \E final : Countable(r, final) /\ IsCounted(r, final)
    /\ \A q \in Requests \ {r} :
         recorded'[q] = recorded[q] /\ middleware'[q] = middleware[q]

\* Finalizing a request adds one well formed entry to its own record, and ends
\* its middleware.
LEMMA FinalizeTypes ==
    ASSUME MetricsType, NEW r \in Requests, NEW final, Finalize(r, final)
    PROVE  /\ MetricsType' /\ IsCounted(r, final)
           /\ \A q \in Requests \ {r} :
                recorded'[q] = recorded[q] /\ middleware'[q] = middleware[q]
<1> DEFINE entry == [status_class |-> StatusClass(final),
                     failure_origin |-> IF final < 400 THEN "none"
                                        ELSE IF origin[r] = "none" THEN "gateway"
                                        ELSE origin[r]]
           Entries == [status_class : {"none", "2xx", "4xx", "5xx"}, failure_origin : Origins]
<1>1. entry \in Entries
    <2>1. StatusClass(final) \in {"none", "2xx", "4xx", "5xx"}
        BY DEF StatusClass
    <2>2. (IF final < 400 THEN "none" ELSE IF origin[r] = "none" THEN "gateway" ELSE origin[r])
            \in Origins
        BY DEF MetricsType, Origins
    <2> QED
        BY <2>1, <2>2
<1>2. /\ recorded' = [recorded EXCEPT ![r] = entry]
      /\ middleware' = [middleware EXCEPT ![r] = "over"]
      /\ UNCHANGED <<wraps, contextVars>>
    BY DEF Finalize
<1>3. recorded \in [Requests -> Entries] /\ middleware \in [Requests -> Middlewares]
    BY DEF MetricsType
<1> HIDE DEF entry, Entries
<1>4. /\ recorded' \in [Requests -> Entries] /\ middleware' \in [Requests -> Middlewares]
      /\ recorded'[r] = entry /\ middleware'[r] = "over"
      /\ \A q \in Requests \ {r} :
           recorded'[q] = recorded[q] /\ middleware'[q] = middleware[q]
    BY <1>1, <1>2, <1>3 DEF Middlewares
<1> QED
    BY <1>2, <1>4 DEF MetricsType, IsCounted, contextVars, entry, Entries

\* A step of the middleware for r.
LEMMA EveryMiddlewareStep ==
    ASSUME MetricsInv, NEW r \in Requests, MiddlewareStep(r) \/ WrapperClosed(r)
    PROVE  MiddlewareSummary(r)
<1>0. MetricsType /\ TypeOK /\ PhaseOK(r) /\ CountOK(r)
    BY DEF MetricsInv, GatewayInv, RequestOK, MetricsOK
<1>1. ASSUME NEW final, Countable(r, final), Finalize(r, final), middleware[r] # "over"
      PROVE  MiddlewareSummary(r)
    BY <1>0, <1>1, FinalizeTypes DEF MiddlewareSummary, Finalize
<1>2. CASE HandlerRaised(r)
    <2>1. phase[r] = "done"
        BY <1>0, <1>2 DEF HandlerRaised, PhaseOK
    <2> QED
        BY <1>1, <1>2, <2>1 DEF HandlerRaised, Countable
<1>3. CASE ResponseReturned(r)
    <2>1. CASE ~wraps /\ Finalize(r, FinalStatus(r, status[r]))
        BY <1>1, <1>3, <2>1 DEF ResponseReturned, Countable
    <2>2. CASE /\ middleware' = [middleware EXCEPT ![r] = "relaying"]
               /\ UNCHANGED <<vars, wraps, contextVars, recorded>>
        BY <1>0, <1>3, <2>2
           DEF ResponseReturned, MiddlewareSummary, MetricsType, Middlewares, contextVars
    <2> QED
        BY <1>3, <2>1, <2>2 DEF ResponseReturned
<1>4. CASE WrapperEnds(r)
    BY <1>0, <1>1, <1>4 DEF WrapperEnds, BodyRaises, Countable, CountOK
<1>5. CASE WrapperClosed(r)
    BY <1>0, <1>1, <1>5 DEF WrapperClosed, Countable, CountOK
<1> QED
    BY <1>2, <1>3, <1>4, <1>5 DEF MiddlewareStep

\* The status counted for a request whose handler is over.
IsFinal(r, final) ==
    /\ final \in 200..599
    /\ \/ override[r] = 0 /\ status[r] # 0 /\ final = status[r]
       \/ override[r] # 0 /\ final = override[r]
       \/ ending[r] \in {"broken", "close_failed", "crashed"} /\ final = 500

\* What a request is counted as fits the way it ended.
LEMMA CountedOutcome ==
    ASSUME NEW r \in Requests, phase[r] = "done", ContextOK(r),
           status[r] \in Codes, override[r] \in {0, 499, 502}, origin[r] \in Origins,
           NEW final, IsCounted(r, final), IsFinal(r, final)
    PROVE  CountFits(r, recorded'[r])
<1> DEFINE count == recorded'[r]
           blamed == IF final < 400 THEN "none"
                     ELSE IF origin[r] = "none" THEN "gateway" ELSE origin[r]
<1>1. count = [status_class |-> StatusClass(final), failure_origin |-> blamed]
    BY DEF IsCounted
<1>2. StatusClass(500) = "5xx"
    BY DEF StatusClass, Success
<1> HIDE DEF count
<1>3. ending[r] # "cancelled"
    BY DEF ContextOK, IsFinal
<1>4. ASSUME ending[r] \in AnswerKept, override[r] = 0 => final = status[r]
      PROVE  count = AnswerLabels(status[r])
    <2>1. final = status[r] /\ origin[r] = IF status[r] >= 400 THEN "upstream" ELSE "none"
        BY <1>4 DEF ContextOK, AnswerStands, IsFinal
    <2>2. blamed = IF status[r] >= 400 THEN "upstream" ELSE "none"
        BY <2>1 DEF Codes
    <2> QED
        BY <1>1, <2>1, <2>2 DEF AnswerLabels
<1>5. ending[r] \in {"answered", "completed", "abandoned", "unstarted"} =>
        count = AnswerLabels(status[r])
    BY <1>4 DEF AnswerKept, IsFinal
<1>6. ending[r] \in {"rejected", "unreachable", "lost"} => count = GatewayLabels(status[r])
    BY <1>1 DEF ContextOK, GatewayLabels, Codes, IsFinal
<1>7. ending[r] = "disconnected" => count = GatewayLabels(499)
    BY <1>1 DEF ContextOK, GatewayLabels, IsFinal
<1>8. ending[r] = "failed" => count = GatewayLabels(502)
    BY <1>1 DEF ContextOK, GatewayLabels, IsFinal
<1>9. final = 500 => count.status_class = "5xx" /\ count.failure_origin # "none"
    BY <1>1, <1>2
<1>10. ending[r] = "crashed" => final = 500
    BY DEF ContextOK, IsFinal
<1>11. ending[r] \in {"broken", "close_failed"} =>
         final = 500 \/ count = AnswerLabels(status[r])
    BY <1>4 DEF AnswerKept, ContextOK, AnswerStands, IsFinal
<1> QED
    BY <1>3, <1>5, <1>6, <1>7, <1>8, <1>9, <1>10, <1>11 DEF CountFits, count

\* Counting a request at any point allowed agrees with its outcome.
LEMMA CountKeepsOrder ==
    ASSUME MetricsType, TypeOK, NEW r \in Requests, RequestOK(r), MetricsOK(r),
           UNCHANGED <<vars, contextVars>>, NEW final, Countable(r, final), IsCounted(r, final),
           middleware[r] # "over"
    PROVE  /\ MetricsOK(r)'
           /\ recorded[r] = NotRecorded
           /\ phase[r] = "done" => CountFits(r, recorded'[r])
<1>0. /\ phase[r] \in Phases /\ ending[r] \in Endings /\ status[r] \in Codes
      /\ override[r] \in {0, 499, 502} /\ origin[r] \in Origins
      /\ ContextOK(r) /\ TokensOK(r)
    BY TypeParts DEF MetricsType, MetricsOK
<1>1. /\ phase'[r] = phase[r] /\ ending'[r] = ending[r] /\ status'[r] = status[r]
      /\ accounting'[r] = accounting[r] /\ override'[r] = override[r]
      /\ origin'[r] = origin[r]
    BY DEF vars, requestVars, contextVars
<1>2. ContextOK(r)' /\ TokensOK(r)'
    BY <1>0, <1>1 DEF ContextOK, TokensOK, AnswerStands
<1>3. override[r] # 0 => phase[r] = "done" /\ ending[r] \in {"disconnected", "failed"}
    BY <1>0 DEF ContextOK, AnswerStands, AnswerKept, Waiting, Relaying, Phases, Endings
<1>4. phase[r] \notin Waiting
    BY <1>0 DEF Countable, ContextOK, Waiting
<1>5. /\ final \in 200..599
      /\ \/ override[r] = 0 /\ status[r] # 0 /\ final = status[r]
         \/ override[r] # 0 /\ final = override[r]
         \/ /\ phase[r] = "done" /\ ending[r] \in {"broken", "close_failed", "crashed"}
            /\ final = 500
    BY <1>0 DEF Countable, FinalStatus, Codes
<1>6. /\ recorded'[r].status_class = StatusClass(final)
      /\ recorded'[r].failure_origin = IF final < 400 THEN "none"
                                       ELSE IF origin[r] = "none" THEN "gateway"
                                       ELSE origin[r]
    BY DEF IsCounted
<1>7. Success(status[r]) =>
        \/ recorded'[r].status_class = "2xx"
        \/ /\ phase[r] = "done"
           /\ ending[r] \in {"crashed", "broken", "close_failed", "disconnected", "failed"}
    BY <1>3, <1>5, <1>6 DEF StatusClass
<1>8. recorded'[r].failure_origin = "upstream" =>
        \/ phase[r] \in Relaying
        \/ phase[r] = "done" /\ ending[r] \in AnswerKept
                                   \cup {"crashed", "disconnected", "failed"}
    <2>1. recorded'[r].failure_origin = "upstream" => origin[r] = "upstream"
        BY <1>6
    <2> QED
        BY <1>0, <1>4, <2>1 DEF ContextOK, Phases, Endings, AnswerKept, Waiting, Relaying
<1>9. recorded'[r].failure_origin = "gateway" =>
        phase[r] = "done" /\ ending[r] \notin {"answered", "completed", "abandoned"}
    <2> SUFFICES ASSUME recorded'[r].failure_origin = "gateway"
                 PROVE  phase[r] = "done" /\ ending[r] \notin {"answered", "completed",
                                                                "abandoned"}
        OBVIOUS
    <2>1. final >= 400 /\ origin[r] # "upstream"
        BY <1>5, <1>6
    <2>2. override[r] = 0 /\ final = status[r] => ~AnswerStands(r)
        BY <1>0, <2>1 DEF ContextOK
    <2> QED
        BY <1>0, <1>3, <1>4, <1>5, <2>2
           DEF AnswerStands, AnswerKept, Waiting, Relaying, Phases
<1>10. CountOK(r)'
    BY <1>1, <1>4, <1>7, <1>8, <1>9 DEF CountOK, IsCounted, Success
<1>11. recorded[r] = NotRecorded
    BY DEF MetricsOK, CountOK
<1>12. ASSUME phase[r] = "done"
       PROVE  CountFits(r, recorded'[r])
    <2>1. IsFinal(r, final)
        BY <1>5 DEF IsFinal
    <2> QED
        BY <1>0, <1>12, <2>1, CountedOutcome, Zenon
<1> QED
    BY <1>2, <1>10, <1>11, <1>12 DEF MetricsOK

\* Requests that a step does not touch stay in order.
LEMMA UntouchedMetrics ==
    ASSUME NEW q, MetricsOK(q), Untouched(q), SameContext(q),
           recorded'[q] = recorded[q], middleware'[q] = middleware[q]
    PROVE  MetricsOK(q)'
BY DEF Untouched, SameContext, MetricsOK, ContextOK, TokensOK, CountOK, AnswerStands

\* A step that changes nothing of the requests but what is counted.
LEMMA AllUntouched ==
    ASSUME UNCHANGED <<requestVars, lease>>
    PROVE  \A q \in Requests : Untouched(q)
BY DEF Untouched, requestVars, streamVars

\* The middleware lets the handlers run as they would without it.
LEMMA MetricsStepAllowed == [MetricsNext]_metricsVars => [Next]_vars
<1>1. ASSUME NEW r \in Requests, HandlerStep(r)
      PROVE  RequestStep(r)
    BY <1>1 DEF HandlerStep, Received, RequestStep, Proceed
<1>2. ASSUME NEW r \in Requests, MiddlewareStep(r) \/ WrapperClosed(r)
      PROVE  UNCHANGED vars
    BY <1>2 DEF MiddlewareStep, HandlerRaised, ResponseReturned, WrapperEnds, WrapperClosed,
                Finalize
<1> QED
    BY <1>1, <1>2 DEF MetricsNext, metricsVars, Next

\* Nothing was received yet.
LEMMA MetricsInvInit == MetricsInit => MetricsInv
<1> SUFFICES ASSUME MetricsInit PROVE MetricsInv
    OBVIOUS
<1>1. GatewayInv
    BY GatewayInvInit DEF MetricsInit
<1>2. MetricsType
    BY DEF MetricsInit, MetricsType, Middlewares, Origins, NotRecorded
<1>3. ASSUME NEW r \in Requests
      PROVE  MetricsOK(r)
    <2>1. /\ phase[r] = "idle" /\ status[r] = 0 /\ override[r] = 0 /\ origin[r] = "none"
          /\ recorded[r] = NotRecorded /\ middleware[r] = "idle" /\ accounting[r] = <<>>
        BY <1>3 DEF MetricsInit, Init
    <2> QED
        BY <2>1, NothingRecorded
           DEF MetricsOK, ContextOK, TokensOK, CountOK, AnswerStands, Waiting, Relaying
<1> QED
    BY <1>1, <1>2, <1>3 DEF MetricsInv

\* One step per coroutine, and the steps of no request.
LEMMA MetricsInvNext ==
    MetricsInv /\ [MetricsNext]_metricsVars => MetricsInv' /\ [OutcomeStep]_metricsVars
<1> SUFFICES ASSUME MetricsInv, [MetricsNext]_metricsVars
             PROVE  MetricsInv' /\ [OutcomeStep]_metricsVars
    OBVIOUS
<1>0. /\ GatewayInv /\ MetricsType /\ TypeOK
      /\ \A q \in Requests : RequestOK(q) /\ MetricsOK(q)
    BY DEF MetricsInv, GatewayInv
<1>1. GatewayInv'
    BY <1>0, MetricsStepAllowed, GatewayInvNext
<1>2. ASSUME NEW r \in Requests, HandlerStep(r), UNCHANGED <<wraps, recorded>>
      PROVE  MetricsInv' /\ OutcomeStep
    <2>1. HandlerSummary(r)
        BY <1>2, EveryHandlerStep
    <2>2. MetricsOK(r)'
        BY <1>0, <2>1, OutcomeKeepsOrder DEF HandlerSummary, StepSummary
    <2>3. ASSUME NEW q \in Requests \ {r}
          PROVE  MetricsOK(q)'
        BY <1>0, <2>1, UntouchedMetrics DEF HandlerSummary, StepSummary
    <2> QED
        BY <1>1, <1>2, <2>1, <2>2, <2>3 DEF MetricsInv, HandlerSummary, OutcomeStep
<1>3. ASSUME NEW r \in Requests, MiddlewareStep(r) \/ WrapperClosed(r)
      PROVE  MetricsInv' /\ OutcomeStep
    <2>1. MiddlewareSummary(r)
        BY <1>3, EveryMiddlewareStep
    <2>2. \A q \in Requests : Untouched(q) /\ SameContext(q)
        <3>1. UNCHANGED <<requestVars, lease>> /\ UNCHANGED contextVars
            BY <2>1 DEF MiddlewareSummary, vars, admissionVars, admissionSlots
        <3> QED
            BY <3>1, AllUntouched DEF contextVars, SameContext
    <2>3. ASSUME NEW q \in Requests \ {r}
          PROVE  MetricsOK(q)' /\ recorded'[q] = recorded[q]
        BY <1>0, <2>1, <2>2, UntouchedMetrics DEF MiddlewareSummary
    <2>4. CASE recorded'[r] = recorded[r] /\ status[r] # 0
        <3>1. MetricsOK(r)'
            BY <1>0, <2>1, <2>2, <2>4
               DEF MiddlewareSummary, Untouched, SameContext, MetricsOK, ContextOK, TokensOK, CountOK,
                   AnswerStands
        <3> QED
            BY <1>1, <2>1, <2>3, <2>4, <3>1 DEF MetricsInv, MiddlewareSummary, OutcomeStep
    <2>5. ASSUME NEW final, Countable(r, final), IsCounted(r, final)
          PROVE  MetricsInv' /\ OutcomeStep
        <3>1. /\ MetricsOK(r)'
              /\ recorded[r] = NotRecorded
              /\ phase[r] = "done" => CountFits(r, recorded'[r])
            BY <1>0, <2>1, <2>5, CountKeepsOrder DEF MiddlewareSummary
        <3>2. MetricsInv'
            BY <1>1, <2>1, <2>3, <3>1 DEF MetricsInv, MiddlewareSummary
        <3>3. OutcomeStep
            BY <2>3, <3>1 DEF OutcomeStep
        <3> QED
            BY <3>2, <3>3
    <2> QED
        BY <2>1, <2>4, <2>5 DEF MiddlewareSummary
<1>4. CASE \/ /\ Tick \/ HealthChanges
              /\ UNCHANGED <<wraps, middleware, contextVars, recorded>>
           \/ UNCHANGED metricsVars
    <2>1. UNCHANGED <<requestVars, lease>> /\ UNCHANGED <<wraps, middleware, contextVars, recorded>>
        BY <1>4 DEF Tick, HealthChanges, Admission!Tick, Admission!slotVars, admissionVars,
                    admissionSlots, vars, metricsVars
    <2>2. \A q \in Requests : Untouched(q) /\ SameContext(q)
        BY <2>1, AllUntouched DEF contextVars, SameContext
    <2>3. \A q \in Requests : MetricsOK(q)'
        BY <1>0, <2>1, <2>2, UntouchedMetrics
    <2>4. MetricsType' /\ OutcomeStep
        BY <1>0, <2>1 DEF MetricsType, contextVars, OutcomeStep
    <2> QED
        BY <1>1, <2>3, <2>4 DEF MetricsInv
<1> QED
    BY <1>2, <1>3, <1>4 DEF MetricsNext

-----------------------------------------------------------------------------
(* Results.                                                                 *)

\* The context of a request and its counters agree with its outcome.
THEOREM MetricsInvariance == MetricsSpec => []MetricsInv
<1> QED
    BY MetricsInvInit, MetricsInvNext, PTL DEF MetricsSpec

\* The middleware changes nothing of what the handlers do: every theorem about
\* the gateway holds with it in place.
THEOREM MiddlewareObserves == MetricsSpec => Spec
<1>1. MetricsInit => Init
    BY DEF MetricsInit
<1> QED
    BY <1>1, MetricsStepAllowed, PTL DEF MetricsSpec, Spec

\* A request whose tokens were recorded is counted as a success, unless a later
\* event broke its stream.
THEOREM TokensComeWithSuccess == MetricsSpec => []TokensImplySuccess
<1>1. MetricsInv => TokensImplySuccess
    BY DEF MetricsInv, MetricsOK, TokensOK, CountOK, TokensImplySuccess
<1> QED
    BY <1>1, MetricsInvariance, PTL

\* Failures are blamed on the upstream only if it answered, and on the gateway
\* only if the client did not get an upstream's answer as it was.
THEOREM OriginIsRight == MetricsSpec => []OriginFollowsExchange
<1>1. MetricsInv => OriginFollowsExchange
    <2> SUFFICES ASSUME MetricsInv, NEW r \in Requests
                 PROVE  LET failure == recorded[r].failure_origin IN
                        /\ failure = "upstream" =>
                             ending[r] \notin {"rejected", "unreachable", "lost"}
                        /\ failure = "gateway" =>
                             ending[r] \notin {"answered", "completed", "abandoned"}
        BY DEF OriginFollowsExchange
    <2>1. CountOK(r) /\ PhaseOK(r)
        BY DEF MetricsInv, MetricsOK, GatewayInv, RequestOK
    <2>2. recorded[r].failure_origin \in {"upstream", "gateway"} => recorded[r] # NotRecorded
        BY DEF NotRecorded
    <2> QED
        BY <2>1, <2>2 DEF CountOK, PhaseOK, Relaying, AnswerKept
<1> QED
    BY <1>1, MetricsInvariance, PTL

\* No count is ever replaced, and a request finalized after its handler is over is
\* counted as what became of it; streams left at a chunk count by their status line,
\* and streams an exception broke may.
THEOREM OutcomesRecorded == MetricsSpec => OutcomeRecorded
<1>1. MetricsInv /\ [MetricsNext]_metricsVars => [OutcomeStep]_metricsVars
    BY MetricsInvNext
<1> QED
    BY <1>1, MetricsInvariance, PTL DEF MetricsSpec, OutcomeRecorded
=============================================================================
