-------------------------------- MODULE Intake --------------------------------
(***************************************************************************)
(* What a request meets before admission, under the settings that Config   *)
(* has loaded: the source resolution of its headers (dependencies.py) and  *)
(* check_request_shape() (services/admission_control.py).                  *)
(*                                                                         *)
(* A header is a string as in Config: its core and whether blanks surround *)
(* it.  The server strips spaces and tabs, but strip() knows more blanks.  *)
(* An output cap of 0 stands for every value that is no positive integer.  *)
(***************************************************************************)
EXTENDS Config

CONSTANTS
    ApiKeyHeaders,   \* X-API-Key: None or a string
    Authorizations,  \* Authorization: None or [scheme, value]
    Payloads         \* [model, endpoint, size, n, max_tokens, max_output_tokens]

VARIABLES
    headers,         \* of the request being handled
    source,          \* its SourceResolutionResult
    payload,         \* its body as received
    sent             \* status of the refusal (0: none) and body as forwarded

ASSUME PayloadAssumption ==
    /\ None \notin Nat
    /\ \A p \in Payloads :
         /\ {"max_tokens", "max_output_tokens"} \subseteq DOMAIN p
         /\ p.max_tokens \in Nat \cup {None} /\ p.max_output_tokens \in Nat \cup {None}

intakeVars == <<headers, source, payload, sent>>
vars == <<configVars, intakeVars>>

UNKNOWN_DEPARTMENT == "unknown"

\* The empty string, which has no blanks either.
IsEmpty(s) == IsBlank(s) /\ ~s.padded

\* What is left of a string without its blanks, if anything.
KeyIn(s) == IF IsBlank(s) THEN None ELSE Strip(s)

\* Mutant of ExtractApiKey: an X-API-Key of blanks counts as none.
ExtractApiKeyBlankIsNone(x, authorization) ==
    IF x # None /\ ~IsBlank(x)
    THEN KeyIn(x)
    ELSE IF authorization # None /\ authorization.scheme = "bearer"
    THEN KeyIn(authorization.value)
    ELSE None

\* extract_api_key(): Authorization counts only without an X-API-Key; one that
\* holds nothing but blanks is no key, yet hides Authorization.
ExtractApiKey(x, authorization) ==
    IF x # None /\ ~IsEmpty(x)
    THEN KeyIn(x)
    ELSE IF authorization # None /\ authorization.scheme = "bearer"
    THEN KeyIn(authorization.value)
    ELSE None

\* resolve_department_for_api_key()
Resolution(key) ==
    IF key \in DOMAIN app.department
    THEN [department |-> app.department[key], resolution_source |-> "api_key"]
    ELSE [department |-> UNKNOWN_DEPARTMENT, resolution_source |-> "unknown"]

\* A request arrives: its source is resolved before its body is read.
Arrive(x, authorization) ==
    /\ gateway = "serving"
    /\ source = None \/ sent # None
    /\ headers' = [x_api_key |-> x, authorization |-> authorization]
    /\ source' = Resolution(ExtractApiKey(x, authorization))
    /\ payload' = None
    /\ sent' = None
    /\ UNCHANGED configVars

\* _extract_valid_max_output_tokens(): the caps found; 0 is an invalid one.
OutputCaps(p) == {p.max_tokens, p.max_output_tokens} \ {None}

HasShapeLimit(p) == app.enabled /\ p.model \in DOMAIN app.shape_limit

\* The status of the refusal, in the order of the checks; 0: none.
Refusal(p) ==
    LET limit == app.shape_limit[p.model]
        caps == OutputCaps(p)
    IN
    IF p.model \notin DOMAIN app.pool THEN 404
    ELSE IF ~HasShapeLimit(p) THEN 0
    ELSE IF limit.max_request_body_bytes # None /\ p.size > limit.max_request_body_bytes
    THEN 413
    ELSE IF \/ /\ limit.max_output_tokens # None /\ caps # {}
               /\ 0 \in caps \/ Max(caps) > limit.max_output_tokens
            \/ limit.reject_n_greater_than_one /\ p.n # 1
    THEN 422
    ELSE 0

\* The field in which an endpoint's upstream looks for the cap.
OutputKey(endpoint) ==
    IF endpoint = "responses" THEN "max_output_tokens" ELSE "max_tokens"

\* Mutant of Forwarded: the field of chat completions for every endpoint.
ForwardedAsChat(p) ==
    IF HasShapeLimit(p) /\ app.shape_limit[p.model].max_output_tokens # None
       /\ OutputCaps(p) = {}
    THEN [p EXCEPT !.max_tokens = app.shape_limit[p.model].max_output_tokens]
    ELSE p

\* A payload without any cap gets the one of the model.
Forwarded(p) ==
    IF HasShapeLimit(p) /\ app.shape_limit[p.model].max_output_tokens # None
       /\ OutputCaps(p) = {}
    THEN [p EXCEPT ![OutputKey(p.endpoint)] = app.shape_limit[p.model].max_output_tokens]
    ELSE p

\* The body was read: the model is looked up, then the shape is checked.
CheckShape(p) ==
    /\ source # None /\ sent = None
    /\ payload' = p
    /\ sent' = [status |-> Refusal(p), payload |-> IF Refusal(p) = 0 THEN Forwarded(p) ELSE p]
    /\ UNCHANGED <<configVars, headers, source>>

IntakeInit ==
    /\ Init
    /\ headers = None /\ source = None /\ payload = None /\ sent = None

Next ==
    \/ Load /\ UNCHANGED intakeVars
    \/ \E x \in ApiKeyHeaders, a \in Authorizations : Arrive(x, a)
    \/ \E p \in Payloads : CheckShape(p)

Spec == IntakeInit /\ [][Next]_vars

-----------------------------------------------------------------------------
(* Properties.                                                              *)

Serving == gateway = "serving"

\* Every limit and budget in force is for a model that some upstream serves and
\* a department that some key leads to, as the assumptions of the admission
\* controller and the routing registry have it; and no limit the file declares
\* is lost on the way into force, however it is spelled, unless a later entry
\* of the same section spells the same model differently.
LimitsInForce ==
    Serving =>
        /\ \A m \in DOMAIN app.pool : app.pool[m] # <<>>
        /\ \A i \in DOMAIN file.global_model_limits :
             \E j \in i..Len(file.global_model_limits) :
               LET m == Strip(file.global_model_limits[i].model)
                   e == file.global_model_limits[j]
               IN  Strip(e.model) = m /\ app.model_limit[m] = e.limit
        /\ \A i \in DOMAIN file.request_shape_limits :
             \E j \in i..Len(file.request_shape_limits) :
               LET m == Strip(file.request_shape_limits[i].model)
                   e == file.request_shape_limits[j]
               IN  Strip(e.model) = m /\ app.shape_limit[m] = e.limit
        /\ app.enabled =>
             /\ DOMAIN app.model_limit \cup DOMAIN app.shape_limit \subseteq DOMAIN app.pool
             /\ DOMAIN app.pair_limit \cup DOMAIN app.budget
                  \subseteq {app.department[k] : k \in DOMAIN app.department}
                              \X DOMAIN app.pool
             /\ \A e \in ToSet(file.department_model_limits) : app.pair_limit[Pair(e)] = e.limit
             /\ \A e \in ToSet(file.token_budgets) : app.budget[Pair(e)] = e.limit

\* A request is charged to the one department that declares the key it came
\* with, whatever blanks surround it, and to no department if none declares it.
\* The key is the one of X-API-Key unless that is absent or empty, else the
\* bearer token: a request never falls back on the token of somebody else
\* because its own X-API-Key is unknown or blank.
KeyLeadsToOwner ==
    source # None =>
        LET bearer == IF headers.authorization = None THEN Blank
                      ELSE IF headers.authorization.scheme # "bearer" THEN Blank
                      ELSE Strip(headers.authorization.value)
            key == IF headers.x_api_key = None THEN bearer
                   ELSE IF IsEmpty(headers.x_api_key) THEN bearer
                   ELSE Strip(headers.x_api_key)
            owners == {Strip(d.name) : d \in {e \in ToSet(file.departments) :
                                                  key \in ToSet(ApiKeys(e))}}
        IN owners = IF source.resolution_source = "api_key" THEN {source.department} ELSE {}

\* Requests without a known key share the department "unknown", and no limit
\* or budget of a department applies to them, provided that no department of
\* the file is called "unknown".
UnknownHasNoDepartmentLimit ==
    /\ Serving /\ app.enabled
    /\ source # None /\ source.resolution_source = "unknown"
    /\ \A d \in ToSet(file.departments) : Strip(d.name) # UNKNOWN_DEPARTMENT
    => \A k \in DOMAIN app.pair_limit \cup DOMAIN app.budget : k[1] # source.department

\* A model's output cap holds in the field its upstream reads, for everything
\* that is forwarded; the one way round it is a payload that caps itself in
\* the other endpoint's field.  A cap the client has set is never changed.
OutputCapHolds ==
    sent # None /\ HasShapeLimit(payload) /\ sent.status = 0 =>
        LET cap == app.shape_limit[payload.model].max_output_tokens
            field == OutputKey(payload.endpoint)
            own == {"max_tokens", "max_output_tokens"} \ {field}
        IN  /\ cap # None => \/ sent.payload[field] \in 1..cap
                             \/ payload[field] = None /\ \E f \in own : payload[f] # None
            /\ \A f \in own \cup {field} : payload[f] # None => sent.payload[f] = payload[f]
=============================================================================
