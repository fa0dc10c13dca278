------------------------------- MODULE MCIntake -------------------------------
(* Small instances of Intake for TLC: sections of configuration files that    *)
(* are right, wrong, or spelled with blanks, in every combination.            *)
EXTENDS Intake

S(core) == [core |-> core, padded |-> FALSE]
P(core) == [core |-> core, padded |-> TRUE]

Upstream(name, models, var) ==
    [name |-> name, models |-> models, authorization_from_env |-> var]
UpstreamSections == {
    <<Upstream("u1", <<S("m1")>>, None),
      Upstream("u2", <<P("m1"), S(Blank), S("m1")>>, "TOKEN")>>,
    <<Upstream("u1", <<S("m1")>>, None), Upstream("u1", <<S("m1")>>, None)>>,
    <<Upstream("u1", <<P(Blank)>>, None)>>}

Department(name, keys, var) ==
    [name |-> name, api_keys |-> keys, api_keys_from_env |-> var]
DepartmentSections == {
    <<Department(S("a"), <<P("k1")>>, None), Department(P("b"), None, "KEYS")>>,
    <<Department(S("a"), <<S("k1")>>, None), Department(S("b"), <<P("k1")>>, None)>>,
    <<Department(S("a"), <<S("k1")>>, None), Department(P("a"), <<S("k2")>>, None)>>,
    <<Department(S("a"), <<S("k1")>>, "KEYS")>>,
    <<Department(S("a"), <<S("k1")>>, None), Department(S("unknown"), <<S("k2")>>, None)>>,
    <<Department(P(Blank), <<S("k1")>>, None)>>}

ModelEntry(model, limit) == [model |-> model, limit |-> limit]
PairEntry(department, model, limit) ==
    [department |-> department, model |-> model, limit |-> limit]
Shape(body, cap, n) == [max_request_body_bytes |-> body, max_output_tokens |-> cap,
                        reject_n_greater_than_one |-> n]

\* Global limits, shape limits, limits of pairs, budgets.
AdmissionSections == {
    << <<>>, <<>>, <<>>, <<>> >>,
    << <<ModelEntry(P("m1"), 1)>>, <<ModelEntry(P("m1"), Shape(1, 2, TRUE))>>,
       <<PairEntry(S("a"), P("m1"), 1)>>, <<PairEntry(P("a"), S("m1"), 2)>> >>,
    << <<ModelEntry(S("m1"), 1), ModelEntry(P("m1"), 2)>>,
       <<ModelEntry(S("m1"), Shape(None, None, FALSE))>>, <<>>, <<>> >>,
    << <<>>, <<ModelEntry(S("m1"), Shape(None, 1, FALSE))>>, <<>>,
       <<PairEntry(S("unknown"), S("m1"), 1)>> >>,
    << <<ModelEntry(S("m2"), 1)>>, <<>>, <<>>, <<>> >>,
    << <<>>, <<>>, <<PairEntry(S("a"), S("m1"), 1), PairEntry(P("a"), S("m1"), 2)>>, <<>> >>,
    << <<ModelEntry(P(Blank), 1)>>, <<>>, <<>>, <<>> >>}

MCFiles ==
    {None} \cup
    {[upstreams |-> u, departments |-> d, enabled |-> on, global_model_limits |-> a[1],
      request_shape_limits |-> a[2], department_model_limits |-> a[3], token_budgets |-> a[4]] :
        u \in UpstreamSections, d \in DepartmentSections, on \in BOOLEAN,
        a \in AdmissionSections}

Variable(kind, keys) == [kind |-> kind, keys |-> keys]
MCEnvironments == [
    KEYS : {Variable("unset", <<>>), Variable("blank", <<>>), Variable("broken", <<>>),
            Variable("list", <<P("k2"), S(Blank), S("k3")>>), Variable("list", <<P(Blank)>>),
            Variable("list", <<S("k1")>>)},
    TOKEN : {Variable("unset", <<>>), Variable("list", <<S("t")>>)}]

MCApiKeyHeaders == {None, S(Blank), P(Blank), S("k1"), P("k1"), S("k4")}
MCAuthorizations ==
    {None} \cup {[scheme |-> "bearer", value |-> v] : v \in {P("k2"), S(Blank)}}
           \cup {[scheme |-> "basic", value |-> S("k2")]}
MCPayloads ==
    [model : {"m1", "m2"}, endpoint : {"chat_completions", "responses"}, size : {1, 2},
     n : {1, 2}, max_tokens : {None, 0, 1, 3}, max_output_tokens : {None, 0, 2}]
=============================================================================
