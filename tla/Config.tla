-------------------------------- MODULE Config --------------------------------
(***************************************************************************)
(* load_config() (config.py) and what from_config() and the admission      *)
(* controller make of the settings.  A string of the file is a record: its *)
(* core, which strip() returns, and whether blanks surround it.  A mapping *)
(* of the file is a sequence of entries, in the order of the file.         *)
(***************************************************************************)
EXTENDS Naturals, Sequences, FiniteSetsExt, SequencesExt

CONSTANTS
    Blank,          \* what strip() leaves of blanks only
    None,           \* an option the file does not set
    Files,          \* configuration files, as records of their sections; None
                    \* is a file that is missing, empty or no mapping
    Environments    \* os.environ: variable -> [kind, keys]

VARIABLES
    file, env,
    gateway,        \* "down", "refused" (ConfigError) or "serving"
    app             \* the settings in force

\* The sections of a file are lists; a cap of the request shape is positive.
IsList(s) == s \in Seq(ToSet(s))

ASSUME FileAssumption ==
    \A f \in Files \ {None} :
        /\ IsList(f.upstreams) /\ IsList(f.departments)
        /\ IsList(f.global_model_limits) /\ IsList(f.request_shape_limits)
        /\ IsList(f.department_model_limits) /\ IsList(f.token_budgets)
        /\ \A u \in ToSet(f.upstreams) : IsList(u.models)
        /\ \A e \in ToSet(f.request_shape_limits) :
             e.limit.max_output_tokens \in {None} \cup (Nat \ {0})

\* A key is a string, in the file and in the environment, which has an entry
\* for every variable the file names, unset ones included.
ASSUME KeyAssumption ==
    /\ Blank # None
    /\ \A f \in Files \ {None} : \A d \in ToSet(f.departments) :
         /\ d.api_keys # None => \A s \in ToSet(d.api_keys) : s.core # None
         /\ \A e \in Environments : d.api_keys_from_env \in DOMAIN e \cup {None}
    /\ \A e \in Environments : \A v \in DOMAIN e : \A s \in ToSet(e[v].keys) : s.core # None

configVars == <<file, env, gateway, app>>

Strip(s) == s.core
IsBlank(s) == Strip(s) = Blank

\* [x.strip() for x in strings if x.strip()], each at its place in `strings'.
Stripped(strings) ==
    [i \in {j \in DOMAIN strings : ~IsBlank(strings[j])} |-> Strip(strings[i])]

-----------------------------------------------------------------------------
(* The validators of the sections.                                          *)

\* UpstreamConfig: some model is named, a token variable is set.
ValidUpstream(u) ==
    /\ ToSet(Stripped(u.models)) # {}
    /\ u.authorization_from_env = None
         \/ env[u.authorization_from_env].kind \notin {"unset", "blank"}

\* The keys of a department: inline, or a list parsed from a variable.
ApiKeys(d) ==
    Stripped(IF d.api_keys_from_env = None THEN d.api_keys
                                           ELSE env[d.api_keys_from_env].keys)

\* DepartmentConfig, and the department name checked by AppConfig.
ValidDepartment(d) ==
    /\ (d.api_keys = None) # (d.api_keys_from_env = None)
    /\ d.api_keys_from_env # None => env[d.api_keys_from_env].kind = "list"
    /\ ToSet(ApiKeys(d)) # {}
    /\ ~IsBlank(d.name)

Distinct(list) == IsInjective(list)

\* The keys of the file, each at its place: a department and one of its keys.
KeyPlaces ==
    UNION {{i} \X DOMAIN ApiKeys(file.departments[i]) : i \in DOMAIN file.departments}
KeysOfFile == [p \in KeyPlaces |-> ApiKeys(file.departments[p[1]])[p[2]]]

\* Mutant of UniqueKeys: only keys of one department are compared.
UniqueKeysPerDepartment ==
    \A i \in DOMAIN file.departments : Distinct(ApiKeys(file.departments[i]))

\* A key may be declared once only, in the whole file.
UniqueKeys == Distinct(KeysOfFile)

KnownModels == UNION {ToSet(Stripped(u.models)) : u \in ToSet(file.upstreams)}
KnownDepartments == {Strip(d.name) : d \in ToSet(file.departments)}

Pair(entry) == <<Strip(entry.department), Strip(entry.model)>>
Pairs(entries) == [i \in DOMAIN entries |-> Pair(entries[i])]

\* The keys of the two mappings of admission_control, by model.
LimitedModels == {e.model : e \in ToSet(file.global_model_limits)}
                   \cup {e.model : e \in ToSet(file.request_shape_limits)}

\* The names in admission_control are never blank, in use or not.
NamedLimits ==
    /\ \A m \in LimitedModels : ~IsBlank(m)
    /\ \A e \in ToSet(file.department_model_limits) \cup ToSet(file.token_budgets) :
         ~IsBlank(e.department) /\ ~IsBlank(e.model)

\* Mutant of KnownLimits: budgets are not looked up.
KnownLimitsNotBudgets ==
    /\ \A m \in LimitedModels : Strip(m) \in KnownModels
    /\ Distinct(Pairs(file.department_model_limits)) /\ Distinct(Pairs(file.token_budgets))
    /\ ToSet(Pairs(file.department_model_limits)) \subseteq KnownDepartments \X KnownModels

\* With admission control enabled its names refer to what the file declares,
\* and a (department, model) pair has one limit and one budget at most.
KnownLimits ==
    /\ \A m \in LimitedModels : Strip(m) \in KnownModels
    /\ Distinct(Pairs(file.department_model_limits)) /\ Distinct(Pairs(file.token_budgets))
    /\ ToSet(Pairs(file.department_model_limits) \o Pairs(file.token_budgets))
         \subseteq KnownDepartments \X KnownModels

Loadable ==
    /\ file # None
    /\ \A u \in ToSet(file.upstreams) : ValidUpstream(u)
    /\ Distinct([i \in DOMAIN file.upstreams |-> file.upstreams[i].name])
    /\ \A d \in ToSet(file.departments) : ValidDepartment(d)
    /\ UniqueKeys
    /\ NamedLimits
    /\ file.enabled => KnownLimits

-----------------------------------------------------------------------------
(* The settings.                                                            *)

\* _build_model_index(): an upstream takes a place for each time it lists m.
PoolOf(m) ==
    FlattenSeq([i \in DOMAIN file.upstreams |->
        LET u == file.upstreams[i]
            listed == {j \in DOMAIN Stripped(u.models) : Stripped(u.models)[j] = m}
        IN  [n \in 1..Cardinality(listed) |-> u.name]])

DepartmentOf(key) ==
    Strip((CHOOSE d \in ToSet(file.departments) : key \in ToSet(ApiKeys(d))).name)

\* normalize_model_keys(): of two names that differ in blanks only, the later
\* entry replaces the earlier.
ByModel(entries) ==
    [m \in {Strip(e.model) : e \in ToSet(entries)} |->
        entries[Max({i \in DOMAIN entries : Strip(entries[i].model) = m})].limit]

\* _department_model_limit() and _token_budget() return the first match.
ByPair(entries) ==
    [k \in ToSet(Pairs(entries)) |->
        entries[Min({i \in DOMAIN entries : Pair(entries[i]) = k})].limit]

Settings ==
    [pool |-> [m \in KnownModels |-> PoolOf(m)],
     department |-> [key \in ToSet(KeysOfFile) |-> DepartmentOf(key)],
     enabled |-> file.enabled,
     model_limit |-> ByModel(file.global_model_limits),
     shape_limit |-> ByModel(file.request_shape_limits),
     pair_limit |-> ByPair(file.department_model_limits),
     budget |-> ByPair(file.token_budgets)]

Init ==
    /\ file \in Files
    /\ env \in Environments
    /\ gateway = "down"
    /\ app = None

Load ==
    /\ gateway = "down"
    /\ IF Loadable THEN gateway' = "serving" /\ app' = Settings
                   ELSE gateway' = "refused" /\ UNCHANGED app
    /\ UNCHANGED <<file, env>>
=============================================================================
