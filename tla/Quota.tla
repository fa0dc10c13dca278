-------------------------------- MODULE Quota --------------------------------
(***************************************************************************)
(* What admission control promises, without its counters, queues, running  *)
(* totals and clock: a caller gets a slot only if fewer callers than the   *)
(* limits hold one, the tokens charged in the last window_seconds are      *)
(* below the budget, and the key is not shut; a key is shut for            *)
(* cooldown_seconds when max_events failures fall into one window.         *)
(*                                                                         *)
(* The past is kept by age: spent[k][a] are the tokens charged, and        *)
(* failures[k][a] the failures counted, a seconds ago.                     *)
(***************************************************************************)
EXTENDS Integers, FiniteSets

CONSTANTS
    Departments, Models, Endpoints, Requests, NoLease, Enabled,
    ModelLimit, DepartmentModelLimit, TokenBudget, RetryGuard, MaxPrompt, MaxOutput

VARIABLES
    lease,
    spent,
    failures,
    shut        \* the seconds for which a key stays shut

vars == <<lease, spent, failures, shut>>

Keys == Departments \X Models
Leases == [department : Departments, model_name : Models, endpoint : Endpoints]
Key(l) == <<l.department, l.model_name>>

\* A sum over all ages, counted one by one.
Total(byAge) == Cardinality(UNION {{age} \X (1..byAge[age]) : age \in DOMAIN byAge})
Nothing(window) == [age \in 0..window |-> 0]
OneSecondOlder(byAge) == [age \in DOMAIN byAge |-> IF age = 0 THEN 0 ELSE byAge[age - 1]]

Init ==
    /\ lease = [r \in Requests |-> NoLease]
    /\ spent = [k \in DOMAIN TokenBudget |-> Nothing(TokenBudget[k].window_seconds)]
    /\ failures = [k \in Keys |-> Nothing(RetryGuard.window_seconds)]
    /\ shut = [k \in Keys |-> 0]

Holding(P(_)) == Cardinality({r \in Requests : lease[r] # NoLease /\ P(lease[r])})

MayAdmit(l) ==
    /\ Enabled
    /\ shut[Key(l)] = 0
    /\ l.model_name \in DOMAIN ModelLimit =>
         Holding(LAMBDA h : h.model_name = l.model_name) < ModelLimit[l.model_name]
    /\ Key(l) \in DOMAIN DepartmentModelLimit =>
         Holding(LAMBDA h : Key(h) = Key(l)) < DepartmentModelLimit[Key(l)]
    /\ Key(l) \in DOMAIN TokenBudget =>
         Total(spent[Key(l)]) < TokenBudget[Key(l)].max_tokens

Admit(r, l) ==
    /\ lease[r] = NoLease
    /\ lease' = [lease EXCEPT ![r] = l]
    /\ MayAdmit(l)
    /\ UNCHANGED <<spent, failures, shut>>

Charge(k, tokens) ==
    IF k \in DOMAIN TokenBudget
    THEN spent' = [spent EXCEPT ![k][0] = @ + tokens]
    ELSE UNCHANGED spent

\* A failure that completes a burst shuts the key and forgets the burst.
CountFailure(k) ==
    IF ~RetryGuard.enabled \/ shut[k] > 0
    THEN UNCHANGED <<failures, shut>>
    ELSE IF Total(failures[k]) + 1 >= RetryGuard.max_events
    THEN /\ shut' = [shut EXCEPT ![k] = RetryGuard.cooldown_seconds]
         /\ failures' = [failures EXCEPT ![k] = Nothing(RetryGuard.window_seconds)]
    ELSE /\ failures' = [failures EXCEPT ![k][0] = @ + 1]
         /\ UNCHANGED shut

\* A caller gives its slot back after success, charged, or after a failure.
Finish(r, tokens) ==
    /\ lease[r] # NoLease
    /\ lease' = [lease EXCEPT ![r] = NoLease]
    /\ \/ Charge(Key(lease[r]), tokens) /\ UNCHANGED <<failures, shut>>
       \/ CountFailure(Key(lease[r])) /\ UNCHANGED spent

\* A failure that is known before the slot is given back.
FailEarly(r) ==
    /\ lease[r] # NoLease
    /\ UNCHANGED <<lease, spent>>
    /\ CountFailure(Key(lease[r]))

\* A second passes.
Pass ==
    /\ UNCHANGED lease
    /\ spent' = [k \in DOMAIN spent |-> OneSecondOlder(spent[k])]
    /\ failures' = [k \in Keys |-> OneSecondOlder(failures[k])]
    /\ shut' = [k \in Keys |-> IF shut[k] = 0 THEN 0 ELSE shut[k] - 1]

Next ==
    \/ \E r \in Requests, l \in Leases : Admit(r, l)
    \/ \E r \in Requests, tokens \in 0..(MaxPrompt + MaxOutput) : Finish(r, tokens)
    \/ \E r \in Requests : FailEarly(r)
    \/ Pass

Spec == Init /\ [][Next]_vars
=============================================================================
