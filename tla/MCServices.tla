------------------------------ MODULE MCServices -----------------------------
(* Small instances of two services every run leans on: the provider pool     *)
(* and the label store with its attributor.  They run one at a time: "part"  *)
(* says which of them a behaviour is about.                                  *)
EXTENDS ProviderPool, LabelStore

CONSTANTS one, two, tx, history, balance, desk, tip, acme, zeta

VARIABLE part

\* A flaky provider with a floor below it that never fails; a request each cache
\* policy, of which the last only the flaky provider serves.
Flaky == 1
Floor == 2
FloorLacksBalance == [r \in Request |-> IF r = balance THEN {Flaky} ELSE {Flaky, Floor}]
DefaultPolicies ==
    [r \in Request |-> CASE r = tx -> "forever" [] r = history -> "ttl" [] OTHER -> "never"]
OnlyFloor == {Floor}

\* desk publishes, or once only reports; tip reports.
Offer(source, entity, method) == [source |-> source, entity |-> entity, method |-> method]
MCOffers ==
    {Offer(desk, acme, "published"), Offer(desk, zeta, "community"),
     Offer(tip, acme, "community"), Offer(tip, zeta, "community")}

MCInit == Init /\ LabelInit /\ part \in {"pool", "labels"}

MCNext ==
    /\ \/ part = "pool" /\ Next /\ UNCHANGED labelVars
       \/ part = "labels" /\ LabelNext /\ UNCHANGED vars
    /\ UNCHANGED part

\* FairSpec and LabelSpec, each while its own part is at work.
MCFairness ==
    /\ \A c \in Caller : WF_vars(part = "pool" /\ CallerStep(c))
    /\ \A p \in Provider : WF_vars(part = "pool" /\ Elapse(p))
    /\ \A t \in Ingest : WF_labelVars(part = "labels" /\ (Recording(t) \/ LosesTheKey(t)))
    /\ WF_labelVars(part = "labels" /\ Reconciling)

MCSpec == MCInit /\ [][MCNext]_<<vars, labelVars, part>> /\ MCFairness
=============================================================================
