----------------------------- MODULE ServingGate ----------------------------
(***************************************************************************)
(* What serving promises to its callers, without replicas, start-ups or    *)
(* Redis: a score comes from ONE registered version, which someone had     *)
(* moved to Production by then, applied to that version's columns and      *)
(* labelled with its number (ADR-0007: "a human/CI gate").                 *)
(***************************************************************************)
EXTENDS Naturals, Sequences

CONSTANTS
    Clients,        \* callers of POST /predict, each with one request
    Columns,        \* values of feature_names.json: a set and an order of columns
    NoAnswer        \* a client without a score

VARIABLES
    columnsOf,      \* per registered version, the columns its run trained on
    production,     \* the versions in the Production stage
    answer          \* what each client was answered

Init ==
    /\ columnsOf = <<>>
    /\ production = {}
    /\ answer = [c \in Clients |-> NoAnswer]

Register(s) ==
    /\ columnsOf' = Append(columnsOf, s)
    /\ UNCHANGED <<production, answer>>

Promote(v) ==
    /\ production' = production \cup {v}
    /\ UNCHANGED <<columnsOf, answer>>

\* The one way to a score.
Score(c, v) ==
    /\ answer[c] = NoAnswer
    /\ v \in production
    /\ answer' = [answer EXCEPT ![c] = [label |-> v, model |-> v, columns |-> columnsOf[v]]]
    /\ UNCHANGED <<columnsOf, production>>

Next ==
    \/ \E s \in Columns : Register(s)
    \/ \E v \in DOMAIN columnsOf : Promote(v) \/ \E c \in Clients : Score(c, v)

Spec == Init /\ [][Next]_<<columnsOf, production, answer>>

=============================================================================
