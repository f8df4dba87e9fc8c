-------------------------- MODULE AuditedRegister --------------------------
(***************************************************************************)
(* What DigitalTwinSettingsStore of internal/app promises to its callers:  *)
(* a value that is replaced in one indivisible step, and only by a client  *)
(* whose expected version is the value being replaced, together with the   *)
(* one event that tells what was replaced by what.  Transactions, locks,   *)
(* missing rows and lost answers of a database do not occur here; a client *)
(* who is told neither success nor rejection simply does not know.         *)
(***************************************************************************)
EXTENDS Sequences

CONSTANTS
    Clients,
    Values,   \* what clients may save
    Initial   \* stands for the value before the first save

VARIABLES
    value,    \* the current value
    log,      \* the events, the oldest first
    seen,     \* per client: the value it loaded
    tab       \* per client: what it is doing, or was told last

vars == <<value, log, seen, tab>>

Told == {"saved", "rejected", "unclear"}

Init ==
    /\ value = Initial
    /\ log = <<>>
    /\ seen = [c \in Clients |-> Initial]
    /\ tab = [c \in Clients |-> "idle"]

\* GetDigitalTwinSettings.
Load(c) ==
    /\ tab[c] = "idle"
    /\ tab' = [tab EXCEPT ![c] = "loaded"]
    /\ seen' = [seen EXCEPT ![c] = value]
    /\ UNCHANGED <<value, log>>

\* UpdateDigitalTwinSettings takes effect; the client may not learn of it.
Save(c, v) ==
    /\ tab[c] = "loaded"
    /\ seen[c] = value
    /\ value' = v
    /\ log' = Append(log, [previous |-> value, next |-> v])
    /\ tab' \in {[tab EXCEPT ![c] = t] : t \in {"saved", "unclear"}}
    /\ UNCHANGED seen

\* ErrDigitalTwinSettingsConflict, a list that is not allowed, or an error:
\* nothing has changed and nothing is logged.
NoSave(c) ==
    /\ tab[c] = "loaded"
    /\ tab' \in {[tab EXCEPT ![c] = t] : t \in {"rejected", "unclear"}}
    /\ UNCHANGED <<value, log, seen>>

\* The client has read the answer.
Close(c) ==
    /\ tab[c] \in Told
    /\ tab' = [tab EXCEPT ![c] = "idle"]
    /\ seen' = [seen EXCEPT ![c] = Initial]
    /\ UNCHANGED <<value, log>>

Next ==
    \E c \in Clients :
        Load(c) \/ NoSave(c) \/ Close(c) \/ \E v \in Values : Save(c, v)

Spec == Init /\ [][Next]_vars
=============================================================================
