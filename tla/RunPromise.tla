----------------------------- MODULE RunPromise -----------------------------
(***************************************************************************)
(* What a started run promises to its observers, with no goroutines,       *)
(* streams or locks: one verdict is reached once the process has exited,   *)
(* it never changes, and the frontend, the in-memory history and the       *)
(* database row show that verdict and no other.                            *)
(***************************************************************************)
CONSTANT Run

VARIABLES
    exited,    \* the runs whose process is gone
    verdict,   \* the terminal status reached, or "none"
    shown,     \* the status event the frontend got
    recorded,  \* the status in the history
    stored     \* the status in the runs table

vars == <<exited, verdict, shown, recorded, stored>>

Status == {"completed", "failed", "cancelled"}

Init ==
    /\ exited   = {}
    /\ verdict  = [r \in Run |-> "none"]
    /\ shown    = [r \in Run |-> "none"]
    /\ recorded = [r \in Run |-> "none"]
    /\ stored   = [r \in Run |-> "none"]

Exit(r) ==
    /\ r \notin exited
    /\ exited' = exited \cup {r}
    /\ UNCHANGED <<verdict, shown, recorded, stored>>

Decide(r) ==
    /\ r \in exited
    /\ verdict[r] = "none"
    /\ \E s \in Status : verdict' = [verdict EXCEPT ![r] = s]
    /\ UNCHANGED <<exited, shown, recorded, stored>>

Show(r) ==
    /\ verdict[r] # "none"
    /\ shown[r] = "none"
    /\ shown' = [shown EXCEPT ![r] = verdict[r]]
    /\ UNCHANGED <<exited, verdict, recorded, stored>>

Record(r) ==
    /\ verdict[r] # "none"
    /\ recorded[r] = "none"
    /\ recorded' = [recorded EXCEPT ![r] = verdict[r]]
    /\ UNCHANGED <<exited, verdict, shown, stored>>

\* The database follows the history; a failed statement leaves it behind.
Store(r) ==
    /\ recorded[r] # "none"
    /\ stored[r] = "none"
    /\ stored' = [stored EXCEPT ![r] = recorded[r]]
    /\ UNCHANGED <<exited, verdict, shown, recorded>>

Next == \E r \in Run : Exit(r) \/ Decide(r) \/ Show(r) \/ Record(r) \/ Store(r)

Spec == Init /\ [][Next]_vars
=============================================================================
