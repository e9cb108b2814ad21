--------------------------- MODULE SharedObjects ---------------------------
(***************************************************************************)
(* What the shared cache promises to scripts, with no registry, requests,  *)
(* streams or counts: an object belongs to the runs that use it.           *)
(*                                                                         *)
(* Only a run of its own accord stops using an object, and not while it    *)
(* has it mapped; the object goes with its last user, and its name goes    *)
(* then or before that by its maker.                                       *)
(***************************************************************************)
CONSTANTS
    Run, Key,
    Object,    \* what can be shared; no object is made twice
    Maker,     \* the run that can make it
    None

VARIABLES
    named,     \* the objects that can still be opened by their name
    object,    \* the object under a key, or None
    users,     \* the runs that use the object under a key
    mapped,    \* the object a run has mapped under a key, or None
    over       \* the runs that are over

vars == <<named, object, users, mapped, over>>

Init ==
    /\ named  = {}
    /\ object = [k \in Key |-> None]
    /\ users  = [k \in Key |-> {}]
    /\ mapped = [r \in Run |-> [k \in Key |-> None]]
    /\ over   = {}

Make(r, o) ==
    /\ Maker[o] = r /\ o \notin named
    /\ \A k \in Key : object[k] # o /\ mapped[r][k] # o
    /\ named' = named \cup {o}
    /\ UNCHANGED <<object, users, mapped, over>>

\* The name goes before the object was shared, or when its maker gave up on sharing it.
Withdraw(r, o) ==
    /\ Maker[o] = r
    /\ \A k \in Key : mapped[r][k] # o
    /\ named' = named \ {o}
    /\ UNCHANGED <<object, users, mapped, over>>

\* A key that is in use is not given to another object, nor an object a second key.
Publish(r, k, o) ==
    /\ r \notin over /\ Maker[o] = r
    /\ object[k] = None /\ \A j \in Key : object[j] # o
    /\ object' = [object EXCEPT ![k] = o]
    /\ users'  = [users EXCEPT ![k] = {r}]
    /\ UNCHANGED <<named, mapped, over>>

Use(r, k) ==
    /\ r \notin over
    /\ object[k] # None
    /\ users' = [users EXCEPT ![k] = @ \cup {r}]
    /\ UNCHANGED <<named, object, mapped, over>>

\* What is mapped is the object of the key, by one of its users.
Map(r, k) ==
    /\ r \in users[k]
    /\ object[k] \in named \/ Maker[object[k]] = r
    /\ mapped' = [mapped EXCEPT ![r][k] = object[k]]
    /\ UNCHANGED <<named, object, users, over>>

\* The run unmaps what it has under the keys K, and takes the name from some of
\* those it has made.
Unmap(r, K) ==
    /\ mapped' = [mapped EXCEPT ![r] = [k \in Key |-> IF k \in K THEN None ELSE @[k]]]
    /\ \E O \in SUBSET {mapped[r][k] : k \in K} :
          /\ \A o \in O : o # None => Maker[o] = r
          /\ named' = named \ O
    /\ UNCHANGED <<object, users, over>>

\* The run is no longer a user of the keys K; an object goes with its last user.
Leaves(r, K) ==
    /\ \A k \in K : mapped[r][k] = None
    /\ users'  = [k \in Key |-> IF k \in K THEN users[k] \ {r} ELSE users[k]]
    /\ object' = [k \in Key |-> IF users'[k] = {} THEN None ELSE object[k]]
    /\ named'  = named \ {object[k] : k \in {j \in Key : object[j] # None /\ object'[j] = None}}
    /\ UNCHANGED mapped

Leave(r, K) == Leaves(r, K) /\ UNCHANGED over

\* The run is over: it leaves everything, for good.
Finish(r) ==
    /\ Leaves(r, Key)
    /\ over' = over \cup {r}

Next ==
    \E r \in Run :
        \/ \E o \in Object : Make(r, o) \/ Withdraw(r, o) \/ \E k \in Key : Publish(r, k, o)
        \/ \E k \in Key : Use(r, k) \/ Map(r, k)
        \/ \E K \in SUBSET Key : Unmap(r, K) \/ Leave(r, K)
        \/ Finish(r)

Spec == Init /\ [][Next]_vars
=============================================================================
