----------------------------- MODULE AvailGuard -----------------------------
(***************************************************************************)
(* What a cx_reslock_t promises to the tables and to the memory segments   *)
(* it protects: any number of users at a time, until a blocker shuts them  *)
(* out; the blocker is alone once the last user has left.  LsmStore and    *)
(* TableTasks use the lock in this form.                                   *)
(***************************************************************************)

CONSTANT Users

VARIABLES
    blocked,    \* new users are turned away
    users,      \* the users inside
    alone       \* the blocker has been told that nobody is inside

vars == <<blocked, users, alone>>

Init == blocked \in BOOLEAN /\ users = {} /\ alone = blocked

Enter(u) ==
    /\ ~blocked
    /\ users' = users \cup {u}
    /\ UNCHANGED <<blocked, alone>>

Leave(u) ==
    /\ u \in users
    /\ users' = users \ {u}
    /\ UNCHANGED <<blocked, alone>>

Block == ~blocked /\ blocked' = TRUE /\ UNCHANGED <<users, alone>>

BeAlone ==
    /\ blocked /\ users = {}
    /\ alone' = TRUE
    /\ UNCHANGED <<blocked, users>>

Unblock ==
    /\ alone
    /\ blocked' = FALSE
    /\ alone' = FALSE
    /\ UNCHANGED users

Next == Block \/ BeAlone \/ Unblock \/ \E u \in Users : Enter(u) \/ Leave(u)

Spec == Init /\ [][Next]_vars
=============================================================================
