------------------------------ MODULE SharedUse ------------------------------
(***************************************************************************)
(* What AutoCloseBase promises to the rest of the library: a native        *)
(* resource is used by any number of users up to a limit, and it is        *)
(* released at most once, only after a close that found no user.  After    *)
(* that close nobody gets in again.                                        *)
(***************************************************************************)
EXTENDS Integers, FiniteSets

CONSTANTS Users,     \* whoever may hold the shared lock
          MaxUsers   \* the limit of the shared counter (Integer.MAX_VALUE)

VARIABLES users,     \* the current holders
          open,      \* no close has succeeded
          freed      \* the native resource has been released

uvars == <<users, open, freed>>

UInit == users = {} /\ open = TRUE /\ freed = FALSE

Enter(u) ==
    /\ open
    /\ u \notin users
    /\ Cardinality(users) < MaxUsers
    /\ users' = users \cup {u}
    /\ UNCHANGED <<open, freed>>

Leave(u) ==
    /\ u \in users
    /\ users' = users \ {u}
    /\ UNCHANGED <<open, freed>>

CloseIdle ==
    /\ open
    /\ users = {}
    /\ open' = FALSE
    /\ UNCHANGED <<users, freed>>

FreeNative ==
    /\ ~open
    /\ ~freed
    /\ freed' = TRUE
    /\ UNCHANGED <<users, open>>

UNext == (\E u \in Users : Enter(u) \/ Leave(u)) \/ CloseIdle \/ FreeNative

USpec == UInit /\ [][UNext]_uvars
=============================================================================
