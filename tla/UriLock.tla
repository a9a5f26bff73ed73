------------------------------ MODULE UriLock -------------------------------
(***************************************************************************)
(* What StoreAPI.lock and StoreAPI.unlock promise the commands: a URI is   *)
(* locked for updating by at most one request at a time, and only the      *)
(* request that holds the lock lifts it (store/StoreAPI.java, lock and     *)
(* unlock).                                                                *)
(***************************************************************************)
CONSTANTS Thread, URI, NoThread

VARIABLE holder     \* holder[u]: the request that has u locked for updating

TypeOK == holder \in [URI -> Thread \cup {NoThread}]

Init == holder = [u \in URI |-> NoThread]

Acquire(t, u) ==
    /\ holder[u] = NoThread
    /\ holder' = [holder EXCEPT ![u] = t]

Release(t, u) ==
    /\ holder[u] = t
    /\ holder' = [holder EXCEPT ![u] = NoThread]

Next == \E t \in Thread, u \in URI : Acquire(t, u) \/ Release(t, u)

Spec == Init /\ [][Next]_holder
=============================================================================
