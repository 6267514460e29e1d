--------------------------- MODULE DurableReceipts ---------------------------
(***************************************************************************)
(* What the capture state database promises to the clients of idempotent   *)
(* commands: an answered command is on disk, and stays on disk unchanged   *)
(* until its key is retired from the bounded receipt cache.                *)
(***************************************************************************)
EXTENDS Naturals

CONSTANTS Keys    \* command scopes (principal, operation, idempotency key)

VARIABLES
    stored,       \* the receipt on disk for every key, 0 for none
    answered      \* the receipt a client was answered with, 0 for none

Init == /\ stored = [k \in Keys |-> 0]
        /\ answered = [k \in Keys |-> 0]

\* A write may replace everything except what clients were told.
Store == /\ stored' \in [Keys -> Nat]
         /\ \A k \in Keys : answered[k] # 0 => stored'[k] = answered[k]
         /\ UNCHANGED answered

\* A client is answered only from the disk.
Answer(k) == /\ stored[k] # 0
             /\ answered' = [answered EXCEPT ![k] = stored[k]]
             /\ UNCHANGED stored

\* The cache forgets a key; the disk may follow later.
Retire(k) == /\ answered' = [answered EXCEPT ![k] = 0]
             /\ UNCHANGED stored

Next == Store \/ \E k \in Keys : Answer(k) \/ Retire(k)

Spec == Init /\ [][Next]_<<stored, answered>>
=============================================================================
