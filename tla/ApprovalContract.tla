-------------------------- MODULE ApprovalContract --------------------------
(***************************************************************************)
(* What the confirmation gate promises, without processes, locks, keys or  *)
(* files: approvals are offered, each for one operation, and while an      *)
(* approval is alive it lets its operation through at most once.           *)
(***************************************************************************)
EXTENDS Integers

CONSTANTS Approvals, Expiry(_), Nonce(_), Nonces

VARIABLES clock, offered, uses

vars == <<clock, offered, uses>>

Init ==
  /\ clock = 0
  /\ offered = {}
  /\ uses = [n \in Nonces |-> 0]

Offer(a) ==
  /\ a \notin offered
  /\ offered' = offered \cup {a}
  /\ UNCHANGED <<clock, uses>>

\* At most once while alive.  Once its expiry second has begun an approval is
\* no longer protected by the ledger, only by the expiry check.
Use(a) ==
  /\ a \in offered
  /\ uses[Nonce(a)] = 0 \/ clock >= Expiry(a)
  /\ uses' = [uses EXCEPT ![Nonce(a)] = @ + 1]
  /\ UNCHANGED <<clock, offered>>

Tick == clock' = clock + 1 /\ UNCHANGED <<offered, uses>>

Next ==
  \/ \E a \in Approvals : Offer(a) \/ Use(a)
  \/ Tick

Spec == Init /\ [][Next]_vars

=============================================================================
