--------------------------- MODULE TwoPhaseApproval ---------------------------
(***************************************************************************)
(* What the approval service promises, without the graph, the tools and    *)
(* the faults: "a two-phase commit pattern" in which evidence and rules    *)
(* lead to a proposal, a person decides it once, and only an approved      *)
(* proposal ever becomes a draft that moves money                          *)
(* (workflows/approval_service.py, lines 10 to 18).                        *)
(*                                                                         *)
(* A proposal is identified by an idempotency key.  A draft, once it       *)
(* exists, is never replaced, and no key is drafted twice; the store is    *)
(* volatile and may be lost as a whole, and an approval may come to        *)
(* nothing.                                                                *)
(***************************************************************************)
CONSTANTS Cases, Keys

VARIABLES
  phase,      \* "new", "waiting", "approved", "rejected" or "closed"
  drafted     \* the money drafts that exist: pairs <<case, key>>

vars == <<phase, drafted>>

Init ==
  /\ phase = [c \in Cases |-> "new"]
  /\ drafted = {}

\* Phase 1 ends: the case waits for a person, or it is closed without one.
Submit(c) ==
  /\ phase[c] = "new"
  /\ \E p \in {"waiting", "closed"} : phase' = [phase EXCEPT ![c] = p]
  /\ UNCHANGED drafted

\* The one decision a case gets.
Judge(c) ==
  /\ phase[c] = "waiting"
  /\ \E p \in {"approved", "rejected"} : phase' = [phase EXCEPT ![c] = p]
  /\ UNCHANGED drafted

\* Phase 2.
Commit(c, k) ==
  /\ phase[c] = "approved"
  /\ \A p \in drafted : p[1] # c /\ p[2] # k
  /\ drafted' = drafted \cup {<<c, k>>}
  /\ UNCHANGED phase

Lose ==
  /\ drafted' = {}
  /\ UNCHANGED phase

Next ==
  \/ \E c \in Cases : Submit(c) \/ Judge(c) \/ \E k \in Keys : Commit(c, k)
  \/ Lose

Spec == Init /\ [][Next]_vars
=============================================================================
