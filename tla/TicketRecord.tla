----------------------------- MODULE TicketRecord -----------------------------
(***************************************************************************)
(* What a back-office desk promises about its tickets, whatever the chat,  *)
(* the investigation and the sessions do: a ticket is filed once and then  *)
(* stays, and its record is the decisions the staff made of it, one at a   *)
(* time and in their order, with none lost, rewritten or made up           *)
(* (ChatTicketStore and _decide of api/chat_handoff.py).                   *)
(***************************************************************************)
EXTENDS Sequences

CONSTANTS
  Keys,     \* what tickets are filed under
  Entries   \* what a decision writes to the record

VARIABLE records  \* the record of each filed ticket, by its key

\* A desk may open with tickets nobody decided yet.
Init == \E filed \in SUBSET Keys : records = [k \in filed |-> <<>>]

File(k) ==
  /\ k \notin DOMAIN records
  /\ records' = [l \in DOMAIN records \cup {k} |-> IF l = k THEN <<>> ELSE records[l]]

Decide(k, e) ==
  /\ k \in DOMAIN records
  /\ records' = [records EXCEPT ![k] = Append(@, e)]

Next == \E k \in Keys : File(k) \/ \E e \in Entries : Decide(k, e)

Spec == Init /\ [][Next]_records
=============================================================================
