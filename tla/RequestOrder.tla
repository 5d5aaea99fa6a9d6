---------------------------- MODULE RequestOrder ----------------------------
(***************************************************************************)
(* What the UI relies on from the workers of a window: each connection     *)
(* answers every request made of it exactly once, in the order made,       *)
(* however the answers of different connections interleave.  ConnWorker    *)
(* implements this specification.                                          *)
(***************************************************************************)
EXTENDS Sequences, SequencesExt

CONSTANTS
  Worker,   \* the connections
  UIReq     \* the requests

VARIABLES
  pending,  \* per connection, the requests made and not answered, in order
  answered  \* per connection, the requests answered, in order

\* Requests made of any connection.
Made == UNION {Range(pending[w] \o answered[w]) : w \in Worker}

Init ==
  /\ pending = [w \in Worker |-> <<>>]
  /\ answered = [w \in Worker |-> <<>>]

Request(w, r) ==
  /\ r \notin Made
  /\ pending' = [pending EXCEPT ![w] = Append(@, r)]
  /\ UNCHANGED answered

Answer(w) ==
  /\ pending[w] # <<>>
  /\ answered' = [answered EXCEPT ![w] = Append(@, Head(pending[w]))]
  /\ pending' = [pending EXCEPT ![w] = Tail(@)]

Next == \E w \in Worker : (\E r \in UIReq : Request(w, r)) \/ Answer(w)

Spec == Init /\ [][Next]_<<pending, answered>>
=============================================================================
