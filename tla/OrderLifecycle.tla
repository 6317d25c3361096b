--------------------------- MODULE OrderLifecycle ---------------------------
(***************************************************************************)
(* What an order manager promises its callers, without brokers, polling,   *)
(* idempotency keys or fill identifiers: an order is accepted once, has a  *)
(* positive quantity left for as long as it works, may be amended while it *)
(* works, and is closed for good; the net position of an instrument moves  *)
(* only when a working order of that instrument executes, in the order's   *)
(* direction and by at most what the order has left.                       *)
(*                                                                         *)
(* OrderManager implements this specification (see Lifecycle there).       *)
(***************************************************************************)
EXTENDS Integers

CONSTANTS
    Ids,          \* order identifiers
    Symbols,      \* instruments
    MaxQuantity   \* largest quantity of one request

VARIABLES
    working,      \* id -> what the order still wants: instrument, side, left
    closed,       \* ids that were filled, canceled or refused
    net           \* instrument -> signed quantity held

vars == <<working, closed, net>>

Wanted == [instrument: Symbols, side: {"BUY", "SELL"}, left: 1..MaxQuantity]

Signed(side, n) == IF side = "BUY" THEN n ELSE -n

Init ==
    /\ working = [id \in {} |-> 0]
    /\ closed = {}
    /\ net = [s \in Symbols |-> 0]

Accept(id, w) ==
    /\ id \notin DOMAIN working \cup closed
    /\ working' = [x \in DOMAIN working \cup {id} |->
                     IF x = id THEN w ELSE working[x]]
    /\ UNCHANGED <<closed, net>>

Refuse(id) ==
    /\ id \notin DOMAIN working
    /\ closed' = closed \cup {id}
    /\ UNCHANGED <<working, net>>

(* An amended order keeps its identifier or moves to one never used.       *)
Amend(id, new, w) ==
    /\ id \in DOMAIN working
    /\ new = id \/ new \notin DOMAIN working \cup closed
    /\ working' = [x \in (DOMAIN working \ {id}) \cup {new} |->
                     IF x = new THEN w ELSE working[x]]
    /\ UNCHANGED <<closed, net>>

Close(id) ==
    /\ id \in DOMAIN working
    /\ working' = [x \in DOMAIN working \ {id} |-> working[x]]
    /\ closed' = closed \cup {id}
    /\ UNCHANGED net

Execute(id, n) ==
    /\ id \in DOMAIN working
    /\ n =< working[id].left
    /\ net' = [net EXCEPT ![working[id].instrument] =
                 @ + Signed(working[id].side, n)]
    /\ IF n = working[id].left
         THEN /\ working' = [x \in DOMAIN working \ {id} |-> working[x]]
              /\ closed' = closed \cup {id}
         ELSE /\ working' = [working EXCEPT ![id].left = @ - n]
              /\ UNCHANGED closed

Next ==
    \E id \in Ids :
      \/ \E w \in Wanted : Accept(id, w)
      \/ Refuse(id)
      \/ \E new \in Ids, w \in Wanted : Amend(id, new, w)
      \/ Close(id)
      \/ \E n \in 1..MaxQuantity : Execute(id, n)

Spec == Init /\ [][Next]_vars
=============================================================================
