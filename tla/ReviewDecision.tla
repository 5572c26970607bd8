---------------------------- MODULE ReviewDecision ----------------------------
(***************************************************************************)
(* What the review queue promises its operators, without requests, reads   *)
(* or races: an item is raised once and decided at most once, it is marked *)
(* accepted only after a proposed action has really been carried out on    *)
(* MaluDB, and a decision is never revised.                                *)
(*                                                                         *)
(* The promise is deliberately no stronger than the code: an action may be *)
(* carried out for an item that is (or later becomes) rejected.  See       *)
(* ReviewQueue for the interleavings that do so.                           *)
(***************************************************************************)
EXTENDS Naturals

CONSTANTS Key,      \* the dedup keys, one per review item
          Action    \* the proposed actions the items may carry

VARIABLES decision,  \* status of each item; "none" before a scan raises it
          carried    \* the actions carried out on MaluDB for each item

vars == <<decision, carried>>

Init == /\ decision = [k \in Key |-> "none"]
        /\ carried = [k \in Key |-> {}]

\* A scan raises the item.
Raise(k) == /\ decision[k] = "none"
            /\ decision' = [decision EXCEPT ![k] = "open"]
            /\ UNCHANGED carried

\* MaluDB carries out an action proposed for an item that has been raised.
CarryOut(k, a) == /\ decision[k] # "none"
                  /\ carried' = [carried EXCEPT ![k] = @ \cup {a}]
                  /\ UNCHANGED decision

Accept(k) == /\ decision[k] = "open"
             /\ carried[k] # {}
             /\ decision' = [decision EXCEPT ![k] = "accepted"]
             /\ UNCHANGED carried

Reject(k) == /\ decision[k] = "open"
             /\ decision' = [decision EXCEPT ![k] = "rejected"]
             /\ UNCHANGED carried

Next == \E k \in Key : \/ Raise(k)
                       \/ \E a \in Action : CarryOut(k, a)
                       \/ Accept(k)
                       \/ Reject(k)

Spec == Init /\ [][Next]_vars
=============================================================================
