---------------------------- MODULE OrderMachine ----------------------------
(***************************************************************************)
(* What generator/streaming/transitions.py promises of an order: it is     *)
(* placed once and then moves along ORDER_TRANSITIONS until it is terminal.*)
(*                                                                         *)
(* Nothing in the generator makes the statements of one event atomic, so   *)
(* the promise has an exception: an order whose event stopped half way is  *)
(* "torn" from then on, and no longer covered.                             *)
(***************************************************************************)
CONSTANT Orders

VARIABLE status  \* [Orders -> OrderStatuses \cup {"none", "torn"}]

ORDER_TRANSITIONS ==
    [ PLACED |-> {"PAID", "CANCELLED"},
      PAID |-> {"SHIPPED", "CANCELLED"},
      SHIPPED |-> {"DELIVERED"},
      DELIVERED |-> {},
      CANCELLED |-> {} ]

OrderStatuses == {"PLACED", "PAID", "SHIPPED", "DELIVERED", "CANCELLED"}

IsTerminal(s) == ORDER_TRANSITIONS[s] = {}

Init == status \in [Orders -> OrderStatuses \cup {"none"}]

Place(o) ==
    /\ status[o] = "none"
    /\ status' = [status EXCEPT ![o] = "PLACED"]

Move(o) ==
    /\ status[o] \in OrderStatuses
    /\ \E s \in ORDER_TRANSITIONS[status[o]] : status' = [status EXCEPT ![o] = s]

Tear(o) ==
    /\ status[o] \in OrderStatuses
    /\ status' = [status EXCEPT ![o] = "torn"]

Next == \E o \in Orders : Place(o) \/ Move(o) \/ Tear(o)

Spec == Init /\ [][Next]_status
=============================================================================
