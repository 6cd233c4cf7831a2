-------------------------- MODULE DeliveryContract --------------------------
(***************************************************************************)
(* What a sender is promised of an Event queued for an Actor, without       *)
(* bundles, leases or processes.  An item is offered to a runtime and may   *)
(* be taken back and offered again while no turn has begun for it.  Once it *)
(* has entered a runtime its turn may have changed the world, so from there *)
(* it can only be concluded (docs/design/event/delivery/delivery.md).       *)
(***************************************************************************)
CONSTANT Items

VARIABLE item

ItemStates == {"new", "waiting", "offered", "entered", "concluded"}

(* A handler that accepts or takes back an item may offer it in the same    *)
(* step, and an offered item may be concluded without ever being entered.   *)
Moves ==
  {<<"new", "waiting">>, <<"new", "offered">>, <<"waiting", "offered">>,
   <<"offered", "waiting">>, <<"offered", "entered">>,
   <<"offered", "concluded">>, <<"entered", "concluded">>}

Init == item = [i \in Items |-> "new"]

Next == \A i \in Items : item'[i] = item[i] \/ <<item[i], item'[i]>> \in Moves

Spec == Init /\ [][Next]_item

TypeOK == item \in [Items -> ItemStates]

=============================================================================
