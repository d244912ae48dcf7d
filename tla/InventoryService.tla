-------------------------- MODULE InventoryService --------------------------
(***************************************************************************)
(* inventory-service: the handler of inventory.cmd.q.  Every order takes   *)
(* one WIDGET-1.  The slow_ms toggle only delays a reservation, which the  *)
(* unordered, untimed delivery of EventBus already allows.                 *)
(***************************************************************************)
EXTENDS EventBus

CONSTANT InitialStock   \* 100000 in schema.sql

ASSUME InitialStockAssumption == InitialStock \in Nat

VARIABLES
    stock,          \* stock.qty of WIDGET-1; nothing keeps it above zero
    reservations    \* the orders with a row in reservations

inventoryVars == <<stock, reservations>>

InventoryTypeOK ==
    /\ stock \in Int
    /\ reservations \subseteq Order

InventoryInit ==
    /\ stock = InitialStock
    /\ reservations = {}

(* cmd.inventory.reserve: take the unit and record it; in silent mode without a reply. *)
Reserve(o, reply) ==
    /\ FirstTime(o, "cmd.inventory.reserve")
    /\ \/ reply = {"reply.inventory.reserved"}
       \/ reply = {} /\ "silent" \in Faults[o]
    /\ stock' = stock - 1
    /\ reservations' = reservations \cup {o}
    /\ CommitUnit(o, "cmd.inventory.reserve", reply)

(* cmd.inventory.reserve while the fail toggle is on. *)
Refuse(o) ==
    /\ "refuse" \in Faults[o]
    /\ FirstTime(o, "cmd.inventory.reserve")
    /\ CommitUnit(o, "cmd.inventory.reserve", {"reply.inventory.failed"})
    /\ UNCHANGED inventoryVars

(* Bug: a unit is added back whether or not a reservation was deleted. *)
ReleaseBlindly(o, e) ==
    /\ e \in {"cmd.inventory.release", "cmd.inventory.release.late"}
    /\ FirstTime(o, e)
    /\ stock' = stock + 1
    /\ reservations' = reservations \ {o}
    /\ CommitUnit(o, e, {"reply.inventory.released"})

(* cmd.inventory.release, e the first one or the ".late" one: put back exactly what
   the DELETE returned. *)
Release(o, e) ==
    /\ e \in {"cmd.inventory.release", "cmd.inventory.release.late"}
    /\ FirstTime(o, e)
    /\ stock' = IF o \in reservations THEN stock + 1 ELSE stock
    /\ reservations' = reservations \ {o}
    /\ CommitUnit(o, e, {"reply.inventory.released"})

InventoryStep(o) ==
    \/ \E reply \in {{}, {"reply.inventory.reserved"}} : Reserve(o, reply)
    \/ Refuse(o)
    \/ \E e \in {"cmd.inventory.release", "cmd.inventory.release.late"} : Release(o, e)
=============================================================================
