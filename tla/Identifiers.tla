---------------------------- MODULE Identifiers ----------------------------
(* The values that the tables of the system share.                         *)
EXTENDS Naturals, Null

CONSTANTS
    Intents,    \* intent ids, which are the rule ids: threshold and amount
    Slots       \* slots of the chain

ASSUME SlotsAssumption == Slots \subseteq Nat
ASSUME NullAssumption == NULL \notin Intents /\ NULL \notin Slots

============================================================================
