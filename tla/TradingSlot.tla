---------------------------- MODULE TradingSlot ----------------------------
(***************************************************************************)
(* What the order engines promise about money, without orders, messages or *)
(* tokens: each market has one slot, idle, buying or selling.  A purchase  *)
(* locks KRW out of the market's free KRW, is paid from the locked KRW     *)
(* only, and gives the rest back when it ends; a sale brings free KRW in;  *)
(* an idle market's KRW does not move, and no market's slot ever touches   *)
(* the KRW of another.                                                     *)
(***************************************************************************)
EXTENDS Integers

CONSTANT Markets

VARIABLES
    slot,     \* "idle", "buying" or "selling", per market
    free,     \* KRW the market may still commit
    locked    \* KRW committed to the running purchase

slotVars == <<slot, free, locked>>

Init ==
    /\ slot = [m \in Markets |-> "idle"]
    /\ free \in [Markets -> Nat]
    /\ locked = [m \in Markets |-> 0]

\* The slot of m becomes s, and nothing of another market changes.
Becomes(m, s) ==
    /\ slot' = [slot EXCEPT ![m] = s]
    /\ free' = [free EXCEPT ![m] = free'[m]]
    /\ locked' = [locked EXCEPT ![m] = locked'[m]]

StartBuy(m) ==
    /\ slot[m] = "idle"
    /\ locked'[m] \in 1..free[m]
    /\ free'[m] = free[m] - locked'[m]
    /\ Becomes(m, "buying")

\* A fill is paid for from what is locked.
Pay(m) ==
    /\ slot[m] = "buying"
    /\ locked'[m] \in 0..locked[m]
    /\ free'[m] = free[m]
    /\ Becomes(m, "buying")

\* A last fill may be paid in the same step; the rest returns to the market.
EndBuy(m) ==
    /\ slot[m] = "buying"
    /\ locked'[m] = 0
    /\ free'[m] - free[m] \in 0..locked[m]
    /\ Becomes(m, "idle")

StartSell(m) ==
    /\ slot[m] = "idle"
    /\ free'[m] = free[m] /\ locked'[m] = locked[m]
    /\ Becomes(m, "selling")

Earn(m) ==
    /\ slot[m] = "selling"
    /\ free'[m] >= free[m] /\ locked'[m] = locked[m]
    /\ Becomes(m, "selling")

EndSell(m) ==
    /\ slot[m] = "selling"
    /\ free'[m] >= free[m] /\ locked'[m] = locked[m]
    /\ Becomes(m, "idle")

Next ==
    \E m \in Markets :
        StartBuy(m) \/ Pay(m) \/ EndBuy(m) \/ StartSell(m) \/ Earn(m) \/ EndSell(m)

Spec == Init /\ [][Next]_slotVars

============================================================================
