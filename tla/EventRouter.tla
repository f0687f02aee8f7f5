---------------------------- MODULE EventRouter ----------------------------
(***************************************************************************)
(* From the two WebSocket threads to the workers: the EventRouter          *)
(* (src/app/EventRouter.{h,cpp}) finds the market a message names and      *)
(* pushes the message to that market's BlockingQueue                       *)
(* (src/core/BlockingQueue.h), which drops its oldest entry when full.     *)
(* push and pop hold the queue's mutex, so each is one step.               *)
(*                                                                         *)
(* A message is its "code" and "market" fields ("" if absent, a name that  *)
(* is no registered market if unknown), the set hard of fields the textual *)
(* search of the fast path cannot read (escaped, or longer than 20), and   *)
(* whether it is JSON at all.                                              *)
(***************************************************************************)
EXTENDS Integers, Sequences, FiniteSets, SequencesExt

CONSTANTS
    Markets,      \* registered markets (routes_)
    Messages,     \* what the WebSockets may deliver
    Capacity,     \* queue_capacity
    MaxMessages   \* bound: messages received

ASSUME RouterAssumption ==
    /\ Capacity \in Nat \ {0}
    /\ MaxMessages \in Nat
    /\ "" \notin Markets

VARIABLES
    queue,      \* the event queue of each market; entries are [n, msg]
    received,   \* number of the last message received
    handled,    \* history: entries each worker has popped
    routed      \* history: entries pushed to each queue

vars == <<queue, received, handled, routed>>

----------------------------------------------------------------------------
(* extractMarketFast_, extractMarketSlow_: "" means no market found *)

Keys == {"code", "market"}

\* What extractStringValue_ finds of a field.
ExtractStringValue(msg, key) == IF key \in msg.hard THEN "" ELSE msg[key]

Conflict(code, market) == code # "" /\ market # "" /\ code # market

Named(code, market) == IF code # "" THEN code ELSE market

\* Each field is searched for on its own: a conflict is only seen if both are
\* found, and one that is found alone decides.
ExtractMarketFast(msg) ==
    LET code == ExtractStringValue(msg, "code")
        market == ExtractStringValue(msg, "market")
    IN  [had_conflict |-> Conflict(code, market), market |-> Named(code, market)]

\* mutant: the "code" field is believed whatever "market" says
BadExtractMarketSlow(msg) == IF msg.valid THEN Named(msg.code, msg.market) ELSE ""

ExtractMarketSlow(msg) ==
    IF msg.valid /\ ~Conflict(msg.code, msg.market)
    THEN Named(msg.code, msg.market)
    ELSE ""

\* A conflict found by the fast path is final.
MarketKey(msg) ==
    LET fast == ExtractMarketFast(msg)
    IN  IF fast.had_conflict THEN ""
        ELSE IF fast.market # "" THEN fast.market
        ELSE ExtractMarketSlow(msg)

----------------------------------------------------------------------------
(* BlockingQueue *)

\* mutant: the last place is not used
BadPush(q, x) == Append(IF Len(q) + 1 >= Capacity /\ q # <<>> THEN Tail(q) ELSE q, x)

Push(q, x) == Append(IF Len(q) >= Capacity THEN Tail(q) ELSE q, x)

----------------------------------------------------------------------------

Init ==
    /\ queue = [m \in Markets |-> <<>>]
    /\ received = 0
    /\ handled = [m \in Markets |-> <<>>]
    /\ routed = [m \in Markets |-> {}]

\* routeMarketData, routeMyOrder: the same steps for both streams.
Route(msg) ==
    LET m == MarketKey(msg)
        x == [n |-> received + 1, msg |-> msg]
    IN  /\ received < MaxMessages
        /\ received' = received + 1
        /\ IF m \in Markets
           THEN /\ queue' = [queue EXCEPT ![m] = Push(@, x)]
                /\ routed' = [routed EXCEPT ![m] = @ \cup {x}]
           ELSE UNCHANGED <<queue, routed>>
        /\ UNCHANGED handled

\* pop_for, when it returns a message.
PopFor(m) ==
    /\ queue[m] # <<>>
    /\ queue' = [queue EXCEPT ![m] = Tail(@)]
    /\ handled' = [handled EXCEPT ![m] = Append(@, Head(queue[m]))]
    /\ UNCHANGED <<received, routed>>

Next == (\E msg \in Messages : Route(msg)) \/ (\E m \in Markets : PopFor(m))

Spec == Init /\ [][Next]_vars

----------------------------------------------------------------------------
(* Properties *)

Entry == [n : 1..MaxMessages, msg : Messages]

TypeOK ==
    /\ queue \in [Markets -> Seq(Entry)]
    /\ \A m \in Markets : Len(queue[m]) <= Capacity
    /\ handled \in [Markets -> Seq(Entry)]
    /\ routed \in [Markets -> SUBSET Entry]
    /\ received \in 0..MaxMessages

\* Entries that were pushed, are not queued and were never handled.
Lost(m) == routed[m] \ ToSet(handled[m] \o queue[m])

\* A worker handles the messages of its market in the order they came, none of
\* them twice. Only a full queue loses one, and its oldest: what is lost is
\* older than all that is queued and had Capacity newer messages behind it, so a
\* worker that is less than Capacity messages behind loses nothing, order
\* messages included (BlockingQueue.h:26-40, 67-81; EventRouter.h:36-39).
OldestLost ==
    \A m \in Markets :
        LET all == handled[m] \o queue[m]
        IN  /\ \A i, j \in DOMAIN all : i < j => all[i].n < all[j].n
            /\ \A x \in Lost(m) :
                  /\ \A y \in ToSet(queue[m]) : x.n < y.n
                  /\ Cardinality({y \in routed[m] : y.n > x.n}) >= Capacity

\* The fields the fast path finds.
Found(msg) == {key \in Keys : ExtractStringValue(msg, key) # ""}

\* A worker only sees messages that name its market and no other, however they
\* have to be parsed.  There is one exception: if the fast path finds one field
\* but not the other, it believes that field and looks for no conflict
\* (EventRouter.cpp:57-108).
RoutedHome ==
    \A m \in Markets : \A x \in ToSet(handled[m] \o queue[m]) :
        \/ {x.msg.code, x.msg.market} \subseteq {m, ""}
        \/ \E key \in Keys : Found(x.msg) = {key} /\ x.msg[key] = m

============================================================================
