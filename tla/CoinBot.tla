------------------------------ MODULE CoinBot ------------------------------
(***************************************************************************)
(* The life of the process (run in src/app/CoinBot.cpp): the constructor's *)
(* REST calls, the start of the workers (MarketEngineManager::start,       *)
(* workerLoop_) and of the two WebSocket clients, the loop that waits for  *)
(* a signal or a fatal state, and the stop in the order public client,     *)
(* workers, private client.  The workers and the main thread share the     *)
(* SharedOrderApi.                                                         *)
(*                                                                         *)
(* A worker is its loop: the test of the stop token and a body that makes  *)
(* some REST calls.  What it calls for is the subject of MarketWorker; of  *)
(* the clients only the report that one gave up reaches this module.       *)
(***************************************************************************)
EXTENDS SharedOrderApi

CONSTANTS
    Main,           \* the main thread
    CallsPerLoop,   \* bound: REST calls in one iteration of workerLoop_
    MaxLate         \* bound: no cancel is begun with as many late ones

ASSUME BotAssumption == Main \in Threads /\ {CallsPerLoop, MaxLate} \subseteq Nat

VARIABLES
    phase,      \* of the main thread
    signal,     \* g_stop_requested
    worker,     \* of each worker: where it is, calls it may still make
    stop        \* workers whose stop token is set

bot == <<phase, signal, worker, stop>>
vars == <<api, bot>>

Workers == Threads \ {Main}

StartupOps == {"query", "cancelOrder"}
WorkerOps == {"query", "postOrder"}

\* After exit(1) no thread runs.
Alive == phase # "exited"

----------------------------------------------------------------------------
(* The main thread *)

\* The constructor of MarketEngineManager calls getMyAccount and, for each
\* market, getOpenOrders and cancelOrder, one at a time.
Construct ==
    /\ phase = "construct" /\ call[Main].pc = "idle"
    /\ \E op \in StartupOps, id \in Ids :
           /\ Begin(Main, op, id)
           /\ op = "cancelOrder" => late[Request(call'[Main])] < MaxLate
    /\ UNCHANGED bot

Start ==
    /\ phase = "construct" /\ call[Main].pc = "idle"
    /\ phase' = "running"
    /\ worker' = [w \in Workers |-> [at |-> "top", left |-> 0]]
    /\ call' = [call EXCEPT ![Main] = Idle]
    /\ UNCHANGED <<mtx, late, book, posted, signal, stop>>

\* The account cannot be read.
ConstructorThrows ==
    /\ phase = "construct" /\ call[Main].pc = "idle"
    /\ call[Main].op = "query" /\ call[Main].result = "error"
    /\ phase' = "exited"
    /\ UNCHANGED <<api, signal, worker, stop>>

Signal ==
    /\ Alive /\ ~signal
    /\ signal' = TRUE
    /\ UNCHANGED <<api, phase, worker, stop>>

\* A client gave up (onWsFatal) and the health check sees it; a signal is looked
\* at first.
ExitOnFatal ==
    /\ phase = "running" /\ ~signal
    /\ phase' = "exited"
    /\ UNCHANGED <<api, signal, worker, stop>>

\* The stop of the public client, for which the workers do not wait, and then
\* MarketEngineManager::stop: every worker is asked to stop before one is joined.
RequestStop ==
    /\ phase = "running" /\ signal
    /\ phase' = "join"
    /\ stop' = Workers
    /\ UNCHANGED <<api, signal, worker>>

Join ==
    /\ phase = "join"
    /\ \A w \in Workers : worker[w].at = "ended"
    /\ phase' = "joined"
    /\ UNCHANGED <<api, signal, worker, stop>>

StopPrivate ==
    /\ phase = "joined"
    /\ phase' = "ended"
    /\ UNCHANGED <<api, signal, worker, stop>>

----------------------------------------------------------------------------
(* The other threads *)

\* The head of the loop of workerLoop_.
Top(w) ==
    /\ Alive /\ worker[w].at = "top"
    /\ worker' = [worker EXCEPT ![w] = IF w \in stop THEN [at |-> "ended", left |-> 0]
                                       ELSE [at |-> "body", left |-> CallsPerLoop]]
    /\ UNCHANGED <<api, phase, signal, stop>>

\* A submit, or a recovery, which asks for an order that was placed since the
\* start.
WorkerCalls(w) ==
    /\ Alive /\ worker[w].at = "body" /\ worker[w].left > 0
    /\ \E op \in WorkerOps, id \in Ids \ Leftover : Begin(w, op, id)
    /\ worker' = [worker EXCEPT ![w].left = @ - 1]
    /\ UNCHANGED <<phase, signal, stop>>


BodyEnds(w) ==
    /\ Alive /\ worker[w].at = "body" /\ call[w].pc = "idle"
    /\ worker' = [worker EXCEPT ![w].at = "top"]
    /\ call' = [call EXCEPT ![w] = Idle]
    /\ UNCHANGED <<mtx, late, book, posted, phase, signal, stop>>

CallStep(t) == Alive /\ Step(t) /\ UNCHANGED bot

BotInit ==
    /\ Init
    /\ phase = "construct" /\ signal = FALSE
    /\ worker = [w \in Workers |-> [at |-> "unstarted", left |-> 0]]
    /\ stop = {}

MainStep ==
    \/ Construct \/ Start \/ ConstructorThrows \/ ExitOnFatal
    \/ RequestStop \/ Join \/ StopPrivate

WorkerStep(w) == Top(w) \/ WorkerCalls(w) \/ BodyEnds(w) \/ CallStep(w)

Next ==
    \/ MainStep \/ Signal  \/ CallStep(Main)
    \/ \E w \in Workers : WorkerStep(w)
    \/ Exchange /\ UNCHANGED bot

Spec == BotInit /\ [][Next]_vars

\* Every thread is scheduled.  Nothing is assumed about who gets mtx_ next, nor
\* that a synchronous call to the peer returns.
FairSpec ==
    /\ Spec
    /\ WF_vars(MainStep) /\ WF_vars(~Waits(Main) /\ CallStep(Main))
    /\ \A w \in Workers : WF_vars(~Waits(w) /\ WorkerStep(w))

----------------------------------------------------------------------------
(* Properties *)

TypeOK ==
    /\ phase \in {"construct", "running", "join", "joined", "ended", "exited"}
    /\ mtx \in Threads \cup {NoThread}
    /\ call \in [Threads -> Calls]
    /\ late \in [Requests -> Nat]
    /\ book \in [Ids -> Orders]
    /\ posted \subseteq Ids /\ stop \subseteq Workers
    /\ signal \in BOOLEAN
    /\ worker \in [Workers -> [at : {"unstarted", "top", "body", "ended"},
                               left : 0..CallsPerLoop]]

Finished(t) == call[t].pc = "idle"

\* However often a POST is repeated, and whenever its attempts reach the
\* exchange, an order is placed once (RestClient.cpp:101-139,
\* UpbitExchangeRestClient.cpp:460-461).
PlacedAtMostOnce == \A id \in Ids : book[id].n <= 1

\* What a call reports is true.  A uuid is that of the caller's own order, a
\* cancel that succeeded was accepted (the order ends, by the cancel or by a
\* fill that comes before it), and an order whose POST failed does not
\* exist and will not, unless one of the attempts left that open: a time-out,
\* a failed write or read, a 5xx, or an answer without a uuid.  It is not
\* enough to look at the last attempt (RestClient.cpp:101-139,
\* UpbitExchangeRestClient.cpp:386-423, 509-554).
ResultTrue ==
    \A t \in Threads :
        LET c == call[t]
        IN  Finished(t) =>
                /\ c.op = "postOrder" /\ c.result = "value" =>
                       c.value # NoBody /\ c.value.n = 1 /\ book[c.id].n = 1
                /\ c.op = "postOrder" /\ c.result = "error" /\ ~c.doubt =>
                       book[c.id].n = 0 /\ late[Request(c)] = 0
                /\ c.op = "cancelOrder" /\ c.result = "value" =>
                       book[c.id].state \in {"cancelling", "cancel", "done"}

Age(state) ==
    CASE state = "none" -> 0 [] state = "wait" -> 1
      [] state = "cancelling" -> 2 [] OTHER -> 3

\* A query returns what the exchange had while the last attempt ran, even if an
\* earlier attempt is answered late (RestClient.cpp:141-235).
AnswerFresh ==
    \A t \in Threads :
        Finished(t) /\ call[t].op = "query" /\ call[t].result = "value" =>
            /\ Age(call[t].from.state) <= Age(call[t].value.state)
            /\ Age(call[t].value.state) <= Age(book[call[t].id].state)


=============================================================================
