--------------------------- MODULE SharedOrderApi ---------------------------
(***************************************************************************)
(* SharedOrderApi (src/api/upbit/SharedOrderApi.cpp) with the client it    *)
(* guards (UpbitExchangeRestClient.cpp), the retry loop of RestClient.cpp  *)
(* and the exchange.  A thread that calls waits for mtx_, holds it through *)
(* all attempts and the sleeps between them, and gets a value or an error. *)
(*                                                                         *)
(* Every attempt opens a connection of its own.  A request whose attempt   *)
(* ended without an answer is late: it may still reach the exchange.       *)
(* The exchange serves requests in any order, and places no two orders     *)
(* with the same identifier.  An accepted cancel takes effect later, and   *)
(* the order may fill before it does.                                      *)
(***************************************************************************)
EXTENDS RestClient, FiniteSets

CONSTANTS
    Threads,        \* callers: the main thread and the workers
    Ids,            \* identifiers made by makeIdentifier, each for one order
    Leftover,       \* identifiers of orders that an earlier process left open
    NoThread, NoAnswer, NoBody

ASSUME ApiAssumption ==
    /\ NoThread \notin Threads
    /\ Ids # {} /\ "" \notin Ids /\ Leftover \subseteq Ids

VARIABLES
    mtx,        \* the holder of mtx_
    call,       \* the present or the last call of each thread
    late,       \* requests that no attempt waits for any more, with their number
    book,       \* the exchange: state of each order, and how often it was placed
    posted      \* identifiers already used

api == <<mtx, call, late, book, posted>>

\* "query" is getMyAccount, getOpenOrders or getOrder: they differ in the target
\* of the request.  Of what a query returns, the state of one order is followed.
Ops == {"query", "cancelOrder", "postOrder"}

\* Requests that change something, and so matter when they are late.
Requests == [op : {"cancelOrder", "postOrder"}, id : Ids, identifier : Ids \cup {""}]

OrderStates == {"none", "wait", "cancelling", "done", "cancel"}

Orders == [state : OrderStates, n : Nat]

\* The values that stand for no answer and no body are neither.
ASSUME ValueAssumption ==
    /\ NoBody \notin Orders /\ NoAnswer \notin Orders
    /\ NoAnswer \notin [status : Statuses, body : Orders \cup {NoBody}]

\* mutant: the body has no identifier
BadRequest(c) == [op |-> c.op, id |-> c.id, identifier |-> ""]

\* What is sent: only postOrder puts an identifier into the body.
Request(c) ==
    [op |-> c.op, id |-> c.id, identifier |-> IF c.op = "postOrder" THEN c.id ELSE ""]

----------------------------------------------------------------------------
(* The exchange *)

\* Orders after request r took effect; n counts placements.
Applied(b, r) ==
    CASE r.op = "postOrder" -> [b EXCEPT ![r.id] = [state |-> "wait", n |-> @.n + 1]]
      [] r.op = "cancelOrder" -> [b EXCEPT ![r.id].state = "cancelling"]
      [] OTHER -> b

\* An identifier can be used once; only a waiting order can be cancelled.
CanApply(b, r) ==
    CASE r.op = "postOrder" -> r.identifier # "" => b[r.identifier].n = 0
      [] r.op = "cancelOrder" -> b[r.id].state = "wait"
      [] OTHER -> TRUE

\* Body of a successful response.  NoBody is one that cannot be read or lacks
\* the uuid.
Bodies(b, r) == {NoBody, b[r.id]}

Answers(b, r) == [status : {"2xx"}, body : Bodies(b, r)]

Refusals == [status : {"4xx", "429", "5xx"}, body : {NoBody}]

\* The request that thread t waits for is served.  A 5xx can follow a request
\* that took effect.
Serve(t) ==
    LET r == Request(call[t])
    IN  /\ call[t].pc = "read" /\ call[t].answer = NoAnswer
        /\ \/ /\ CanApply(book, r)
              /\ book' = Applied(book, r)
              /\ \E a \in Answers(book', r) \cup [status : {"5xx"}, body : {NoBody}] :
                     call' = [call EXCEPT ![t].answer = a]
           \/ /\ \E a \in Refusals : call' = [call EXCEPT ![t].answer = a]
              /\ UNCHANGED book
        /\ UNCHANGED <<mtx, late, posted>>

\* A late request takes effect, or is lost or refused.
ServeLate(r) ==
    /\ late[r] > 0
    /\ late' = [late EXCEPT ![r] = @ - 1]
    /\ book' \in {book} \cup {Applied(b, r) : b \in {x \in {book} : CanApply(x, r)}}
    /\ UNCHANGED <<mtx, call, posted>>

Fill(id) ==
    /\ book[id].state \in {"wait", "cancelling"}
    /\ book' = [book EXCEPT ![id].state = "done"]
    /\ UNCHANGED <<mtx, call, late, posted>>

\* The accepted cancel takes effect.
Cancelled(id) ==
    /\ book[id].state = "cancelling"
    /\ book' = [book EXCEPT ![id].state = "cancel"]
    /\ UNCHANGED <<mtx, call, late, posted>>

----------------------------------------------------------------------------
(* The caller *)

Calls == [op : Ops, id : Ids, pc : {"idle", "lock", "try", "read"},
          attempt : 0..MaxAttempts + 1,
          answer : [status : Statuses, body : Orders \cup {NoBody}] \cup {NoAnswer},
          doubt : BOOLEAN, result : {"none", "value", "error"},
          value : Orders \cup {NoBody, NoAnswer}, from : Orders \cup {NoAnswer}]

Idle == [op |-> "query", id |-> CHOOSE id \in Ids : TRUE, pc |-> "idle",
         attempt |-> 0, answer |-> NoAnswer, doubt |-> FALSE, result |-> "none",
         value |-> NoAnswer, from |-> NoAnswer]

\* A call, up to the lock.  An order's identifier is new; the other calls name
\* an order that the caller has seen.
Begin(t, op, id) ==
    /\ call[t].pc = "idle"
    /\ IF op = "postOrder" THEN id \notin posted ELSE id \in posted
    /\ posted' = IF op = "postOrder" THEN posted \cup {id} ELSE posted
    /\ call' = [call EXCEPT ![t] = [Idle EXCEPT !.op = op, !.id = id, !.pc = "lock"]]
    /\ UNCHANGED <<mtx, late, book>>

Acquire(t) ==
    /\ call[t].pc = "lock"
    /\ mtx = NoThread
    /\ mtx' = t
    /\ call' = [call EXCEPT ![t].pc = "try", ![t].attempt = 1]
    /\ UNCHANGED <<late, book, posted>>

\* The request of call c is left behind.
Abandon(c) == IF c.op = "query" THEN late ELSE [late EXCEPT ![Request(c)] = @ + 1]

\* mutant: the connection outlives the attempt, and with it an unread answer
BadClosed(c) == c

\* performOnce returns: its stream is destroyed.
Closed(c) == [c EXCEPT !.answer = NoAnswer]

\* perform sleeps, with the lock, and tries again.
Again(t, c) ==
    /\ call' = [call EXCEPT ![t] = [c EXCEPT !.pc = "try", !.attempt = @ + 1]]
    /\ UNCHANGED mtx

\* perform returns for good, and the lock is given up.
Return(t, c, result, value) ==
    /\ mtx' = NoThread
    /\ call' = [call EXCEPT ![t] = [c EXCEPT !.pc = "idle", !.attempt = 0,
                                             !.result = result, !.value = value]]

\* After an attempt without a response, of which the caller learns the error e.
\* Only an error of the connect shows that nothing was sent.
AfterError(t, e) ==
    LET c0 == call[t]
        unsure == c0.op = "postOrder" /\ e \in WriteErrors \cup ReadErrors
        c == [Closed(c0) EXCEPT !.doubt = @ \/ unsure]
    IN  IF ShouldRetryError(e) /\ AttemptsLeft(c.attempt)
        THEN Again(t, c)
        ELSE Return(t, c, "error", NoAnswer)

\* buildOrderPayloadFields, cancelOrder: an argument is refused before any
\* attempt.
Refuse(t) ==
    /\ call[t].pc = "try" /\ call[t].attempt = 1
    /\ call[t].op \in {"postOrder", "cancelOrder"}
    /\ Return(t, call[t], "error", NoAnswer)
    /\ UNCHANGED <<late, book, posted>>

ConnectFails(t) ==
    /\ call[t].pc = "try"
    /\ \E e \in ConnectErrors : AfterError(t, e)
    /\ UNCHANGED <<late, book, posted>>

Write(t) ==
    /\ call[t].pc = "try"
    /\ call' = [call EXCEPT ![t].pc = "read",
                            ![t].from = IF call[t].op = "query" THEN book[call[t].id]
                                        ELSE NoAnswer]
    /\ UNCHANGED <<mtx, late, book, posted>>

\* The request may have been written completely before the error.
WriteFails(t) ==
    /\ call[t].pc = "try"
    /\ \E e \in WriteErrors : AfterError(t, e)
    /\ late' \in {late, Abandon(call[t])}
    /\ UNCHANGED <<book, posted>>

ReadFails(t) ==
    /\ call[t].pc = "read"
    /\ \E e \in ReadErrors : AfterError(t, e)
    /\ late' = IF call[t].answer = NoAnswer THEN Abandon(call[t]) ELSE late
    /\ UNCHANGED <<book, posted>>

\* What the client makes of a response.  getMyAccount, getOpenOrders, getOrder:
\* the body must be readable.
QueryParsed(a) == a.status = "2xx" /\ a.body # NoBody

\* cancelOrder needs the status only.
CancelParsed(a) == a.status = "2xx"

\* mutant: an empty uuid is returned as if the order had one
BadPostParsed(a) == a.status = "2xx"

\* postOrder needs the uuid.
PostParsed(a) == a.status = "2xx" /\ a.body # NoBody

Parsed(op, a) ==
    CASE op = "query" -> QueryParsed(a)
      [] op = "cancelOrder" -> CancelParsed(a)
      [] op = "postOrder" -> PostParsed(a)

\* The response is read; perform repeats the request or the client parses it.
ReadResponse(t) ==
    LET a == call[t].answer
        unsure == /\ call[t].op = "postOrder"
                  /\ a.status = "5xx" \/ (a.status = "2xx" /\ a.body = NoBody)
        c == [Closed(call[t]) EXCEPT !.doubt = @ \/ unsure]
    IN  /\ call[t].pc = "read" /\ a # NoAnswer
        /\ IF ShouldRetryStatus(a.status) /\ AttemptsLeft(c.attempt)
           THEN Again(t, c)
           ELSE IF Parsed(c.op, a) THEN Return(t, c, "value", a.body)
           ELSE Return(t, c, "error", NoAnswer)
        /\ UNCHANGED <<late, book, posted>>

\* The thread is in a synchronous call of performOnce that only the peer ends:
\* connect, handshake and write, or the read of an answer that is not there.
\* expires_after does not bound these calls.
Waits(t) ==
    \/ call[t].pc = "try"
    \/ call[t].pc = "read" /\ call[t].answer = NoAnswer

\* The steps of a call that has begun.
Step(t) ==
    \/ Acquire(t) \/ Refuse(t) \/ ConnectFails(t) \/ Write(t) \/ WriteFails(t)
    \/ ReadFails(t) \/ ReadResponse(t)

Exchange ==
    \/ \E t \in Threads : Serve(t)
    \/ \E r \in Requests : ServeLate(r)
    \/ \E id \in Ids : Fill(id) \/ Cancelled(id)

Init ==
    /\ mtx = NoThread
    /\ call = [t \in Threads |-> Idle]
    /\ late = [r \in Requests |-> 0]
    /\ posted = Leftover
    /\ book = [id \in Ids |-> IF id \in posted THEN [state |-> "wait", n |-> 1]
                              ELSE [state |-> "none", n |-> 0]]

=============================================================================
