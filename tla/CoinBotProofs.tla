--------------------------- MODULE CoinBotProofs ---------------------------
(***************************************************************************)
(* What the shared order API promises its callers, for any number of       *)
(* threads, orders and attempts, and any retry policy.  IInv says of each  *)
(* call what is already certain while it runs: the answers that wait to be *)
(* read, the late requests of its earlier attempts, and whom its           *)
(* identifier belongs to.                                                  *)
(*                                                                         *)
(* The parts of the invariant are operators on a call c, a book b, late    *)
(* requests l and used identifiers p, so that the lemmas about them speak  *)
(* of the values before and after a step.                                  *)
(***************************************************************************)
EXTENDS CoinBot, TLAPS

Answered(c) == c.pc = "read" /\ c.answer # NoAnswer
Succeeded(c) == Answered(c) /\ c.answer.status = "2xx"
Returned(c) == c.pc = "idle" /\ c.result = "value"

\* One thread at a time is past the lock.
Exclusive == \A t \in Threads : call[t].pc \in {"try", "read"} <=> mtx = t

\* An order exists once its identifier was used, at most once.
OrderOK(b, p, id) ==
    /\ b[id].n \in {0, 1}
    /\ b[id].n = 0 <=> b[id].state = "none"
    /\ b[id].n = 1 => id \in p

BookOK(b, p) == b \in [Ids -> Orders] /\ \A id \in Ids : OrderOK(b, p, id)

\* A POST that may arrive has its identifier.
RequestOK(r, p) == r.op = "postOrder" => r.identifier = r.id /\ r.id \in p

LateOK(l, p) == l \in [Requests -> Nat] /\ \A r \in Requests : l[r] > 0 => RequestOK(r, p)

\* No two calls place the same order.
OwnIds ==
    \A t, u \in Threads :
        call[t].op = "postOrder" /\ call[u].op = "postOrder" /\ call[t].id = call[u].id
            => t = u

\* A POST that succeeded has placed the order.
PostPlaced(c, b) ==
    /\ Succeeded(c) => b[c.id].n = 1 /\ (c.answer.body = NoBody \/ c.answer.body.n = 1)
    /\ Returned(c) => c.value # NoBody /\ c.value.n = 1 /\ b[c.id].n = 1

\* Nothing was left open: there is no late request, and no order unless the
\* answer that waits will tell so.
Clear(c, b, l) ==
    /\ l[Request(c)] = 0
    /\ b[c.id].n = 0 \/ (Answered(c) /\ c.answer.status \in {"2xx", "5xx"})

PostOK(c, b, l, p) ==
    c.op = "postOrder" => /\ c.id \in p /\ PostPlaced(c, b)
                          /\ ~c.doubt /\ ~Returned(c) => Clear(c, b, l)

\* The order ends: a cancel was accepted or took effect, or it is filled.
Ending(o) == o.state \in {"cancelling", "cancel", "done"}

CancelOK(c, b) ==
    c.op = "cancelOrder" /\ (Succeeded(c) \/ Returned(c)) => Ending(b[c.id])

\* Order v is no older than the query's request and no newer than the book.
Between(c, v, b) ==
    /\ v \in Orders /\ c.from \in Orders
    /\ Age(c.from.state) <= Age(v.state) /\ Age(v.state) <= Age(b[c.id].state)

QueryOK(c, b) ==
    c.op = "query" =>
        /\ c.pc = "read" => Between(c, c.from, b)
        /\ Succeeded(c) /\ c.answer.body # NoBody => Between(c, c.answer.body, b)
        /\ Returned(c) => Between(c, c.value, b)

\* An answer belongs to the attempt that waits for it.
AnswerOwn(c) == c.pc # "read" => c.answer = NoAnswer

CallOK(c, b, l, p) ==
    c \in Calls /\ PostOK(c, b, l, p) /\ CancelOK(c, b) /\ QueryOK(c, b) /\ AnswerOwn(c)

CallsOK == \A t \in Threads : CallOK(call[t], book, late, posted)

IInv == /\ TypeOK /\ Exclusive /\ BookOK(book, posted) /\ LateOK(late, posted)
        /\ OwnIds /\ CallsOK

----------------------------------------------------------------------------
(* Requests and the book *)

\* Ages are numbers.
LEMMA AgeType == \A s \in OrderStates : Age(s) \in Nat
BY DEF Age, OrderStates

\* What a request says of its call.
LEMMA RequestFields ==
    ASSUME NEW c \in Calls
    PROVE  /\ Request(c).op = c.op /\ Request(c).id = c.id /\ c.id \in Ids
           /\ c.op = "postOrder" => Request(c).identifier = c.id
           /\ c.op # "query" => Request(c) \in Requests
BY DEF Request, Requests, Calls, Ops

\* A well-formed POST is the request of any call that posts the same order.
LEMMA RequestUnique ==
    ASSUME NEW c \in Calls, NEW r \in Requests, NEW p, RequestOK(r, p),
           c.op = "postOrder", r.op = "postOrder", r.id = c.id
    PROVE  r = Request(c)
BY DEF Request, Requests, RequestOK

\* b2 is book b later.
Grown(b, b2) ==
    \A id \in Ids : /\ b[id].n <= b2[id].n
                    /\ Age(b[id].state) <= Age(b2[id].state)
                    /\ Ending(b[id]) => Ending(b2[id])

\* A book that does not change.
LEMMA GrownRefl ==
    ASSUME NEW b \in [Ids -> Orders] PROVE Grown(b, b)
BY AgeType DEF Grown, Orders

\* An order that waits was placed once.
LEMMA OrderPlaced ==
    ASSUME NEW b, NEW p, NEW id \in p, b[id].n = 1, b[id].state = "wait"
    PROVE  OrderOK(b, p, id)
BY DEF OrderOK

\* A request that the exchange accepts: at most the order it names is placed, and
\* only a POST places one.
LEMMA AppliedOK ==
    ASSUME NEW b, NEW p, BookOK(b, p), NEW r, r.op \in Ops, r.id \in Ids,
           RequestOK(r, p), CanApply(b, r)
    PROVE  /\ BookOK(Applied(b, r), p) /\ Grown(b, Applied(b, r))
           /\ r.op = "postOrder" => Applied(b, r)[r.id].n = 1
           /\ r.op = "cancelOrder" => Ending(Applied(b, r)[r.id])
           /\ \A id \in Ids : ~(r.op = "postOrder" /\ r.id = id)
                  => Applied(b, r)[id].n = b[id].n
<1>1. b \in [Ids -> Orders]
  BY DEF BookOK
<1>2. CASE r.op = "postOrder"
  <2>1. Applied(b, r) = [b EXCEPT ![r.id] = [state |-> "wait", n |-> b[r.id].n + 1]]
    BY <1>2 DEF Applied
  <2>2. r.identifier = r.id /\ r.id \in p /\ r.id # ""
    BY <1>2, ApiAssumption DEF RequestOK
  <2>3. b[r.id].n = 0 /\ b[r.id].state = "none"
    BY <1>2, <2>2 DEF CanApply, BookOK, OrderOK
  <2>4. /\ Applied(b, r) \in [Ids -> Orders]
        /\ Applied(b, r)[r.id] = [state |-> "wait", n |-> 1]
    BY <1>1, <2>1, <2>3 DEF Orders, OrderStates
  <2>5. \A id \in Ids : id # r.id => Applied(b, r)[id] = b[id]
    BY <1>1, <2>1
  <2>6. BookOK(Applied(b, r), p)
    <3>1. OrderOK(Applied(b, r), p, r.id)
      <4>1. Applied(b, r)[r.id].n = 1 /\ Applied(b, r)[r.id].state = "wait"
        BY <2>4
      <4> QED
        BY <2>2, <4>1, OrderPlaced
    <3>2. \A id \in Ids : id # r.id => OrderOK(Applied(b, r), p, id)
      BY <2>5 DEF BookOK, OrderOK
    <3> QED
      BY <2>4, <3>1, <3>2 DEF BookOK
  <2>7. Grown(b, Applied(b, r))
    BY <1>1, <2>3, <2>4, <2>5, AgeType DEF Grown, Ending, Age, Orders, OrderStates
  <2> QED
    BY <1>2, <2>4, <2>5, <2>6, <2>7
<1>3. CASE r.op = "cancelOrder"
  <2>1. Applied(b, r) = [b EXCEPT ![r.id].state = "cancelling"]
    BY <1>3 DEF Applied
  <2>2. b[r.id].state = "wait"
    BY <1>3 DEF CanApply
  <2>3. /\ Applied(b, r) \in [Ids -> Orders]
        /\ Applied(b, r)[r.id].state = "cancelling" /\ Applied(b, r)[r.id].n = b[r.id].n
    BY <1>1, <2>1 DEF Orders, OrderStates
  <2>4. \A id \in Ids : id # r.id => Applied(b, r)[id] = b[id]
    BY <1>1, <2>1
  <2>5. BookOK(Applied(b, r), p)
    BY <2>2, <2>3, <2>4 DEF BookOK, OrderOK
  <2>6. Grown(b, Applied(b, r))
    BY <1>1, <2>2, <2>3, <2>4, AgeType DEF Grown, Ending, Age, Orders, OrderStates
  <2> QED
    BY <1>3, <2>3, <2>4, <2>5, <2>6 DEF Ending
<1>4. CASE r.op = "query"
  <2>1. Applied(b, r) = b
    BY <1>4 DEF Applied
  <2> QED
    BY <1>1, <1>4, <2>1, GrownRefl
<1> QED
  BY <1>2, <1>3, <1>4 DEF Ops

\* What is certain of a call stays so while the book grows, unless the exchange
\* gets a request of the same order.
LEMMA CallKept ==
    ASSUME NEW c, NEW b, NEW l, NEW p, CallOK(c, b, l, p),
           NEW b2, BookOK(b2, p), b \in [Ids -> Orders], Grown(b, b2),
           NEW l2, NEW p2, p \subseteq p2,
           c.op = "postOrder" /\ ~c.doubt /\ ~Returned(c) =>
               l2[Request(c)] = l[Request(c)] /\ b2[c.id].n = b[c.id].n
    PROVE  CallOK(c, b2, l2, p2)
<1>1. c \in Calls /\ c.id \in Ids /\ b[c.id] \in Orders /\ b2[c.id] \in Orders
  BY DEF CallOK, Calls, BookOK
<1>2. PostOK(c, b2, l2, p2)
  <2> SUFFICES ASSUME c.op = "postOrder"
               PROVE  /\ c.id \in p2 /\ PostPlaced(c, b2)
                      /\ ~c.doubt /\ ~Returned(c) => Clear(c, b2, l2)
    BY DEF PostOK
  <2>1. c.id \in p /\ PostPlaced(c, b) /\ (~c.doubt /\ ~Returned(c) => Clear(c, b, l))
    BY DEF CallOK, PostOK
  <2>2. b[c.id].n = 1 => b2[c.id].n = 1
    BY <1>1 DEF BookOK, OrderOK, Grown, Orders
  <2> QED
    BY <2>1, <2>2 DEF PostPlaced, Clear
<1>3. CancelOK(c, b2)
  BY <1>1 DEF CallOK, CancelOK, Grown
<1>4. QueryOK(c, b2)
  <2>1. Age(b[c.id].state) <= Age(b2[c.id].state)
    BY <1>1 DEF Grown
  <2>2. ASSUME NEW v, Between(c, v, b) PROVE Between(c, v, b2)
    BY <1>1, <2>1, <2>2, AgeType DEF Between, Orders
  <2> QED
    BY <2>2 DEF CallOK, QueryOK
<1> QED
  BY <1>1, <1>2, <1>3, <1>4 DEF CallOK
----------------------------------------------------------------------------
(* The steps *)

\* Thread t's call becomes c.
Becomes(t, c) == call' = [call EXCEPT ![t] = c]

\* A step of thread t that leaves the exchange alone: the call goes on, or it is
\* forgotten.
LEMMA OneCall ==
    ASSUME IInv, NEW t \in Threads, NEW c, Becomes(t, c), UNCHANGED <<book, late, posted>>,
           CallOK(c, book, late, posted),
           c.op = "postOrder" => call[t].op = "postOrder" /\ c.id = call[t].id
    PROVE  /\ call' \in [Threads -> Calls] /\ call'[t] = c
           /\ \A u \in Threads : u # t => call'[u] = call[u]
           /\ OwnIds' /\ CallsOK'
<1>1. call \in [Threads -> Calls] /\ c \in Calls
  BY DEF IInv, TypeOK, CallOK
<1>2. /\ call' \in [Threads -> Calls] /\ call'[t] = c
      /\ \A u \in Threads : u # t => call'[u] = call[u]
  BY <1>1 DEF Becomes
<1>3. OwnIds'
  BY <1>2 DEF IInv, OwnIds
<1>4. CallsOK'
  BY <1>2 DEF IInv, CallsOK
<1> QED
  BY <1>2, <1>3, <1>4

\* The rest of the invariant when only calls and the lock change.
LEMMA ApiFrame ==
    ASSUME IInv, UNCHANGED <<book, late, posted, bot>>, mtx' \in Threads \cup {NoThread},
           call' \in [Threads -> Calls]
    PROVE  TypeOK' /\ BookOK(book, posted)' /\ LateOK(late, posted)'
<1>1. TypeOK'
  BY DEF IInv, TypeOK, bot, Workers
<1>2. book' = book /\ late' = late /\ posted' = posted
  OBVIOUS
<1> QED
  BY <1>1, <1>2 DEF IInv

\* A call between two attempts, or one that returns an error.
LEMMA CallPaused ==
    ASSUME NEW c, NEW b, NEW l, NEW p, CallOK(c, b, l, p),
           NEW c2 \in Calls, c2.op = c.op, c2.id = c.id, c2.pc # "read",
           c2.answer = NoAnswer, ~Returned(c2),
           NEW l2, c.op = "postOrder" /\ ~c2.doubt => l2[Request(c)] = 0 /\ b[c.id].n = 0
    PROVE  CallOK(c2, b, l2, p)
<1>1. Request(c2) = Request(c)
  BY DEF Request
<1>2. ~Answered(c2) /\ ~Succeeded(c2)
  BY DEF Answered, Succeeded
<1>3. PostOK(c2, b, l2, p)
  BY <1>1, <1>2 DEF CallOK, PostOK, PostPlaced, Clear
<1>4. CancelOK(c2, b) /\ QueryOK(c2, b) /\ AnswerOwn(c2)
  BY <1>2 DEF CancelOK, QueryOK, AnswerOwn
<1> QED
  BY <1>3, <1>4 DEF CallOK

\* An attempt of thread t ended without a result: it is repeated, or the call
\* returns an error.
AttemptOver(t, c) ==
    /\ Becomes(t, c) /\ c \in Calls
    /\ c.op = call[t].op /\ c.id = call[t].id /\ c.answer = NoAnswer /\ ~Returned(c)
    /\ \/ c.pc = "try" /\ mtx' = mtx
       \/ c.pc = "idle" /\ mtx' = NoThread

\* perform after an attempt: one of the two, with the same doubt.
LEMMA AgainOrError ==
    ASSUME NEW t \in Threads, NEW c \in Calls,
           c.op = call[t].op, c.id = call[t].id, c.answer = NoAnswer,
           \/ AttemptsLeft(c.attempt) /\ Again(t, c)
           \/ Return(t, c, "error", NoAnswer)
    PROVE  \E c2 : AttemptOver(t, c2) /\ c2.doubt = c.doubt
<1>1. CASE AttemptsLeft(c.attempt) /\ Again(t, c)
  <2> DEFINE c2 == [c EXCEPT !.pc = "try", !.attempt = @ + 1]
  <2>1. c.attempt \in Nat /\ c.attempt + 1 \in 0..MaxAttempts + 1
    BY <1>1, RestAssumption DEF Calls, AttemptsLeft
  <2>2. c2 \in Calls /\ c2.doubt = c.doubt
    BY <2>1 DEF Calls
  <2>3. AttemptOver(t, c2)
    BY <1>1, <2>2 DEF AttemptOver, Again, Becomes, Returned, Calls
  <2> QED
    BY <2>2, <2>3
<1>2. CASE Return(t, c, "error", NoAnswer)
  <2> DEFINE c2 == [c EXCEPT !.pc = "idle", !.attempt = 0, !.result = "error",
                             !.value = NoAnswer]
  <2>1. c2 \in Calls
    <3>1. 0 \in 0..MaxAttempts + 1
      BY RestAssumption
    <3> QED
      BY <3>1 DEF Calls
  <2>2. c2.doubt = c.doubt
    BY DEF Calls
  <2>3. AttemptOver(t, c2)
    BY <1>2, <2>1 DEF AttemptOver, Return, Becomes, Returned, Calls
  <2> QED
    BY <2>2, <2>3
<1> QED
  BY <1>1, <1>2

\* The end of an attempt keeps the invariant, if a POST that leaves something
\* behind is in doubt.
LEMMA AttemptOverIInv ==
    ASSUME IInv, NEW t \in Threads, call[t].pc \in {"try", "read"},
           NEW c, AttemptOver(t, c), UNCHANGED <<book, posted, bot>>,
           late' = late \/ (call[t].op # "query" /\ late' = Abandon(call[t])),
           call[t].op = "postOrder" /\ ~c.doubt =>
               late' = late /\ late[Request(call[t])] = 0 /\ book[call[t].id].n = 0
    PROVE  IInv'
<1> DEFINE r == Request(call[t])
<1>1. /\ call \in [Threads -> Calls] /\ call[t] \in Calls /\ c \in Calls
      /\ late \in [Requests -> Nat] /\ book \in [Ids -> Orders]
  BY DEF IInv, TypeOK, AttemptOver
<1>2. /\ call' \in [Threads -> Calls] /\ call'[t] = c
      /\ \A u \in Threads : u # t => call'[u] = call[u]
  BY <1>1 DEF AttemptOver, Becomes
<1>3. c.op = call[t].op /\ c.id = call[t].id
  BY DEF AttemptOver
<1>4. call[t].op # "query" => r \in Requests
  BY <1>1, RequestFields
<1>5. /\ late' \in [Requests -> Nat]
      /\ \A q \in Requests : q # r => late'[q] = late[q]
      /\ \A q \in Requests : late'[q] > 0 => late[q] > 0 \/ (q = r /\ call[t].op # "query")
  <2>1. CASE late' = late
    BY <1>1, <2>1
  <2>2. CASE call[t].op # "query" /\ late' = Abandon(call[t])
    <3>1. late' = [late EXCEPT ![r] = @ + 1]
      BY <2>2 DEF Abandon
    <3> HIDE DEF r
    <3> QED
      BY <1>1, <1>4, <2>2, <3>1
  <2> QED
    BY <2>1, <2>2
<1>6. LateOK(late, posted)'
  <2> SUFFICES ASSUME NEW q \in Requests, late'[q] > 0 PROVE RequestOK(q, posted)
    BY <1>5 DEF LateOK
  <2>1. CASE late[q] > 0
    BY <2>1 DEF IInv, LateOK
  <2>2. CASE q = r /\ call[t].op # "query"
    <3>1. call[t].op = "postOrder" => call[t].id \in posted
      BY DEF IInv, CallsOK, CallOK, PostOK
    <3> QED
      BY <1>1, <2>2, <3>1, RequestFields DEF RequestOK
  <2> QED
    BY <1>5, <2>1, <2>2
<1>7. OwnIds'
  BY <1>2, <1>3 DEF IInv, OwnIds
<1>8. CallsOK'
  <2> SUFFICES ASSUME NEW u \in Threads PROVE CallOK(call'[u], book, late', posted)
    BY DEF CallsOK
  <2>1. CallOK(call[u], book, late, posted)
    BY DEF IInv, CallsOK
  <2>2. CASE u = t
    <3>1. c.pc # "read" /\ c.answer = NoAnswer /\ ~Returned(c)
      BY DEF AttemptOver
    <3> QED
      BY <1>1, <1>2, <1>3, <2>1, <2>2, <3>1, CallPaused
  <2>3. CASE u # t
    <3>1. call'[u] = call[u] /\ call[u] \in Calls
      BY <1>1, <1>2, <2>3
    <3>2. call[u].op = "postOrder" => late'[Request(call[u])] = late[Request(call[u])]
      <4> SUFFICES ASSUME call[u].op = "postOrder"
                   PROVE  Request(call[u]) \in Requests /\ Request(call[u]) # r
        BY <1>5
      <4>1. Request(call[u]) \in Requests
        BY <3>1, RequestFields
      <4>2. Request(call[u]) # r
        BY <1>1, <2>3, <3>1, RequestFields DEF IInv, OwnIds
      <4> QED
        BY <4>1, <4>2
    <3>3. Grown(book, book)
      BY <1>1, GrownRefl
    <3>4. BookOK(book, posted)
      BY DEF IInv
    <3> QED
      BY <1>1, <2>1, <3>1, <3>2, <3>3, <3>4, CallKept
  <2> QED
    BY <2>2, <2>3
<1>9. Exclusive' /\ mtx' \in Threads \cup {NoThread}
  <2>1. mtx = t
    BY DEF IInv, Exclusive
  <2>2. (c.pc = "try" /\ mtx' = mtx) \/ (c.pc = "idle" /\ mtx' = NoThread)
    BY DEF AttemptOver
  <2> QED
    BY <1>2, <2>1, <2>2, ApiAssumption DEF IInv, Exclusive
<1>10. TypeOK'
  BY <1>2, <1>5, <1>9 DEF IInv, TypeOK, bot, Workers
<1>11. BookOK(book, posted)'
  BY DEF IInv, BookOK, OrderOK
<1> QED
  BY <1>6, <1>7, <1>8, <1>9, <1>10, <1>11 DEF IInv

\* An attempt that ended with an error.
LEMMA AfterErrorOver ==
    ASSUME IInv, NEW t \in Threads, NEW e, AfterError(t, e)
    PROVE  \E c : /\ AttemptOver(t, c)
                  /\ c.doubt = (call[t].doubt \/ (/\ call[t].op = "postOrder"
                                                  /\ e \in WriteErrors \cup ReadErrors))
<1> DEFINE unsure == call[t].op = "postOrder" /\ e \in WriteErrors \cup ReadErrors
           c == [Closed(call[t]) EXCEPT !.doubt = @ \/ unsure]
<1>1. call[t] \in Calls
  BY DEF IInv, TypeOK
<1>2. /\ c \in Calls /\ c.op = call[t].op /\ c.id = call[t].id /\ c.answer = NoAnswer
      /\ c.doubt = (call[t].doubt \/ unsure)
  BY <1>1 DEF Calls, Closed
<1>3. \/ AttemptsLeft(c.attempt) /\ Again(t, c)
      \/ Return(t, c, "error", NoAnswer)
  BY DEF AfterError
<1> HIDE DEF c
<1> QED
  BY <1>2, <1>3, AgainOrError

\* What is certain of a call that tries.
LEMMA Trying ==
    ASSUME IInv, NEW t \in Threads, call[t].pc = "try",
           call[t].op = "postOrder", ~call[t].doubt
    PROVE  late[Request(call[t])] = 0 /\ book[call[t].id].n = 0
BY DEF IInv, CallsOK, CallOK, PostOK, Clear, Answered, Returned

\* buildOrderPayloadFields, cancelOrder: a refused argument.
LEMMA RefuseIInv ==
    ASSUME IInv, NEW t \in Threads, Refuse(t), UNCHANGED bot PROVE IInv'
<1>1. call[t] \in Calls /\ CallOK(call[t], book, late, posted)
  BY DEF IInv, TypeOK, CallsOK
<1>2. call[t].pc = "try" /\ call[t].answer = NoAnswer
  BY <1>1 DEF Refuse, CallOK, AnswerOwn
<1>3. PICK c : AttemptOver(t, c) /\ c.doubt = call[t].doubt
  BY <1>1, <1>2, AgainOrError DEF Refuse
<1> QED
  BY <1>2, <1>3, Trying, AttemptOverIInv DEF Refuse

\* An attempt that is not written.
LEMMA ConnectFailsIInv ==
    ASSUME IInv, NEW t \in Threads, ConnectFails(t), UNCHANGED bot PROVE IInv'
<1>1. PICK e \in ConnectErrors : AfterError(t, e)
  BY DEF ConnectFails
<1>2. PICK c : /\ AttemptOver(t, c)
               /\ c.doubt = (call[t].doubt \/ (/\ call[t].op = "postOrder"
                                               /\ e \in WriteErrors \cup ReadErrors))
  BY <1>1, AfterErrorOver
<1>3. call[t].pc = "try" /\ call[t].doubt \in BOOLEAN
  BY DEF ConnectFails, IInv, TypeOK, Calls
<1>4. call[t].op = "postOrder" /\ ~c.doubt => ~call[t].doubt
  BY <1>2, <1>3
<1> QED
  BY <1>2, <1>3, <1>4, Trying, AttemptOverIInv DEF ConnectFails

\* A request that may be late now: a POST is in doubt.
LEMMA WriteFailsIInv ==
    ASSUME IInv, NEW t \in Threads, WriteFails(t), UNCHANGED bot PROVE IInv'
<1>1. PICK e \in WriteErrors : AfterError(t, e)
  BY DEF WriteFails
<1>2. PICK c : /\ AttemptOver(t, c)
               /\ c.doubt = (call[t].doubt \/ (/\ call[t].op = "postOrder"
                                               /\ e \in WriteErrors \cup ReadErrors))
  BY <1>1, AfterErrorOver
<1>3. call[t].pc = "try" /\ call[t].op = "postOrder" => c.doubt
  BY <1>2
<1>4. late' = late \/ (call[t].op # "query" /\ late' = Abandon(call[t]))
  BY DEF WriteFails, Abandon
<1> QED
  BY <1>2, <1>3, <1>4, AttemptOverIInv DEF WriteFails

\* An answer that is not read.
LEMMA ReadFailsIInv ==
    ASSUME IInv, NEW t \in Threads, ReadFails(t), UNCHANGED bot PROVE IInv'
<1>1. PICK e \in ReadErrors : AfterError(t, e)
  BY DEF ReadFails
<1>2. PICK c : /\ AttemptOver(t, c)
               /\ c.doubt = (call[t].doubt \/ (/\ call[t].op = "postOrder"
                                               /\ e \in WriteErrors \cup ReadErrors))
  BY <1>1, AfterErrorOver
<1>3. call[t].op = "postOrder" => c.doubt
  BY <1>2
<1>4. late' = late \/ (call[t].op # "query" /\ late' = Abandon(call[t]))
  BY DEF ReadFails, Abandon
<1> QED
  BY <1>2, <1>3, <1>4, AttemptOverIInv DEF ReadFails

\* An answer that is read: it is the result, or the attempt is over.
LEMMA ReadResponseIInv ==
    ASSUME IInv, NEW t \in Threads, ReadResponse(t), UNCHANGED bot PROVE IInv'
<1> DEFINE a == call[t].answer
           unsure == /\ call[t].op = "postOrder"
                     /\ a.status = "5xx" \/ (a.status = "2xx" /\ a.body = NoBody)
           c == [Closed(call[t]) EXCEPT !.doubt = @ \/ unsure]
<1>1. call[t] \in Calls /\ CallOK(call[t], book, late, posted)
  BY DEF IInv, TypeOK, CallsOK
<1>2. /\ c \in Calls /\ c.op = call[t].op /\ c.id = call[t].id /\ c.answer = NoAnswer
      /\ c.doubt = (call[t].doubt \/ unsure) /\ c.from = call[t].from
  BY <1>1 DEF Calls, Closed
<1>3. /\ Answered(call[t]) /\ a \in [status : Statuses, body : Orders \cup {NoBody}]
      /\ UNCHANGED <<late, book, posted>>
  BY <1>1 DEF ReadResponse, Answered, Calls
<1>4. CASE \/ AttemptsLeft(c.attempt) /\ Again(t, c) /\ ShouldRetryStatus(a.status)
           \/ ~Parsed(c.op, a) /\ Return(t, c, "error", NoAnswer)
  <2> HIDE DEF c
  <2>1. PICK d : AttemptOver(t, d) /\ d.doubt = c.doubt
    BY <1>2, <1>4, AgainOrError
  <2>2. call[t].op = "postOrder" /\ ~d.doubt =>
            late[Request(call[t])] = 0 /\ book[call[t].id].n = 0
    <3> SUFFICES ASSUME call[t].op = "postOrder", ~d.doubt
                 PROVE  late[Request(call[t])] = 0 /\ book[call[t].id].n = 0
      OBVIOUS
    <3>1. ~call[t].doubt /\ ~unsure
      BY <1>1, <1>2, <2>1 DEF Calls
    <3>2. a.status \notin {"2xx", "5xx"}
      BY <1>2, <1>4, <3>1 DEF Parsed, PostParsed, ShouldRetryStatus
    <3> QED
      BY <1>1, <1>3, <3>1, <3>2 DEF CallOK, PostOK, Clear, Returned, Answered
  <2> QED
    BY <1>3, <2>1, <2>2, AttemptOverIInv DEF ReadResponse
<1>5. CASE Parsed(c.op, a) /\ Return(t, c, "value", a.body)
  <2> DEFINE d == [c EXCEPT !.pc = "idle", !.attempt = 0, !.result = "value",
                            !.value = a.body]
  <2>1. /\ d \in Calls /\ d.op = call[t].op /\ d.id = call[t].id /\ d.pc = "idle"
        /\ d.answer = NoAnswer /\ d.from = call[t].from
        /\ d.result = "value" /\ d.value = a.body
    <3> HIDE DEF c
    <3>1. 0 \in 0..MaxAttempts + 1
      BY RestAssumption
    <3>2. a.body \in Orders \cup {NoBody, NoAnswer}
      BY <1>3
    <3>3. d \in Calls
      BY <1>2, <3>1, <3>2 DEF Calls
    <3> QED
      BY <1>2, <3>3 DEF Calls
  <2>2. Becomes(t, d) /\ mtx' = NoThread
    BY <1>5 DEF Return, Becomes
  <2> HIDE DEF d
  <2>3. Succeeded(call[t]) /\ ~Answered(d) /\ ~Succeeded(d) /\ Returned(d)
    BY <1>2, <1>3, <1>5, <2>1 DEF Parsed, QueryParsed, CancelParsed, PostParsed, Succeeded,
       Answered, Returned, Calls, Ops
  <2>4. call[t].op \in {"query", "postOrder"} => a.body # NoBody
    BY <1>2, <1>5 DEF Parsed, QueryParsed, PostParsed
  <2>5. PostOK(d, book, late, posted)
    BY <1>1, <2>1, <2>3, <2>4 DEF CallOK, PostOK, PostPlaced
  <2>6. CancelOK(d, book) /\ AnswerOwn(d)
    BY <1>1, <2>1, <2>3 DEF CallOK, CancelOK, AnswerOwn
  <2>7. QueryOK(d, book)
    BY <1>1, <2>1, <2>3, <2>4 DEF CallOK, QueryOK, Between
  <2>8. CallOK(d, book, late, posted)
    BY <2>1, <2>5, <2>6, <2>7 DEF CallOK
  <2>9. /\ call' \in [Threads -> Calls] /\ call'[t] = d
        /\ \A u \in Threads : u # t => call'[u] = call[u]
        /\ OwnIds' /\ CallsOK'
    BY <1>3, <2>1, <2>2, <2>8, OneCall
  <2>10. Exclusive'
    BY <1>3, <2>1, <2>2, <2>9, ApiAssumption DEF IInv, Exclusive, Answered
  <2> QED
    BY <1>3, <2>2, <2>9, <2>10, ApiFrame DEF IInv
<1> QED
  BY <1>4, <1>5 DEF ReadResponse

\* The lock is taken.
LEMMA AcquireIInv ==
    ASSUME IInv, NEW t \in Threads, Acquire(t), UNCHANGED bot PROVE IInv'
<1> DEFINE c == [call[t] EXCEPT !.pc = "try", !.attempt = 1]
<1>1. /\ call \in [Threads -> Calls] /\ call[t] \in Calls
      /\ CallOK(call[t], book, late, posted)
  BY DEF IInv, TypeOK, CallsOK
<1>2. /\ c \in Calls /\ c.op = call[t].op /\ c.id = call[t].id /\ c.pc = "try"
      /\ c.answer = call[t].answer /\ c.doubt = call[t].doubt
  <2>1. 1 \in 0..MaxAttempts + 1
    BY RestAssumption
  <2> QED
    BY <1>1, <2>1 DEF Calls
<1>3. Becomes(t, c) /\ mtx = NoThread /\ mtx' = t /\ UNCHANGED <<book, late, posted>>
  BY <1>1 DEF Acquire, Becomes
<1> HIDE DEF c
<1>4. call[t].pc = "lock" /\ call[t].answer = NoAnswer
  BY <1>1 DEF Acquire, CallOK, AnswerOwn
<1>5. CallOK(c, book, late, posted)
  <2>1. c.op = "postOrder" /\ ~c.doubt =>
            late[Request(call[t])] = 0 /\ book[call[t].id].n = 0
    BY <1>1, <1>2, <1>4 DEF CallOK, PostOK, Clear, Answered, Returned
  <2>2. ~Returned(c)
    BY <1>2 DEF Returned
  <2> QED
    BY <1>1, <1>2, <1>4, <2>1, <2>2, CallPaused
<1>6. /\ call' \in [Threads -> Calls] /\ call'[t] = c
      /\ \A u \in Threads : u # t => call'[u] = call[u]
      /\ OwnIds' /\ CallsOK'
  BY <1>2, <1>3, <1>5, OneCall
<1>7. Exclusive'
  BY <1>2, <1>3, <1>6, ApiAssumption DEF IInv, Exclusive
<1> QED
  BY <1>3, <1>6, <1>7, ApiFrame DEF IInv

\* The request is written; a query remembers the order as it was.
LEMMA WriteIInv ==
    ASSUME IInv, NEW t \in Threads, Write(t), UNCHANGED bot PROVE IInv'
<1> DEFINE f == IF call[t].op = "query" THEN book[call[t].id] ELSE NoAnswer
           c == [call[t] EXCEPT !.pc = "read", !.from = f]
<1>1. /\ call \in [Threads -> Calls] /\ call[t] \in Calls
      /\ CallOK(call[t], book, late, posted) /\ book \in [Ids -> Orders]
  BY DEF IInv, TypeOK, CallsOK
<1>2. call[t].id \in Ids /\ book[call[t].id] \in Orders
  BY <1>1 DEF Calls
<1>3. /\ c \in Calls /\ c.op = call[t].op /\ c.id = call[t].id /\ c.pc = "read"
      /\ c.answer = call[t].answer /\ c.doubt = call[t].doubt /\ c.from = f
  <2>1. f \in Orders \cup {NoAnswer}
    BY <1>2
  <2> HIDE DEF f
  <2> QED
    BY <1>1, <2>1 DEF Calls
<1>4. Becomes(t, c) /\ mtx' = mtx /\ UNCHANGED <<book, late, posted>>
  BY <1>1 DEF Write, Becomes
<1> HIDE DEF c
<1>5. call[t].pc = "try" /\ call[t].answer = NoAnswer
  BY <1>1 DEF Write, CallOK, AnswerOwn
<1>6. ~Answered(c) /\ ~Succeeded(c) /\ ~Returned(c) /\ Request(c) = Request(call[t])
  BY <1>3, <1>5 DEF Answered, Succeeded, Returned, Request
<1>7. PostOK(c, book, late, posted)
  BY <1>1, <1>3, <1>5, <1>6, Trying DEF CallOK, PostOK, PostPlaced, Clear
<1>8. QueryOK(c, book)
  <2> SUFFICES ASSUME c.op = "query" PROVE Between(c, c.from, book)
    BY <1>6 DEF QueryOK
  <2>1. c.from = book[c.id] /\ book[c.id] \in Orders
    BY <1>2, <1>3
  <2>2. Age(book[c.id].state) \in Nat
    BY <2>1, AgeType DEF Orders
  <2> QED
    BY <2>1, <2>2 DEF Between
<1>9. CallOK(c, book, late, posted)
  BY <1>3, <1>6, <1>7, <1>8 DEF CallOK, CancelOK, AnswerOwn
<1>10. /\ call' \in [Threads -> Calls] /\ call'[t] = c
       /\ \A u \in Threads : u # t => call'[u] = call[u]
       /\ OwnIds' /\ CallsOK'
  BY <1>3, <1>4, <1>9, OneCall
<1>11. Exclusive'
  BY <1>3, <1>4, <1>5, <1>10 DEF IInv, Exclusive
<1>12. mtx' \in Threads \cup {NoThread}
  BY <1>4 DEF IInv, TypeOK
<1> QED
  BY <1>4, <1>10, <1>11, <1>12, ApiFrame DEF IInv

----------------------------------------------------------------------------
(* The exchange *)

\* The orders change by a request or a fill, and the late requests do not grow.
\* Every call but that of t, whose request is served, keeps what is certain of it.
LEMMA OthersKept ==
    ASSUME IInv, NEW t, BookOK(book', posted), Grown(book, book'),
           posted' = posted, late' \in [Requests -> Nat],
           \A u \in Threads \ {t} :
               call[u].op = "postOrder" /\ ~call[u].doubt /\ ~Returned(call[u]) =>
                   /\ late'[Request(call[u])] = late[Request(call[u])]
                   /\ book'[call[u].id].n = book[call[u].id].n
    PROVE  \A u \in Threads \ {t} : CallOK(call[u], book', late', posted')
<1> SUFFICES ASSUME NEW u \in Threads \ {t} PROVE CallOK(call[u], book', late', posted)
  OBVIOUS
<1>1. CallOK(call[u], book, late, posted) /\ book \in [Ids -> Orders]
  BY DEF IInv, CallsOK, TypeOK
<1> QED
  BY <1>1, CallKept

\* A request that is served.
LEMMA ServeIInv ==
    ASSUME IInv, NEW t \in Threads, Serve(t), UNCHANGED bot PROVE IInv'
<1> DEFINE r == Request(call[t])
<1>1. /\ call \in [Threads -> Calls] /\ call[t] \in Calls
      /\ CallOK(call[t], book, late, posted)
      /\ BookOK(book, posted) /\ book \in [Ids -> Orders] /\ late \in [Requests -> Nat]
  BY DEF IInv, TypeOK, CallsOK
<1>2. /\ call[t].pc = "read" /\ call[t].answer = NoAnswer
      /\ mtx' = mtx /\ late' = late /\ posted' = posted
  BY DEF Serve
<1>3. r.op = call[t].op /\ r.id = call[t].id /\ r.id \in Ids /\ r.op \in Ops
  BY <1>1, RequestFields DEF Calls
<1>4. RequestOK(r, posted)
  BY <1>1, <1>3, RequestFields DEF CallOK, PostOK, RequestOK
<1>5. PICK a \in [status : Statuses, body : Orders \cup {NoBody}] :
        /\ call' = [call EXCEPT ![t].answer = a]
        /\ \/ /\ CanApply(book, r) /\ book' = Applied(book, r)
              /\ \/ a.status = "2xx" /\ a.body \in {NoBody, book'[r.id]}
                 \/ a.status = "5xx"
           \/ a.status \in {"4xx", "429", "5xx"} /\ book' = book
  <2> HIDE DEF r
  <2>1. CASE /\ CanApply(book, r) /\ book' = Applied(book, r)
             /\ \E a \in Answers(book', r) \cup [status : {"5xx"}, body : {NoBody}] :
                    call' = [call EXCEPT ![t].answer = a]
    <3>1. PICK a \in Answers(book', r) \cup [status : {"5xx"}, body : {NoBody}] :
              call' = [call EXCEPT ![t].answer = a]
      BY <2>1
    <3>2. book'[r.id] \in Orders
      BY <1>1, <1>3, <1>4, <2>1, AppliedOK DEF BookOK
    <3>3. /\ a \in [status : Statuses, body : Orders \cup {NoBody}]
          /\ \/ a.status = "2xx" /\ a.body \in {NoBody, book'[r.id]}
             \/ a.status = "5xx"
      BY <3>1, <3>2 DEF Answers, Bodies, Statuses
    <3> QED
      BY <2>1, <3>1, <3>3
  <2>2. CASE /\ \E a \in Refusals : call' = [call EXCEPT ![t].answer = a]
             /\ UNCHANGED book
    <3>1. PICK a \in Refusals : call' = [call EXCEPT ![t].answer = a]
      BY <2>2
    <3>2. /\ a \in [status : Statuses, body : Orders \cup {NoBody}]
          /\ a.status \in {"4xx", "429", "5xx"}
      BY <3>1 DEF Refusals, Statuses
    <3> QED
      BY <2>2, <3>1, <3>2
  <2> QED
    BY <2>1, <2>2 DEF Serve, r
<1> DEFINE c == [call[t] EXCEPT !.answer = a]
<1>6. /\ c \in Calls /\ c.op = call[t].op /\ c.id = call[t].id /\ c.pc = "read"
      /\ c.answer = a /\ c.doubt = call[t].doubt /\ c.from = call[t].from
  BY <1>1, <1>2 DEF Calls
<1>7. /\ call' \in [Threads -> Calls] /\ call'[t] = c
      /\ \A u \in Threads : u # t => call'[u] = call[u]
  BY <1>1, <1>5, <1>6
<1> HIDE DEF c
<1>8. /\ BookOK(book', posted) /\ Grown(book, book')
      /\ \A id \in Ids : ~(r.op = "postOrder" /\ r.id = id) => book'[id].n = book[id].n
  <2>1. CASE CanApply(book, r) /\ book' = Applied(book, r)
    BY <1>1, <1>3, <1>4, <2>1, AppliedOK
  <2>2. CASE book' = book
    BY <1>1, <2>2, GrownRefl
  <2> QED
    BY <1>5, <2>1, <2>2
<1>9. \A u \in Threads \ {t} : CallOK(call[u], book', late', posted')
  <2>1. ASSUME NEW u \in Threads \ {t}, call[u].op = "postOrder"
        PROVE  book'[call[u].id].n = book[call[u].id].n
    <3>1. call[u].id \in Ids
      BY <1>1 DEF Calls
    <3>2. ~(r.op = "postOrder" /\ r.id = call[u].id)
      BY <1>3, <2>1 DEF IInv, OwnIds
    <3> QED
      BY <1>8, <3>1, <3>2
  <2> QED
    BY <1>1, <1>2, <1>8, <2>1, OthersKept
<1>10. a # NoAnswer /\ Answered(c) /\ ~Returned(c)
  BY <1>6, ValueAssumption DEF Answered, Returned
<1>11. Succeeded(c) => /\ CanApply(book, r) /\ book' = Applied(book, r)
                       /\ a.body \in {NoBody, book'[c.id]}
  BY <1>3, <1>5, <1>6 DEF Succeeded
<1>12. PostOK(c, book', late', posted')
  <2> SUFFICES ASSUME c.op = "postOrder"
               PROVE  /\ c.id \in posted /\ PostPlaced(c, book')
                      /\ ~c.doubt => Clear(c, book', late)
    BY <1>2, <1>10 DEF PostOK
  <2>1. c.id \in posted
    BY <1>1, <1>6 DEF CallOK, PostOK
  <2>2. PostPlaced(c, book')
    <3>1. Succeeded(c) => book'[c.id].n = 1
      BY <1>1, <1>3, <1>4, <1>6, <1>11, AppliedOK
    <3> QED
      BY <1>6, <1>10, <1>11, <3>1 DEF PostPlaced
  <2>3. ASSUME ~c.doubt PROVE Clear(c, book', late)
    <3>1. Request(c) = Request(call[t])
      BY <1>6 DEF Request
    <3>2. late[Request(c)] = 0 /\ book[c.id].n = 0
      BY <1>1, <1>2, <1>6, <2>3, <3>1 DEF CallOK, PostOK, Clear, Answered, Returned
    <3>3. a.status \in {"2xx", "5xx"} \/ book' = book
      BY <1>5
    <3> QED
      BY <1>6, <1>10, <3>2, <3>3 DEF Clear
  <2> QED
    BY <2>1, <2>2, <2>3
<1>13. CancelOK(c, book')
  BY <1>1, <1>3, <1>4, <1>6, <1>10, <1>11, AppliedOK DEF CancelOK
<1>14. QueryOK(c, book')
  <2> SUFFICES ASSUME c.op = "query"
               PROVE  /\ Between(c, c.from, book')
                      /\ Succeeded(c) /\ a.body # NoBody => Between(c, a.body, book')
    BY <1>6, <1>10 DEF QueryOK
  <2>1. /\ c.from \in Orders /\ c.id \in Ids
        /\ Age(c.from.state) <= Age(book[c.id].state)
        /\ Age(book[c.id].state) <= Age(book'[c.id].state)
    BY <1>1, <1>2, <1>3, <1>6, <1>8 DEF CallOK, QueryOK, Between, Grown
  <2>2. book[c.id] \in Orders /\ book'[c.id] \in Orders
    BY <1>1, <1>8, <2>1 DEF BookOK
  <2>3. /\ Age(c.from.state) \in Nat /\ Age(book[c.id].state) \in Nat
        /\ Age(book'[c.id].state) \in Nat
    BY <2>1, <2>2, AgeType DEF Orders
  <2> QED
    BY <1>11, <2>1, <2>2, <2>3 DEF Between
<1>15. CallsOK'
  BY <1>6, <1>7, <1>9, <1>12, <1>13, <1>14 DEF CallsOK, CallOK, AnswerOwn
<1>16. OwnIds' /\ Exclusive'
  BY <1>2, <1>6, <1>7 DEF IInv, OwnIds, Exclusive
<1>17. TypeOK'
  BY <1>1, <1>2, <1>7, <1>8 DEF IInv, TypeOK, BookOK, bot, Workers
<1> QED
  BY <1>2, <1>8, <1>15, <1>16, <1>17 DEF IInv

\* A late request that takes effect, or does not: it is no request of a POST that
\* left nothing open.
LEMMA ServeLateIInv ==
    ASSUME IInv, NEW r \in Requests, ServeLate(r), UNCHANGED bot PROVE IInv'
<1>1. /\ call \in [Threads -> Calls] /\ BookOK(book, posted) /\ LateOK(late, posted)
      /\ book \in [Ids -> Orders] /\ late \in [Requests -> Nat]
  BY DEF IInv, TypeOK
<1>2. /\ late[r] > 0 /\ late' = [late EXCEPT ![r] = @ - 1]
      /\ mtx' = mtx /\ call' = call /\ posted' = posted
      /\ book' = book \/ (CanApply(book, r) /\ book' = Applied(book, r))
  BY DEF ServeLate
<1>3. RequestOK(r, posted) /\ r.op \in Ops /\ r.id \in Ids
  BY <1>1, <1>2 DEF LateOK, Requests, Ops
<1>4. /\ late' \in [Requests -> Nat]
      /\ \A q \in Requests : late'[q] <= late[q] /\ (q # r => late'[q] = late[q])
  BY <1>1, <1>2
<1>5. /\ BookOK(book', posted) /\ Grown(book, book')
      /\ \A id \in Ids : ~(r.op = "postOrder" /\ r.id = id) => book'[id].n = book[id].n
  <2>1. CASE book' = book
    BY <1>1, <2>1, GrownRefl
  <2>2. CASE CanApply(book, r) /\ book' = Applied(book, r)
    BY <1>1, <1>3, <2>2, AppliedOK
  <2> QED
    BY <1>2, <2>1, <2>2
<1>6. \A u \in Threads \ {NoThread} : CallOK(call[u], book', late', posted')
  <2>1. ASSUME NEW u \in Threads, call[u].op = "postOrder", ~call[u].doubt,
               ~Returned(call[u])
        PROVE  /\ late'[Request(call[u])] = late[Request(call[u])]
               /\ book'[call[u].id].n = book[call[u].id].n
    <3>1. /\ call[u] \in Calls /\ call[u].id \in Ids /\ Request(call[u]) \in Requests
      BY <1>1, <2>1, RequestFields
    <3>2. late[Request(call[u])] = 0
      BY <2>1 DEF IInv, CallsOK, CallOK, PostOK, Clear
    <3>3. r # Request(call[u])
      BY <1>2, <3>2
    <3>4. ~(r.op = "postOrder" /\ r.id = call[u].id)
      BY <1>3, <2>1, <3>1, <3>3, RequestUnique
    <3> QED
      BY <1>4, <1>5, <3>1, <3>3, <3>4
  <2> QED
    BY <1>2, <1>4, <1>5, <2>1, OthersKept
<1>7. CallsOK'
  BY <1>2, <1>6, ApiAssumption DEF CallsOK
<1>8. LateOK(late, posted)'
  BY <1>1, <1>2, <1>4 DEF LateOK
<1>9. OwnIds' /\ Exclusive'
  BY <1>2 DEF IInv, OwnIds, Exclusive
<1>10. TypeOK'
  BY <1>2, <1>4, <1>5 DEF IInv, TypeOK, BookOK, bot, Workers
<1> QED
  BY <1>2, <1>5, <1>7, <1>8, <1>9, <1>10 DEF IInv

\* An order that is filled, or whose cancel takes effect.
LEMMA EndIInv ==
    ASSUME IInv, NEW id \in Ids, Fill(id) \/ Cancelled(id), UNCHANGED bot PROVE IInv'
<1>1. BookOK(book, posted) /\ book \in [Ids -> Orders]
  BY DEF IInv, TypeOK
<1> PICK end \in {"done", "cancel"} :
           /\ book[id].state \in {"wait", "cancelling"}
           /\ book' = [book EXCEPT ![id].state = end]
           /\ UNCHANGED <<mtx, call, late, posted>>
  BY DEF Fill, Cancelled
<1>2. /\ book[id].state \in {"wait", "cancelling"} /\ book' = [book EXCEPT ![id].state = end]
      /\ UNCHANGED <<mtx, call, late, posted>>
  OBVIOUS
<1>3. /\ book' \in [Ids -> Orders] /\ book'[id].state = end /\ book'[id].n = book[id].n
      /\ \A i \in Ids : i # id => book'[i] = book[i]
  BY <1>1, <1>2 DEF Orders, OrderStates
<1>4. BookOK(book', posted)
  <2>1. \A i \in Ids : OrderOK(book, posted, i)
    BY <1>1 DEF BookOK
  <2>2. OrderOK(book', posted, id)
    BY <1>2, <1>3, <2>1 DEF OrderOK
  <2>3. \A i \in Ids : i # id => OrderOK(book', posted, i)
    BY <1>3, <2>1 DEF OrderOK
  <2> QED
    BY <1>3, <2>2, <2>3 DEF BookOK
<1>5. Grown(book, book') /\ \A i \in Ids : book'[i].n = book[i].n
  BY <1>1, <1>2, <1>3, AgeType DEF Grown, Ending, Age, Orders, OrderStates
<1>6. \A u \in Threads \ {NoThread} : CallOK(call[u], book', late', posted')
  <2>1. \A u \in Threads : call[u].id \in Ids
    BY DEF IInv, TypeOK, Calls
  <2>2. late' \in [Requests -> Nat] /\ late' = late /\ posted' = posted
    BY <1>2 DEF IInv, TypeOK
  <2> QED
    BY <1>4, <1>5, <2>1, <2>2, OthersKept
<1>7. CallsOK'
  BY <1>2, <1>6, ApiAssumption DEF CallsOK
<1>8. OwnIds' /\ Exclusive'
  BY <1>2 DEF IInv, OwnIds, Exclusive
<1>9. TypeOK'
  BY <1>2, <1>3 DEF IInv, TypeOK, bot, Workers
<1> QED
  BY <1>2, <1>4, <1>7, <1>8, <1>9 DEF IInv, LateOK, RequestOK

----------------------------------------------------------------------------
(* New calls *)

\* A thread without a call.
LEMMA IdleOK ==
    /\ Idle \in Calls /\ Idle.op = "query" /\ Idle.pc = "idle" /\ Idle.answer = NoAnswer
    /\ Idle.result = "none"
    /\ \A b, l, p : CallOK(Idle, b, l, p)
<1>1. /\ Idle \in Calls /\ Idle.op = "query" /\ Idle.pc = "idle" /\ Idle.answer = NoAnswer
      /\ Idle.result = "none"
  <2>1. (CHOOSE id \in Ids : TRUE) \in Ids
    BY ApiAssumption
  <2>2. 0 \in 0..MaxAttempts + 1
    BY RestAssumption
  <2> QED
    BY <2>1, <2>2 DEF Idle, Calls, Ops
<1> QED
  BY <1>1 DEF CallOK, PostOK, CancelOK, QueryOK, AnswerOwn, Succeeded, Answered, Returned

\* Everything but the types, which also speak of the workers.
ApiInv == /\ Exclusive /\ BookOK(book, posted) /\ LateOK(late, posted)
          /\ OwnIds /\ CallsOK

ApiTypes == /\ mtx \in Threads \cup {NoThread} /\ call \in [Threads -> Calls]
            /\ late \in [Requests -> Nat] /\ book \in [Ids -> Orders]
            /\ posted \subseteq Ids

\* A call that begins: the identifier of a POST is in no request and no order.
LEMMA BeginInv ==
    ASSUME IInv, NEW t \in Threads, NEW op \in Ops, NEW id \in Ids, Begin(t, op, id)
    PROVE  ApiTypes' /\ ApiInv'
<1> DEFINE c == [Idle EXCEPT !.op = op, !.id = id, !.pc = "lock"]
<1>1. /\ call \in [Threads -> Calls] /\ BookOK(book, posted) /\ LateOK(late, posted)
      /\ book \in [Ids -> Orders] /\ posted \subseteq Ids
  BY DEF IInv, TypeOK
<1>2. /\ call[t].pc = "idle"
      /\ IF op = "postOrder" THEN id \notin posted ELSE id \in posted
      /\ posted' = IF op = "postOrder" THEN posted \cup {id} ELSE posted
      /\ call' = [call EXCEPT ![t] = c] /\ UNCHANGED <<mtx, late, book>>
  BY DEF Begin
<1>3. /\ c \in Calls /\ c.op = op /\ c.id = id /\ c.pc = "lock" /\ c.answer = NoAnswer
  BY IdleOK DEF Calls
<1> HIDE DEF c
<1>4. /\ call' \in [Threads -> Calls] /\ call'[t] = c
      /\ \A u \in Threads : u # t => call'[u] = call[u]
  BY <1>1, <1>2, <1>3
<1>5. /\ posted \subseteq posted' /\ posted' \subseteq Ids
      /\ (op = "postOrder" => id \in posted')
  BY <1>1, <1>2
<1>6. BookOK(book, posted)' /\ LateOK(late, posted)'
  BY <1>1, <1>2, <1>5 DEF BookOK, OrderOK, LateOK, RequestOK
<1>7. OwnIds'
  <2>1. \A u \in Threads : call[u].op = "postOrder" => call[u].id \in posted
    BY DEF IInv, CallsOK, CallOK, PostOK
  <2> QED
    BY <1>2, <1>3, <1>4, <2>1 DEF IInv, OwnIds
<1>8. CallOK(c, book, late, posted')
  <2>1. ~Answered(c) /\ ~Succeeded(c) /\ ~Returned(c)
    BY <1>3 DEF Answered, Succeeded, Returned
  <2>2. op = "postOrder" => late[Request(c)] = 0 /\ book[id].n = 0
    <3> SUFFICES ASSUME op = "postOrder" PROVE late[Request(c)] = 0 /\ book[id].n = 0
      OBVIOUS
    <3>1. Request(c) \in Requests /\ Request(c).op = "postOrder" /\ Request(c).id = id
      BY <1>3, RequestFields
    <3>2. ~(late[Request(c)] > 0) /\ late[Request(c)] \in Nat
      BY <1>1, <1>2, <3>1 DEF LateOK, RequestOK
    <3>3. book[id].n = 0
      BY <1>1, <1>2 DEF BookOK, OrderOK
    <3> QED
      BY <3>2, <3>3
  <2> QED
    BY <1>3, <1>5, <2>1, <2>2 DEF CallOK, PostOK, PostPlaced, Clear, CancelOK, QueryOK,
       AnswerOwn
<1>9. CallsOK'
  <2> SUFFICES ASSUME NEW u \in Threads PROVE CallOK(call'[u], book, late, posted')
    BY <1>2 DEF CallsOK
  <2>1. CASE u = t
    BY <1>4, <1>8, <2>1
  <2>2. CASE u # t
    <3>1. CallOK(call[u], book, late, posted) /\ Grown(book, book)
      BY <1>1, GrownRefl DEF IInv, CallsOK
    <3> QED
      BY <1>1, <1>4, <1>5, <2>2, <3>1, CallKept
  <2> QED
    BY <2>1, <2>2
<1>10. Exclusive'
  BY <1>2, <1>3, <1>4 DEF IInv, Exclusive
<1>11. ApiTypes'
  BY <1>2, <1>4, <1>5 DEF IInv, TypeOK, ApiTypes
<1> QED
  BY <1>6, <1>7, <1>9, <1>10, <1>11 DEF ApiInv

\* A call whose result is used up.
LEMMA ForgetInv ==
    ASSUME IInv, NEW t \in Threads, call[t].pc = "idle",
           call' = [call EXCEPT ![t] = Idle], UNCHANGED <<mtx, late, book, posted>>
    PROVE  ApiTypes' /\ ApiInv'
<1>1. CallOK(Idle, book, late, posted) /\ Idle.op = "query" /\ Idle.pc = "idle"
  BY IdleOK
<1>2. /\ call' \in [Threads -> Calls] /\ call'[t] = Idle
      /\ \A u \in Threads : u # t => call'[u] = call[u]
      /\ OwnIds' /\ CallsOK'
  BY <1>1, OneCall DEF Becomes
<1>3. Exclusive'
  BY <1>1, <1>2 DEF IInv, Exclusive
<1>4. ApiTypes'
  BY <1>2 DEF IInv, TypeOK, ApiTypes
<1> QED
  BY <1>2, <1>3, <1>4 DEF ApiInv, IInv, BookOK, OrderOK, LateOK, RequestOK

----------------------------------------------------------------------------
(* The main thread and the workers *)

BotTypes ==
    /\ phase \in {"construct", "running", "join", "joined", "ended", "exited"}
    /\ stop \subseteq Workers /\ signal \in BOOLEAN
    /\ worker \in [Workers -> [at : {"unstarted", "top", "body", "ended"},
                               left : 0..CallsPerLoop]]

\* The invariant, taken apart.
LEMMA IInvParts == IInv <=> ApiTypes /\ BotTypes /\ ApiInv
BY DEF IInv, TypeOK, ApiTypes, BotTypes, ApiInv

\* A step that makes no call.
LEMMA ApiStays == ASSUME IInv, UNCHANGED api PROVE ApiTypes' /\ ApiInv'
BY DEF IInv, TypeOK, ApiTypes, ApiInv, api, Exclusive, OwnIds, CallsOK, BookOK, OrderOK,
   LateOK, RequestOK

\* The steps of the main thread that are not steps of a call.
LEMMA MainStepIInv == ASSUME IInv, MainStep \/ Signal PROVE IInv'
<1>0. Main \in Threads /\ 0 \in 0..CallsPerLoop
  BY BotAssumption
<1>1. CASE Construct
  <2>1. PICK op \in StartupOps, id \in Ids : Begin(Main, op, id)
    BY <1>1 DEF Construct
  <2>2. op \in Ops
    BY DEF StartupOps, Ops
  <2>3. BotTypes'
    BY <1>1 DEF Construct, bot, IInv, TypeOK, BotTypes, Workers
  <2> QED
    BY <1>0, <2>1, <2>2, <2>3, BeginInv DEF IInv, TypeOK, ApiTypes, BotTypes, ApiInv
<1>2. CASE Start
  <2>1. ApiTypes' /\ ApiInv'
    BY <1>0, <1>2, ForgetInv DEF Start
  <2>2. BotTypes'
    BY <1>0, <1>2 DEF Start, IInv, TypeOK, BotTypes, Workers
  <2> QED
    BY <2>1, <2>2 DEF IInv, TypeOK, ApiTypes, BotTypes, ApiInv
<1>3. CASE ConstructorThrows \/ ExitOnFatal \/ RequestStop \/ Join \/ StopPrivate \/ Signal
  <2>1. UNCHANGED api
    BY <1>3 DEF ConstructorThrows, ExitOnFatal, RequestStop, Join, StopPrivate, Signal
  <2>2. BotTypes'
    BY <1>3 DEF ConstructorThrows, ExitOnFatal, RequestStop, Join, StopPrivate, Signal,
       IInv, TypeOK, BotTypes, Workers
  <2> QED
    BY <2>1, <2>2, ApiStays DEF IInv, TypeOK, ApiTypes, BotTypes, ApiInv
<1> QED
  BY <1>1, <1>2, <1>3 DEF MainStep

\* The steps of a worker that are not steps of a call.
LEMMA WorkerIInv ==
    ASSUME IInv, NEW w \in Workers, Top(w) \/ WorkerCalls(w) \/ BodyEnds(w) PROVE IInv'
<1>0. /\ w \in Threads /\ CallsPerLoop \in Nat
      /\ worker \in [Workers -> [at : {"unstarted", "top", "body", "ended"},
                                 left : 0..CallsPerLoop]]
  BY BotAssumption DEF Workers, IInv, TypeOK
<1>1. CASE Top(w)
  <2>1. BotTypes'
    BY <1>0, <1>1 DEF Top, IInv, TypeOK, BotTypes, Workers
  <2> QED
    BY <1>1, <2>1, ApiStays DEF Top, IInv, TypeOK, ApiTypes, BotTypes, ApiInv
<1>2. CASE WorkerCalls(w)
  <2>1. PICK op \in WorkerOps, id \in Ids : Begin(w, op, id)
    BY <1>2 DEF WorkerCalls
  <2>2. op \in Ops
    BY DEF WorkerOps, Ops
  <2>3. worker[w].left - 1 \in 0..CallsPerLoop
    BY <1>0, <1>2 DEF WorkerCalls
  <2>4. BotTypes'
    BY <1>0, <1>2, <2>3 DEF WorkerCalls, IInv, TypeOK, BotTypes, Workers
  <2> QED
    BY <1>0, <2>1, <2>2, <2>4, BeginInv DEF IInv, TypeOK, ApiTypes, BotTypes, ApiInv
<1>3. CASE BodyEnds(w)
  <2>1. ApiTypes' /\ ApiInv'
    BY <1>0, <1>3, ForgetInv DEF BodyEnds
  <2>2. BotTypes'
    BY <1>0, <1>3 DEF BodyEnds, IInv, TypeOK, BotTypes, Workers
  <2> QED
    BY <2>1, <2>2 DEF IInv, TypeOK, ApiTypes, BotTypes, ApiInv
<1> QED
  BY <1>1, <1>2, <1>3

\* A step of a call.
LEMMA CallStepIInv == ASSUME IInv, NEW t \in Threads, CallStep(t) PROVE IInv'
BY AcquireIInv, RefuseIInv, ConnectFailsIInv, WriteIInv, WriteFailsIInv, ReadFailsIInv,
   ReadResponseIInv DEF CallStep, Step

\* A new process, and orders that an earlier one left.
LEMMA InitIInv == BotInit => IInv
<1> SUFFICES ASSUME BotInit PROVE IInv
  OBVIOUS
<1>1. /\ call = [t \in Threads |-> Idle] /\ mtx = NoThread /\ posted = Leftover
      /\ late = [r \in Requests |-> 0]
      /\ book = [id \in Ids |-> IF id \in Leftover THEN [state |-> "wait", n |-> 1]
                                ELSE [state |-> "none", n |-> 0]]
  BY DEF BotInit, Init
<1>2. ApiTypes
  BY <1>1, IdleOK, ApiAssumption DEF ApiTypes, Orders, OrderStates
<1>3. BotTypes
  <2>1. 0 \in 0..CallsPerLoop
    BY BotAssumption
  <2>2. worker \in [Workers -> [at : {"unstarted", "top", "body", "ended"},
                                left : 0..CallsPerLoop]]
    BY <2>1 DEF BotInit
  <2>3. stop \subseteq Workers /\ signal \in BOOLEAN
    BY DEF BotInit
  <2> QED
    BY <2>2, <2>3 DEF BotInit, BotTypes
<1>4. BookOK(book, posted)
  <2>1. ASSUME NEW id \in Ids PROVE OrderOK(book, posted, id)
    BY <1>1 DEF OrderOK
  <2> QED
    BY <1>2, <2>1 DEF BookOK, ApiTypes
<1>5. LateOK(late, posted)
  BY <1>1, <1>2 DEF LateOK, ApiTypes
<1>6. Exclusive /\ OwnIds /\ CallsOK
  BY <1>1, IdleOK, ApiAssumption DEF Exclusive, OwnIds, CallsOK
<1> QED
  BY <1>2, <1>3, <1>4, <1>5, <1>6, IInvParts DEF ApiInv

\* Each step preserves the invariant.
LEMMA NextIInv == ASSUME IInv, [Next]_vars PROVE IInv'
<1>0. Main \in Threads /\ Workers \subseteq Threads
  BY BotAssumption DEF Workers
<1>1. CASE MainStep \/ Signal
  BY <1>1, MainStepIInv
<1>2. CASE CallStep(Main)
  BY <1>0, <1>2, CallStepIInv
<1>3. ASSUME NEW w \in Workers, WorkerStep(w) PROVE IInv'
  BY <1>0, <1>3, WorkerIInv, CallStepIInv DEF WorkerStep
<1>4. CASE Exchange /\ UNCHANGED bot
  BY <1>4, ServeIInv, ServeLateIInv, EndIInv DEF Exchange
<1>5. CASE UNCHANGED vars
  <2>1. UNCHANGED api /\ UNCHANGED bot
    BY <1>5 DEF vars
  <2>2. BotTypes'
    BY <2>1 DEF bot, IInv, TypeOK, BotTypes, Workers
  <2> QED
    BY <2>1, <2>2, ApiStays DEF IInv, TypeOK, ApiTypes, BotTypes, ApiInv
<1> QED
  BY <1>1, <1>2, <1>3, <1>4, <1>5 DEF Next

\* The invariant gives each property the run checks.
LEMMA IInvImplies == IInv => PlacedAtMostOnce /\ ResultTrue /\ AnswerFresh
<1> SUFFICES ASSUME IInv PROVE PlacedAtMostOnce /\ ResultTrue /\ AnswerFresh
  OBVIOUS
<1>1. PlacedAtMostOnce
  <2>1. \A id \in Ids : book[id].n \in {0, 1}
    BY DEF IInv, BookOK, OrderOK
  <2> QED
    BY <2>1 DEF PlacedAtMostOnce
<1>2. ASSUME NEW t \in Threads PROVE CallOK(call[t], book, late, posted)
  BY DEF IInv, CallsOK
<1>3. ResultTrue
  BY <1>2 DEF ResultTrue, Finished, CallOK, PostOK, PostPlaced, Clear, CancelOK, Returned,
     Answered, Ending
<1>4. AnswerFresh
  BY <1>2 DEF AnswerFresh, Finished, CallOK, QueryOK, Between, Returned
<1> QED
  BY <1>1, <1>3, <1>4

----------------------------------------------------------------------------
(* The theorems *)

\* The invariant holds throughout.
LEMMA AlwaysIInv == Spec => []IInv
BY InitIInv, NextIInv, PTL DEF Spec

\* The variables keep their types: in particular perform never exceeds its number
\* of attempts, and no late request is taken twice.
THEOREM BotTypeCorrect == Spec => []TypeOK
<1>1. IInv => TypeOK
  BY DEF IInv
<1> QED
  BY <1>1, AlwaysIInv, PTL

\* mtx_ serialises the calls: no two threads are between their lock and their
\* return, through all retries and backoffs.
THEOREM CallsSerialised ==
    Spec => [](\A t, u \in Threads :
                   call[t].pc \in {"try", "read"} /\ call[u].pc \in {"try", "read"} => t = u)
<1>1. IInv => \A t, u \in Threads :
                  call[t].pc \in {"try", "read"} /\ call[u].pc \in {"try", "read"} => t = u
  BY DEF IInv, Exclusive
<1> QED
  BY <1>1, AlwaysIInv, PTL

\* An order is placed once, however often its POST is repeated and in whatever
\* order the attempts reach the exchange, for any retry policy.
THEOREM OrderPlacedOnce == Spec => []PlacedAtMostOnce
BY AlwaysIInv, IInvImplies, PTL

\* What a call reports of an order is true when it is reported and stays true: a
\* uuid, a cancel that was accepted, and an error that leaves nothing open.
THEOREM ReportsTrue == Spec => []ResultTrue
BY AlwaysIInv, IInvImplies, PTL

\* A query returns no state older than its last attempt.
THEOREM QueriesFresh == Spec => []AnswerFresh
BY AlwaysIInv, IInvImplies, PTL

============================================================================
