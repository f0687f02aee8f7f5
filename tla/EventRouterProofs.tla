------------------------- MODULE EventRouterProofs -------------------------
(***************************************************************************)
(* The router's invariants for any markets, messages, queue capacity and   *)
(* number of messages.  The worker of a market sees its history handled,   *)
(* its queue and the set of all that was pushed; ChannelOK relates the     *)
(* three, and a push, a pop and a message of another market each keep it.  *)
(***************************************************************************)
EXTENDS EventRouter, FiniteSetTheorems, TLAPS

Holds(s, x) == \E i \in 1..Len(s) : s[i] = x

Increasing(s) == \A i, j \in 1..Len(s) : i < j => s[i].n < s[j].n

Before(s, t) == \A i \in 1..Len(s), j \in 1..Len(t) : s[i].n < t[j].n

Newer(r, x) == {y \in r : y.n > x.n}

\* x was dropped: all that is queued is newer, and it had Capacity behind it.
Dropped(q, r, x) ==
    /\ \A j \in 1..Len(q) : x.n < q[j].n
    /\ Cardinality(Newer(r, x)) >= Capacity

\* h: handled, q: queued, r: pushed, n: messages received so far.
ChannelTypes(h, q, r, n) ==
    /\ h \in Seq(Entry) /\ q \in Seq(Entry) /\ r \in SUBSET Entry
    /\ IsFiniteSet(r) /\ n \in 0..MaxMessages /\ Len(q) <= Capacity

Accounted(h, q, r) ==
    /\ \A i \in 1..Len(h) : h[i] \in r
    /\ \A i \in 1..Len(q) : q[i] \in r
    /\ \A x \in r : Holds(h, x) \/ Holds(q, x) \/ Dropped(q, r, x)

ChannelOK(h, q, r, n) ==
    /\ ChannelTypes(h, q, r, n)
    /\ \A x \in r : x.n <= n
    /\ Increasing(h) /\ Increasing(q) /\ Before(h, q)
    /\ Accounted(h, q, r)

Home(m, msg) ==
    \/ {msg.code, msg.market} \subseteq {m, ""}
    \/ \E key \in Keys : Found(msg) = {key} /\ msg[key] = m

IInv ==
    /\ TypeOK
    /\ \A m \in Markets : ChannelOK(handled[m], queue[m], routed[m], received)
    /\ \A m \in Markets : \A x \in routed[m] : Home(m, x.msg)

----------------------------------------------------------------------------
(* One channel *)

\* The numeric assumptions, without the one about names.
LEMMA Bounds ==
    Capacity \in Nat \ {0} /\ MaxMessages \in Nat
BY RouterAssumption

\* Entries are numbered.
LEMMA EntryNumber ==
    ASSUME NEW x \in Entry PROVE x.n \in Int /\ x.n \in 1..MaxMessages
BY Bounds DEF Entry

\* The queue without its oldest entry.
LEMMA TailFields ==
    ASSUME NEW q \in Seq(Entry), q # <<>>
    PROVE  /\ Tail(q) \in Seq(Entry) /\ Len(q) >= 1 /\ Len(Tail(q)) = Len(q) - 1
           /\ \A i \in 1..Len(Tail(q)) :
                 i + 1 \in 1..Len(q) /\ 1 < i + 1 /\ Tail(q)[i] = q[i + 1]
OBVIOUS

\* A sequence whose numbers increase has as many members as places.
LEMMA IncreasingCardinality ==
    ASSUME NEW q \in Seq(Entry), Increasing(q)
    PROVE  /\ IsFiniteSet({q[i] : i \in 1..Len(q)})
           /\ Cardinality({q[i] : i \in 1..Len(q)}) = Len(q)
<1> DEFINE S == {q[i] : i \in 1..Len(q)}
<1>1. Len(q) \in Nat
  OBVIOUS
<1>2. q \in [1..Len(q) -> S]
  OBVIOUS
<1>3. \A i \in 1..Len(q) : q[i].n \in Int
  BY EntryNumber
<1>4. \A i, j \in 1..Len(q) : q[i] = q[j] => i = j
  BY <1>1, <1>3 DEF Increasing
<1>5. \A x \in S : \E i \in 1..Len(q) : q[i] = x
  OBVIOUS
<1> HIDE DEF S
<1>6. q \in Bijection(1..Len(q), S)
  BY <1>2, <1>4, <1>5 DEF Bijection, Injection, Surjection, IsInjective
<1>7. IsFiniteSet(S) /\ Cardinality(S) = Len(q)
  <2>1. ExistsBijection(1..Len(q), S)
    BY <1>6 DEF ExistsBijection
  <2> QED
    BY <1>1, <2>1, FS_CountingElements, FS_NatBijection
<1> QED
  BY <1>7 DEF S

\* What was dropped stays dropped when more is pushed.
LEMMA NewerGrows ==
    ASSUME NEW r, NEW r2, IsFiniteSet(r2), r \subseteq r2, NEW x,
           Cardinality(Newer(r, x)) >= Capacity
    PROVE  Cardinality(Newer(r2, x)) >= Capacity
<1>1. Newer(r, x) \subseteq Newer(r2, x) /\ Newer(r2, x) \subseteq r2
  BY DEF Newer
<1>2. IsFiniteSet(Newer(r2, x)) /\ IsFiniteSet(Newer(r, x))
  BY <1>1, FS_Subset
<1>3. Cardinality(Newer(r, x)) <= Cardinality(Newer(r2, x))
  BY <1>1, <1>2, FS_Subset
<1>4. Cardinality(Newer(r, x)) \in Nat /\ Cardinality(Newer(r2, x)) \in Nat
  BY <1>2, FS_CardinalityType
<1> QED
  BY <1>3, <1>4, Bounds

\* A message of another market, or of none.
LEMMA PassOK ==
    ASSUME NEW h, NEW q, NEW r, NEW n, ChannelOK(h, q, r, n), n < MaxMessages
    PROVE  ChannelOK(h, q, r, n + 1)
<1>1. n \in Nat /\ n + 1 \in 0..MaxMessages
  BY Bounds DEF ChannelOK, ChannelTypes
<1>2. \A x \in r : x.n \in Int /\ x.n <= n + 1
  BY <1>1 DEF ChannelOK, ChannelTypes, Entry
<1> QED
  BY <1>1, <1>2 DEF ChannelOK, ChannelTypes

\* push: the queue is cut to make room, then the message appended.
LEMMA PushOK ==
    ASSUME NEW h, NEW q, NEW r, NEW n, ChannelOK(h, q, r, n), n < MaxMessages,
           NEW x \in Entry, x.n = n + 1
    PROVE  ChannelOK(h, Push(q, x), r \cup {x}, n + 1)
<1> DEFINE c == IF Len(q) >= Capacity THEN Tail(q) ELSE q
           p == Append(c, x)
           r2 == r \cup {x}
<1>1. /\ h \in Seq(Entry) /\ q \in Seq(Entry) /\ r \in SUBSET Entry /\ IsFiniteSet(r)
      /\ n \in Nat /\ n + 1 \in 0..MaxMessages /\ Len(q) <= Capacity /\ Len(q) \in Nat
      /\ Capacity \in Nat /\ Capacity >= 1
  BY Bounds DEF ChannelOK, ChannelTypes
<1>2. Push(q, x) = p
  BY DEF Push
<1>3. \A y \in r : y.n \in Nat /\ y.n < x.n
  BY <1>1 DEF ChannelOK, Entry
<1>4. IsFiniteSet(r2) /\ r2 \in SUBSET Entry /\ r \subseteq r2 /\ x \in r2
  BY <1>1, FS_AddElement
<1>5. \A y \in r2 : y.n <= n + 1
  BY <1>1, <1>3
\* d is the number of entries dropped.
<1> DEFINE d == IF Len(q) >= Capacity THEN 1 ELSE 0
<1>6. /\ c \in Seq(Entry) /\ Len(c) = Len(q) - d /\ Len(c) < Capacity /\ Len(c) \in Nat
      /\ \A i \in 1..Len(c) : i + d \in 1..Len(q) /\ c[i] = q[i + d]
  <2>1. CASE Len(q) >= Capacity
    <3>1. c = Tail(q) /\ d = 1 /\ q # <<>> /\ Len(q) >= 1
      BY <1>1, <2>1
    <3>2. /\ Tail(q) \in Seq(Entry) /\ Len(Tail(q)) = Len(q) - 1
          /\ \A i \in 1..Len(Tail(q)) : i + 1 \in 1..Len(q) /\ Tail(q)[i] = q[i + 1]
      BY <1>1, <3>1, TailFields
    <3> HIDE DEF c, d
    <3> QED
      BY <1>1, <2>1, <3>1, <3>2
  <2>2. CASE ~(Len(q) >= Capacity)
    BY <1>1, <2>2
  <2> QED
    BY <2>1, <2>2
<1>7. d \in {0, 1}
  OBVIOUS
<1>8. d = 1 => Len(q) = Capacity /\ Len(q) >= 1
  BY <1>1
<1> HIDE DEF c, d
<1>9. /\ p \in Seq(Entry) /\ Len(p) = Len(c) + 1 /\ p[Len(c) + 1] = x
      /\ \A i \in 1..Len(c) : p[i] = c[i]
      /\ Len(p) <= Capacity
  BY <1>1, <1>6
<1> HIDE DEF p, r2
<1>10. \A i \in 1..Len(p) : i = Len(c) + 1 \/ i \in 1..Len(c)
  BY <1>6, <1>9
<1>11. /\ \A i \in 1..Len(h) : h[i] \in r
       /\ \A i \in 1..Len(q) : q[i] \in r
       /\ \A y \in r : Holds(h, y) \/ Holds(q, y) \/ Dropped(q, r, y)
  BY DEF ChannelOK, Accounted
<1>12. \A i \in 1..Len(c) : c[i] \in r /\ p[i] \in r
  BY <1>6, <1>9, <1>11
<1>13. ChannelTypes(h, p, r2, n + 1)
  BY <1>1, <1>4, <1>9 DEF ChannelTypes
<1>14. Increasing(p)
  <2> SUFFICES ASSUME NEW i \in 1..Len(p), NEW j \in 1..Len(p), i < j
               PROVE  p[i].n < p[j].n
    BY DEF Increasing
  <2>1. i \in 1..Len(c)
    BY <1>6, <1>9
  <2>2. CASE j = Len(c) + 1
    BY <1>3, <1>9, <1>12, <2>1, <2>2
  <2>3. CASE j \in 1..Len(c)
    <3>1. p[i] = q[i + d] /\ p[j] = q[j + d] /\ i + d < j + d
      BY <1>6, <1>7, <1>9, <2>1, <2>3
    <3>2. i + d \in 1..Len(q) /\ j + d \in 1..Len(q)
      BY <1>6, <2>1, <2>3
    <3> QED
      BY <3>1, <3>2 DEF ChannelOK, Increasing
  <2> QED
    BY <1>10, <2>2, <2>3
<1>15. Before(h, p)
  <2> SUFFICES ASSUME NEW i \in 1..Len(h), NEW j \in 1..Len(p)
               PROVE  h[i].n < p[j].n
    BY DEF Before
  <2>1. CASE j = Len(c) + 1
    BY <1>3, <1>9, <1>11, <2>1
  <2>2. CASE j \in 1..Len(c)
    BY <1>6, <1>9, <2>2 DEF ChannelOK, Before
  <2> QED
    BY <1>10, <2>1, <2>2
<1>16. Accounted(h, p, r2)
  <2>1. \A i \in 1..Len(h) : h[i] \in r2
    BY <1>4, <1>11
  <2>2. \A i \in 1..Len(p) : p[i] \in r2
    BY <1>4, <1>9, <1>10, <1>12
  <2>3. ASSUME NEW y \in r2 PROVE Holds(h, y) \/ Holds(p, y) \/ Dropped(p, r2, y)
    <3>1. CASE y \notin r
      <4>1. y = x
        BY <2>3, <3>1 DEF r2
      <4>2. Len(c) + 1 \in 1..Len(p)
        BY <1>6, <1>9
      <4> QED
        BY <1>9, <4>1, <4>2 DEF Holds
    <3>2. CASE y \in r /\ Holds(h, y)
      BY <3>2
    <3>3. CASE y \in r /\ Holds(q, y)
      <4>1. PICK k \in 1..Len(q) : q[k] = y
        BY <3>3 DEF Holds
      <4>2. CASE k - d \in 1..Len(c)
        <5>1. k - d \in 1..Len(p) /\ p[k - d] = y
          BY <1>6, <1>7, <1>9, <4>1, <4>2
        <5> QED
          BY <5>1 DEF Holds
      <4>3. CASE k - d \notin 1..Len(c)
        <5>1. d = 1 /\ k = 1
          BY <1>1, <1>6, <1>7, <4>1, <4>3
        <5>2. \A j \in 1..Len(p) : y.n < p[j].n
          <6> SUFFICES ASSUME NEW j \in 1..Len(p) PROVE y.n < p[j].n
            OBVIOUS
          <6>1. CASE j = Len(c) + 1
            BY <1>3, <1>9, <3>3, <6>1
          <6>2. CASE j \in 1..Len(c)
            <7>1. j + 1 \in 1..Len(q) /\ p[j] = q[j + 1] /\ 1 < j + 1
              BY <1>6, <1>9, <5>1, <6>2
            <7> QED
              BY <4>1, <5>1, <7>1 DEF ChannelOK, Increasing
          <6> QED
            BY <1>10, <6>1, <6>2
        <5>3. Cardinality(Newer(r2, y)) >= Capacity
          <6> DEFINE S == {p[i] : i \in 1..Len(p)}
          <6>1. IsFiniteSet(S) /\ Cardinality(S) = Len(p)
            BY <1>9, <1>14, IncreasingCardinality
          <6>2. Len(p) = Capacity
            BY <1>1, <1>6, <1>8, <1>9, <5>1
          <6>3. S \subseteq Newer(r2, y)
            <7> SUFFICES ASSUME NEW j \in 1..Len(p) PROVE p[j] \in Newer(r2, y)
              OBVIOUS
            <7>1. p[j] \in r2 /\ y.n < p[j].n /\ p[j].n \in Int /\ y.n \in Int
              BY <1>3, <1>4, <2>2, <3>3, <5>2 DEF Entry
            <7> QED
              BY <7>1 DEF Newer
          <6> HIDE DEF S
          <6>4. Newer(r2, y) \subseteq r2 /\ IsFiniteSet(Newer(r2, y))
            BY <1>4, FS_Subset DEF Newer
          <6>5. Cardinality(S) <= Cardinality(Newer(r2, y))
            BY <6>3, <6>4, FS_Subset
          <6> QED
            BY <6>1, <6>2, <6>5
        <5> QED
          BY <5>2, <5>3 DEF Dropped
      <4> QED
        BY <4>2, <4>3
    <3>4. CASE y \in r /\ Dropped(q, r, y)
      <4>1. \A j \in 1..Len(p) : y.n < p[j].n
        <5> SUFFICES ASSUME NEW j \in 1..Len(p) PROVE y.n < p[j].n
          OBVIOUS
        <5>1. CASE j = Len(c) + 1
          BY <1>3, <1>9, <3>4, <5>1
        <5>2. CASE j \in 1..Len(c)
          BY <1>6, <1>9, <3>4, <5>2 DEF Dropped
        <5> QED
          BY <1>10, <5>1, <5>2
      <4>2. Cardinality(Newer(r2, y)) >= Capacity
        BY <1>4, <3>4, NewerGrows DEF Dropped
      <4> QED
        BY <4>1, <4>2 DEF Dropped
    <3> QED
      BY <1>11, <3>1, <3>2, <3>3, <3>4
  <2> QED
    BY <2>1, <2>2, <2>3 DEF Accounted
<1>17. Increasing(h)
  BY DEF ChannelOK
<1> QED
  BY <1>2, <1>5, <1>13, <1>14, <1>15, <1>16, <1>17 DEF ChannelOK, r2

\* pop_for: the worker takes the oldest entry.
LEMMA PopOK ==
    ASSUME NEW h, NEW q, NEW r, NEW n, ChannelOK(h, q, r, n), q # <<>>
    PROVE  ChannelOK(Append(h, Head(q)), Tail(q), r, n)
<1> DEFINE a == Append(h, Head(q))
           t == Tail(q)
<1>1. /\ h \in Seq(Entry) /\ q \in Seq(Entry) /\ Len(q) \in Nat /\ Len(q) >= 1
      /\ Len(h) \in Nat /\ Len(q) <= Capacity /\ Capacity \in Nat
  BY Bounds DEF ChannelOK, ChannelTypes
<1>2. /\ t \in Seq(Entry) /\ Len(t) = Len(q) - 1 /\ Len(t) \in Nat
      /\ \A i \in 1..Len(t) : i + 1 \in 1..Len(q) /\ 1 < i + 1 /\ t[i] = q[i + 1]
  BY <1>1
<1>3. Head(q) = q[1] /\ 1 \in 1..Len(q) /\ q[1] \in Entry
  BY <1>1
<1>4. /\ a \in Seq(Entry) /\ Len(a) = Len(h) + 1 /\ a[Len(h) + 1] = q[1]
      /\ \A i \in 1..Len(h) : a[i] = h[i]
  BY <1>1, <1>3
<1> HIDE DEF a, t
<1>5. \A i \in 1..Len(a) : i = Len(h) + 1 \/ i \in 1..Len(h)
  BY <1>1, <1>4
<1>6. /\ \A i, j \in 1..Len(q) : i < j => q[i].n < q[j].n
      /\ \A i, j \in 1..Len(h) : i < j => h[i].n < h[j].n
      /\ \A i \in 1..Len(h), j \in 1..Len(q) : h[i].n < q[j].n
      /\ \A i \in 1..Len(h) : h[i] \in r
      /\ \A i \in 1..Len(q) : q[i] \in r
      /\ \A y \in r : Holds(h, y) \/ Holds(q, y) \/ Dropped(q, r, y)
  BY DEF ChannelOK, Increasing, Before, Accounted
<1>7. ChannelTypes(a, t, r, n)
  BY <1>1, <1>2, <1>4 DEF ChannelOK, ChannelTypes
<1>8. Increasing(a)
  <2> SUFFICES ASSUME NEW i \in 1..Len(a), NEW j \in 1..Len(a), i < j
               PROVE  a[i].n < a[j].n
    BY DEF Increasing
  <2>1. i \in 1..Len(h)
    BY <1>1, <1>4
  <2> QED
    BY <1>3, <1>4, <1>5, <1>6, <2>1
<1>9. Increasing(t)
  <2> SUFFICES ASSUME NEW i \in 1..Len(t), NEW j \in 1..Len(t), i < j
               PROVE  t[i].n < t[j].n
    BY DEF Increasing
  <2>1. i + 1 < j + 1
    BY <1>2
  <2> QED
    BY <1>2, <1>6, <2>1
<1>10. Before(a, t)
  <2> SUFFICES ASSUME NEW i \in 1..Len(a), NEW j \in 1..Len(t)
               PROVE  a[i].n < t[j].n
    BY DEF Before
  <2> QED
    BY <1>2, <1>3, <1>4, <1>5, <1>6
<1>11. Accounted(a, t, r)
  <2>1. \A i \in 1..Len(a) : a[i] \in r
    BY <1>3, <1>4, <1>5, <1>6
  <2>2. \A i \in 1..Len(t) : t[i] \in r
    BY <1>2, <1>6
  <2>3. ASSUME NEW y \in r PROVE Holds(a, y) \/ Holds(t, y) \/ Dropped(t, r, y)
    <3>1. CASE Holds(h, y)
      <4>1. \A i \in 1..Len(h) : i \in 1..Len(a)
        BY <1>1, <1>4
      <4> QED
        BY <1>4, <3>1, <4>1 DEF Holds
    <3>2. CASE Holds(q, y)
      <4>1. PICK k \in 1..Len(q) : q[k] = y
        BY <3>2 DEF Holds
      <4>2. CASE k = 1
        <5>1. Len(h) + 1 \in 1..Len(a)
          BY <1>1, <1>4
        <5> QED
          BY <1>4, <4>1, <4>2, <5>1 DEF Holds
      <4>3. CASE k # 1
        <5>1. k - 1 \in 1..Len(t) /\ t[k - 1] = y
          BY <1>1, <1>2, <4>1, <4>3
        <5> QED
          BY <5>1 DEF Holds
      <4> QED
        BY <4>2, <4>3
    <3>3. CASE Dropped(q, r, y)
      BY <1>2, <3>3 DEF Dropped
    <3> QED
      BY <1>6, <3>1, <3>2, <3>3
  <2> QED
    BY <2>1, <2>2, <2>3 DEF Accounted
<1> QED
  BY <1>7, <1>8, <1>9, <1>10, <1>11 DEF ChannelOK, a, t

----------------------------------------------------------------------------
(* Routing *)

\* The market a message is routed to is the only one it names, or the only one
\* the fast path finds.
LEMMA KeyIsHome ==
    ASSUME NEW msg, NEW m \in Markets, MarketKey(msg) = m
    PROVE  Home(m, msg)
<1> DEFINE c == ExtractStringValue(msg, "code")
           k == ExtractStringValue(msg, "market")
<1>1. m # ""
  BY RouterAssumption, Zenon
<1>2. /\ ExtractMarketFast(msg).had_conflict = Conflict(c, k)
      /\ ExtractMarketFast(msg).market = Named(c, k)
  BY DEF ExtractMarketFast
<1>3. /\ c \in {"", msg.code} /\ k \in {"", msg.market}
  BY Zenon DEF ExtractStringValue
<1>4. Found(msg) = {key \in {"code", "market"} : ExtractStringValue(msg, key) # ""}
  BY DEF Found, Keys
<1> HIDE DEF c, k
<1>5. ~Conflict(c, k)
  BY <1>1, <1>2, Zenon DEF MarketKey
<1>6. CASE c # "" /\ k # ""
  <2>1. m = c /\ c = k
    BY <1>2, <1>5, <1>6, Zenon DEF MarketKey, Named, Conflict
  <2>2. m = msg.code /\ m = msg.market
    BY <1>3, <1>6, <2>1, Zenon
  <2> QED
    BY <2>2, Zenon DEF Home
<1>7. CASE c # "" /\ k = ""
  <2>1. m = c
    BY <1>2, <1>5, <1>7, Zenon DEF MarketKey, Named
  <2>2. m = msg["code"]
    BY <1>3, <1>7, <2>1
  <2>3. Found(msg) = {"code"}
    BY <1>4, <1>7 DEF c, k
  <2> QED
    BY <2>2, <2>3 DEF Home, Keys
<1>8. CASE c = "" /\ k # ""
  <2>1. m = k
    BY <1>2, <1>5, <1>8, Zenon DEF MarketKey, Named
  <2>2. m = msg["market"]
    BY <1>3, <1>8, <2>1
  <2>3. Found(msg) = {"market"}
    BY <1>4, <1>8 DEF c, k
  <2> QED
    BY <2>2, <2>3 DEF Home, Keys
<1>9. CASE c = "" /\ k = ""
  <2>1. Named(c, k) = ""
    BY <1>9, Zenon DEF Named
  <2>2. m = ExtractMarketSlow(msg)
    BY <1>2, <1>5, <2>1, Zenon DEF MarketKey
  <2>3. ~Conflict(msg.code, msg.market) /\ m = Named(msg.code, msg.market)
    BY <1>1, <2>2, Zenon DEF ExtractMarketSlow
  <2>4. CASE msg.code # ""
    BY <2>3, <2>4, Zenon DEF Named, Conflict, Home
  <2>5. CASE msg.code = ""
    BY <2>3, <2>5, Zenon DEF Named, Home
  <2> QED
    BY <2>4, <2>5
<1> QED
  BY <1>6, <1>7, <1>8, <1>9

----------------------------------------------------------------------------
(* The inductive invariant *)

\* Empty queues.
LEMMA InitIInv == Init => IInv
<1> SUFFICES ASSUME Init PROVE IInv
  OBVIOUS
<1>1. \A m \in Markets : handled[m] = <<>> /\ queue[m] = <<>> /\ routed[m] = {}
  BY DEF Init
<1>2. TypeOK
  BY <1>1, Bounds DEF Init, TypeOK
<1>3. ASSUME NEW m \in Markets
      PROVE  ChannelOK(handled[m], queue[m], routed[m], received)
  <2>1. ChannelTypes(<<>>, <<>>, {}, 0)
    BY Bounds, FS_EmptySet DEF ChannelTypes
  <2>2. ChannelOK(<<>>, <<>>, {}, 0)
    BY <2>1 DEF ChannelOK, Increasing, Before, Accounted
  <2> QED
    BY <1>1, <2>2 DEF Init
<1>4. \A m \in Markets : \A x \in routed[m] : Home(m, x.msg)
  BY <1>1
<1> QED
  BY <1>2, <1>3, <1>4 DEF IInv

\* Channels of the right types make the state well typed.
LEMMA ChannelsTyped ==
    ASSUME NEW h, NEW q, NEW r, NEW n \in 0..MaxMessages,
           DOMAIN h = Markets, h = [m \in Markets |-> h[m]],
           q = [m \in Markets |-> q[m]], r = [m \in Markets |-> r[m]],
           \A m \in Markets : ChannelOK(h[m], q[m], r[m], n)
    PROVE  /\ q \in [Markets -> Seq(Entry)]
           /\ \A m \in Markets : Len(q[m]) <= Capacity
           /\ h \in [Markets -> Seq(Entry)]
           /\ r \in [Markets -> SUBSET Entry]
BY DEF ChannelOK, ChannelTypes

\* A message is received: pushed to its market's queue or ignored.
LEMMA RouteIInv ==
    ASSUME IInv, NEW msg \in Messages, Route(msg)
    PROVE  IInv'
<1> DEFINE k == MarketKey(msg)
           x == [n |-> received + 1, msg |-> msg]
<1>1. /\ received \in 0..MaxMessages /\ received \in Nat /\ received < MaxMessages
      /\ received' = received + 1 /\ handled' = handled
      /\ queue \in [Markets -> Seq(Entry)] /\ handled \in [Markets -> Seq(Entry)]
      /\ routed \in [Markets -> SUBSET Entry]
  BY Bounds DEF IInv, TypeOK, Route
<1>2. x \in Entry /\ x.n = received + 1 /\ x.msg = msg
  BY <1>1, Bounds DEF Entry
<1>3. received' \in 0..MaxMessages
  BY <1>1, Bounds
<1>4. CASE k \in Markets
  <2>1. /\ queue' = [queue EXCEPT ![k] = Push(queue[k], x)]
        /\ routed' = [routed EXCEPT ![k] = routed[k] \cup {x}]
    BY <1>4 DEF Route
  <2>2. Home(k, msg)
    BY <1>4, KeyIsHome
  <2> HIDE DEF k, x
  <2>3. ASSUME NEW m \in Markets
        PROVE  /\ ChannelOK(handled'[m], queue'[m], routed'[m], received')
               /\ \A y \in routed'[m] : Home(m, y.msg)
    <3>1. ChannelOK(handled[m], queue[m], routed[m], received)
      BY DEF IInv
    <3>2. \A y \in routed[m] : Home(m, y.msg)
      BY DEF IInv
    <3>3. CASE m = k
      <4>1. queue'[m] = Push(queue[m], x) /\ routed'[m] = routed[m] \cup {x}
        BY <1>1, <1>4, <2>1, <3>3
      <4> QED
        BY <1>1, <1>2, <2>2, <3>1, <3>2, <3>3, <4>1, PushOK
    <3>4. CASE m # k
      <4>1. queue'[m] = queue[m] /\ routed'[m] = routed[m]
        BY <1>1, <2>1, <3>4
      <4> QED
        BY <1>1, <3>1, <3>2, <4>1, PassOK
    <3> QED
      BY <3>3, <3>4
  <2>4. /\ queue' = [m \in Markets |-> queue'[m]]
        /\ routed' = [m \in Markets |-> routed'[m]]
        /\ handled' = [m \in Markets |-> handled'[m]] /\ DOMAIN handled' = Markets
    BY <1>1, <2>1
  <2>5. TypeOK'
    BY <1>3, <2>3, <2>4, ChannelsTyped DEF TypeOK
  <2> QED
    BY <2>3, <2>5 DEF IInv
<1>5. CASE k \notin Markets
  <2>1. queue' = queue /\ routed' = routed
    BY <1>5 DEF Route
  <2>2. TypeOK'
    BY <1>1, <1>3, <2>1 DEF IInv, TypeOK
  <2>3. \A m \in Markets : ChannelOK(handled[m], queue[m], routed[m], received + 1)
    BY <1>1, PassOK DEF IInv
  <2> QED
    BY <1>1, <2>1, <2>2, <2>3 DEF IInv
<1> QED
  BY <1>4, <1>5

\* A worker takes its oldest entry.
LEMMA PopIInv ==
    ASSUME IInv, NEW m \in Markets, PopFor(m)
    PROVE  IInv'
<1>1. /\ received \in 0..MaxMessages /\ received' = received /\ routed' = routed
      /\ queue \in [Markets -> Seq(Entry)] /\ handled \in [Markets -> Seq(Entry)]
      /\ routed \in [Markets -> SUBSET Entry] /\ queue[m] # <<>>
      /\ queue' = [queue EXCEPT ![m] = Tail(queue[m])]
      /\ handled' = [handled EXCEPT ![m] = Append(handled[m], Head(queue[m]))]
  BY DEF IInv, TypeOK, PopFor
<1>2. ASSUME NEW k \in Markets
      PROVE  ChannelOK(handled'[k], queue'[k], routed'[k], received')
  <2>1. ChannelOK(handled[k], queue[k], routed[k], received)
    BY DEF IInv
  <2>2. CASE k = m
    <3>1. /\ queue'[k] = Tail(queue[k])
          /\ handled'[k] = Append(handled[k], Head(queue[k]))
      BY <1>1, <2>2
    <3> QED
      BY <1>1, <2>1, <2>2, <3>1, PopOK
  <2>3. CASE k # m
    <3>1. queue'[k] = queue[k] /\ handled'[k] = handled[k]
      BY <1>1, <2>3
    <3> QED
      BY <1>1, <2>1, <3>1
  <2> QED
    BY <2>2, <2>3
<1>3. /\ queue' = [k \in Markets |-> queue'[k]]
      /\ routed' = [k \in Markets |-> routed'[k]]
      /\ handled' = [k \in Markets |-> handled'[k]] /\ DOMAIN handled' = Markets
  BY <1>1
<1>4. TypeOK'
  <2>1. received' \in 0..MaxMessages
    BY <1>1
  <2>2. \A k \in Markets : ChannelOK(handled'[k], queue'[k], routed'[k], received')
    BY <1>2
  <2>3. /\ queue' \in [Markets -> Seq(Entry)]
        /\ \A k \in Markets : Len(queue'[k]) <= Capacity
        /\ handled' \in [Markets -> Seq(Entry)]
        /\ routed' \in [Markets -> SUBSET Entry]
    BY <1>3, <2>1, <2>2, ChannelsTyped
  <2> QED
    BY <2>1, <2>3 DEF TypeOK
<1>5. \A k \in Markets : \A x \in routed'[k] : Home(k, x.msg)
  BY <1>1 DEF IInv
<1> QED
  BY <1>2, <1>4, <1>5 DEF IInv

\* IInv holds whatever the streams deliver and however slow a worker is.
THEOREM RouterInvariant == Spec => []IInv
<1>1. Init => IInv
  BY InitIInv
<1>2. IInv /\ [Next]_vars => IInv'
  <2> SUFFICES ASSUME IInv, [Next]_vars PROVE IInv'
    OBVIOUS
  <2>1. CASE \E msg \in Messages : Route(msg)
    BY <2>1, RouteIInv
  <2>2. CASE \E m \in Markets : PopFor(m)
    BY <2>2, PopIInv
  <2>3. CASE UNCHANGED vars
    BY <2>3 DEF vars, IInv, TypeOK
  <2> QED
    BY <2>1, <2>2, <2>3 DEF Next
<1> QED
  BY <1>1, <1>2, PTL DEF Spec

\* The members of handled and queue together.
LEMMA AllFields ==
    ASSUME NEW h \in Seq(Entry), NEW q \in Seq(Entry)
    PROVE  LET all == h \o q
           IN  /\ all \in Seq(Entry) /\ DOMAIN all = 1..(Len(h) + Len(q))
               /\ \A i \in DOMAIN all :
                    IF i <= Len(h) THEN i \in 1..Len(h) /\ all[i] = h[i]
                    ELSE i - Len(h) \in 1..Len(q) /\ all[i] = q[i - Len(h)]
               /\ \A x : Holds(h, x) \/ Holds(q, x) => x \in ToSet(all)
<1> DEFINE all == h \o q
<1>1. Len(h) \in Nat /\ Len(q) \in Nat
  OBVIOUS
<1>2. all \in Seq(Entry) /\ Len(all) = Len(h) + Len(q)
  OBVIOUS
<1>3. DOMAIN all = 1..(Len(h) + Len(q))
  BY <1>2
<1>4. \A i \in 1..(Len(h) + Len(q)) :
          all[i] = IF i <= Len(h) THEN h[i] ELSE q[i - Len(h)]
  OBVIOUS
<1> HIDE DEF all
<1>5. \A i \in DOMAIN all :
          IF i <= Len(h) THEN i \in 1..Len(h) /\ all[i] = h[i]
          ELSE i - Len(h) \in 1..Len(q) /\ all[i] = q[i - Len(h)]
  BY <1>1, <1>3, <1>4
<1>6. ASSUME NEW x, Holds(h, x) PROVE x \in ToSet(all)
  <2>1. PICK i \in 1..Len(h) : h[i] = x
    BY <1>6 DEF Holds
  <2>2. i \in DOMAIN all /\ all[i] = x
    BY <1>1, <1>3, <1>4, <2>1
  <2> QED
    BY <2>2 DEF ToSet
<1>7. ASSUME NEW x, Holds(q, x) PROVE x \in ToSet(all)
  <2>1. PICK i \in 1..Len(q) : q[i] = x
    BY <1>7 DEF Holds
  <2>2. /\ i + Len(h) \in 1..(Len(h) + Len(q)) /\ ~(i + Len(h) <= Len(h))
        /\ (i + Len(h)) - Len(h) = i
    BY <1>1
  <2>3. i + Len(h) \in DOMAIN all /\ all[i + Len(h)] = x
    BY <1>3, <1>4, <2>1, <2>2
  <2> QED
    BY <2>3 DEF ToSet
<1> QED
  BY <1>2, <1>3, <1>5, <1>6, <1>7 DEF all

\* A worker handles the messages of its market in order, none of them twice, and
\* only a full queue loses one: its oldest (BlockingQueue.h:26-40, 67-81).
THEOREM OnlyOldestLost == Spec => []OldestLost
<1>1. ASSUME NEW h, NEW q, NEW r, NEW n, ChannelOK(h, q, r, n)
      PROVE  LET all == h \o q
             IN  /\ \A i, j \in DOMAIN all : i < j => all[i].n < all[j].n
                 /\ \A x \in r \ ToSet(all) :
                       /\ \A y \in ToSet(q) : x.n < y.n
                       /\ Cardinality({y \in r : y.n > x.n}) >= Capacity
  <2> DEFINE all == h \o q
  <2>1. h \in Seq(Entry) /\ q \in Seq(Entry) /\ Len(h) \in Nat /\ Len(q) \in Nat
    BY <1>1 DEF ChannelOK, ChannelTypes
  <2>2. /\ DOMAIN all = 1..(Len(h) + Len(q))
        /\ \A i \in DOMAIN all :
             IF i <= Len(h) THEN i \in 1..Len(h) /\ all[i] = h[i]
             ELSE i - Len(h) \in 1..Len(q) /\ all[i] = q[i - Len(h)]
        /\ \A x : Holds(h, x) \/ Holds(q, x) => x \in ToSet(all)
    BY <2>1, AllFields
  <2> HIDE DEF all
  <2>3. ASSUME NEW i \in DOMAIN all, NEW j \in DOMAIN all, i < j
        PROVE  all[i].n < all[j].n
    <3>1. i \in Int /\ j \in Int
      BY <2>1, <2>2
    <3>2. CASE j <= Len(h)
      <4>1. i <= Len(h)
        BY <2>1, <2>3, <3>1, <3>2
      <4> QED
        BY <1>1, <2>2, <2>3, <3>2, <4>1 DEF ChannelOK, Increasing
    <3>3. CASE ~(j <= Len(h)) /\ i <= Len(h)
      BY <1>1, <2>2, <3>3 DEF ChannelOK, Before
    <3>4. CASE ~(j <= Len(h)) /\ ~(i <= Len(h))
      <4>1. i - Len(h) < j - Len(h)
        BY <2>1, <2>3, <3>1
      <4> QED
        BY <1>1, <2>2, <3>4, <4>1 DEF ChannelOK, Increasing
    <3> QED
      BY <3>2, <3>3, <3>4
  <2>4. ASSUME NEW x \in r \ ToSet(all)
        PROVE  /\ \A y \in ToSet(q) : x.n < y.n
               /\ Cardinality({y \in r : y.n > x.n}) >= Capacity
    <3>1. Dropped(q, r, x)
      BY <1>1, <2>2, <2>4 DEF ChannelOK, Accounted
    <3>2. \A y \in ToSet(q) : x.n < y.n
      BY <2>1, <3>1 DEF Dropped, ToSet
    <3> QED
      BY <3>1, <3>2 DEF Dropped, Newer
  <2> QED
    BY <2>3, <2>4 DEF all
<1>2. IInv => OldestLost
  BY <1>1 DEF IInv, OldestLost, Lost
<1> QED
  BY <1>2, RouterInvariant, PTL

\* A worker only sees messages that name its market and no other, or of which
\* the fast path finds one field only, which names its market
\* (EventRouter.cpp:57-108).
THEOREM AllRoutedHome == Spec => []RoutedHome
<1>1. ASSUME NEW h, NEW q, NEW r, NEW n, ChannelOK(h, q, r, n)
      PROVE  ToSet(h \o q) \subseteq r
  <2> DEFINE all == h \o q
  <2>1. h \in Seq(Entry) /\ q \in Seq(Entry)
    BY <1>1 DEF ChannelOK, ChannelTypes
  <2>2. \A i \in DOMAIN all :
          IF i <= Len(h) THEN i \in 1..Len(h) /\ all[i] = h[i]
          ELSE i - Len(h) \in 1..Len(q) /\ all[i] = q[i - Len(h)]
    BY <2>1, AllFields
  <2> HIDE DEF all
  <2>3. \A i \in DOMAIN all : all[i] \in r
    BY <1>1, <2>2 DEF ChannelOK, Accounted
  <2> QED
    BY <2>3 DEF ToSet, all
<1>2. IInv => RoutedHome
  <2> SUFFICES ASSUME IInv, NEW m \in Markets, NEW x \in ToSet(handled[m] \o queue[m])
               PROVE  Home(m, x.msg)
    BY Zenon DEF RoutedHome, Home
  <2>1. ChannelOK(handled[m], queue[m], routed[m], received)
    BY DEF IInv
  <2>2. x \in routed[m]
    BY <1>1, <2>1
  <2> QED
    BY <2>2, Zenon DEF IInv
<1> QED
  BY <1>2, RouterInvariant, PTL

============================================================================
