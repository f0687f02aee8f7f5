----------------------- MODULE WebSocketClientProofs -----------------------
(***************************************************************************)
(* The safety properties of the WebSocket client for any set of            *)
(* subscriptions, any limit of reconnects, with and without text           *)
(* heartbeats.  IInv adds to them what the reader's code relies on without *)
(* saying so: that there is one connect command, where the loop can still  *)
(* be once it has given up, and how the counter of failures lags behind    *)
(* the attempts really made.                                               *)
(***************************************************************************)
EXTENDS WebSocketClient, TLAPS

Has(s) == \E i \in 1..Len(s) : s[i] = "connect"

AtMostOne(s) ==
    \A i, j \in 1..Len(s) : s[i] = "connect" /\ s[j] = "connect" => i = j

\* The connect command is in one place: still to be queued, in the queue, taken
\* by the reader, or done.
ConnectOnce ==
    /\ AtMostOne(cmd_q) /\ AtMostOne(local)
    /\ "connect" \in todo => ~Has(cmd_q) /\ ~Has(local)
    /\ Has(cmd_q) => ~Has(local)
    /\ host => "connect" \notin todo /\ ~Has(cmd_q) /\ ~Has(local)

Connecting == pc \in {"connect", "handshake"}

\* A connection is being made by the connect command, or by doReconnect.
InCommand == Connecting /\ ret = "commands"
InAttempt == pc = "backoff" \/ (Connecting /\ ret # "commands")

\* Before the connect command nothing was dialled, and while it is carried out
\* nothing was connected or counted yet.
Unconnected ==
    /\ ~host => /\ ws = "closed"
                /\ pc \in {"unstarted", "top", "commands", "check", "exit", "ended"}
    /\ ~host \/ InCommand => /\ ~opened /\ ~missed
                             /\ failures = 0 /\ tried = 0 /\ ~give_up

\* doReconnect returns to its caller, which is not a command.
Returns == pc = "backoff" => ret # "commands"

\* A loop that has given up is on its way out, at most by a late heartbeat.
GivingUp ==
    /\ give_up <=> fatal
    /\ give_up => \/ pc \in {"top", "heartbeat", "check", "exit", "ended"}
                  \/ /\ pc \in {"backoff", "connect", "handshake", "resubscribe"}
                     /\ ret = "check"

\* The counter reaches the limit only in an attempt, and passes it only by the
\* one attempt of a late heartbeat.
Counted ==
    /\ ~give_up => failures <= max_reconnects
    /\ ~give_up /\ ~InAttempt => failures < max_reconnects
    /\ pc = "heartbeat" => failures <= max_reconnects

\* Unless a stop cut it short, every counted failure is an attempt made, but for
\* the one under way.
AttemptsMade ==
    ~stop => \/ tried = max_reconnects
             \/ failures <= tried
             \/ (InAttempt \/ pc = "ended") /\ failures <= tried + 1

\* on_reconnect_ is owed only while the frames are sent again.
Owed == missed => pc = "ended" \/ (pc = "resubscribe" /\ ret # "commands")

\* An open stream carries every subscription once the frames are sent again.
Subscribed == ws = "open" => pc \in {"resubscribe", "ended"} \/ subs \subseteq sent

Ending == pc \in {"exit", "ended"} => stop \/ give_up \/ aborted

\* The reader does not run before start().
Unstarted == owner = "setup" => pc = "unstarted"

IInv ==
    /\ TypeOK /\ Unstarted /\ ConnectOnce /\ Unconnected /\ Returns /\ GivingUp /\ Counted
    /\ AttemptsMade /\ Owed /\ Subscribed /\ Ending
----------------------------------------------------------------------------
(* Command queues *)

\* Queueing a command adds it and nothing else.
LEMMA HasAppend ==
    ASSUME NEW s \in Seq(Commands), NEW c \in Commands
    PROVE  /\ Has(Append(s, c)) <=> Has(s) \/ c = "connect"
           /\ AtMostOne(s) /\ (c = "connect" => ~Has(s)) => AtMostOne(Append(s, c))
<1>1. /\ Len(Append(s, c)) = Len(s) + 1 /\ Len(s) \in Nat
      /\ \A i \in 1..Len(s) : Append(s, c)[i] = s[i]
      /\ Append(s, c)[Len(s) + 1] = c
  OBVIOUS
<1> QED
  BY <1>1 DEF Has, AtMostOne

\* Taking the first command leaves the others.
LEMMA HasTail ==
    ASSUME NEW s \in Seq(Commands), s # <<>>, AtMostOne(s)
    PROVE  /\ Tail(s) \in Seq(Commands) /\ Head(s) \in Commands
           /\ AtMostOne(Tail(s))
           /\ Has(Tail(s)) => Has(s)
           /\ Head(s) = "connect" => Has(s) /\ ~Has(Tail(s))
<1>1. /\ Len(Tail(s)) = Len(s) - 1 /\ Len(s) \in Nat \ {0} /\ Head(s) = s[1]
      /\ \A i \in 1..Len(Tail(s)) : Tail(s)[i] = s[i + 1]
  OBVIOUS
<1> QED
  BY <1>1 DEF Has, AtMostOne

\* The empty queue has no command.
LEMMA HasEmpty == ~Has(<<>>) /\ AtMostOne(<<>>) /\ <<>> \in Seq(Commands)
BY DEF Has, AtMostOne

----------------------------------------------------------------------------
(* The invariant holds initially and gives the properties the runs check *)

\* A client that is not started yet.
LEMMA InitIInv == Init => IInv
<1> SUFFICES ASSUME Init PROVE IInv
  OBVIOUS
<1>1. max_reconnects \in Nat /\ max_reconnects > 0
  BY ClientAssumption DEF Init
<1>2. TypeOK
  <2>1. cmd_q \in Seq(Commands) /\ local \in Seq(Commands)
    BY HasEmpty DEF Init
  <2>2. failures \in 0..max_reconnects + 1 /\ tried \in 0..max_reconnects
    BY <1>1 DEF Init
  <2> QED
    BY <2>1, <2>2 DEF Init, TypeOK
<1>3. ConnectOnce
  BY HasEmpty DEF Init, ConnectOnce
<1>4. Unstarted /\ Unconnected /\ Returns /\ GivingUp /\ Counted /\ AttemptsMade
  BY <1>1 DEF Init, Unstarted, Unconnected, Returns, GivingUp, Counted, AttemptsMade,
     InAttempt, InCommand, Connecting
<1>5. Owed /\ Subscribed /\ Ending
  BY DEF Init, Owed, Subscribed, Ending
<1> QED
  BY <1>2, <1>3, <1>4, <1>5 DEF IInv

\* The invariant gives each property the runs check.
LEMMA IInvImplies ==
    IInv => /\ TypeOK /\ SubscribedWhenReading /\ RecoveryRequested
            /\ NoReadAfterGiveUp /\ EndIsReported
<1> SUFFICES ASSUME IInv
             PROVE  /\ TypeOK /\ SubscribedWhenReading /\ RecoveryRequested
                    /\ NoReadAfterGiveUp /\ EndIsReported
  OBVIOUS
<1>1. SubscribedWhenReading
  BY DEF IInv, Subscribed, SubscribedWhenReading
<1>2. RecoveryRequested
  BY DEF IInv, Owed, RecoveryRequested
<1>3. NoReadAfterGiveUp
  BY DEF IInv, GivingUp, NoReadAfterGiveUp
<1>4. EndIsReported
  BY DEF IInv, TypeOK, Ending, GivingUp, EndIsReported
<1> QED
  BY <1>1, <1>2, <1>3, <1>4 DEF IInv

----------------------------------------------------------------------------
(* The main thread *)

\* connectPublic, connectPrivate, subscribeCandles, subscribeMyOrder.
LEMMA PushCommandIInv == ASSUME IInv, NEW c \in Commands, PushCommand(c) PROVE IInv'
<1>1. cmd_q \in Seq(Commands)
  BY DEF IInv, TypeOK
<1>2. TypeOK'
  BY <1>1 DEF IInv, TypeOK, PushCommand, hist, conn, count
<1>3. ConnectOnce'
  BY <1>1, HasAppend DEF IInv, ConnectOnce, PushCommand, conn
<1>4. Unstarted' /\ Unconnected' /\ Returns' /\ GivingUp' /\ Counted' /\ AttemptsMade'
  BY DEF IInv, Unstarted, Unconnected, Returns, GivingUp, Counted, AttemptsMade,
     InAttempt, InCommand, Connecting, PushCommand, hist, conn, count
<1>5. Owed' /\ Subscribed' /\ Ending'
  BY DEF IInv, Owed, Subscribed, Ending, PushCommand, hist, conn, count
<1> QED
  BY <1>2, <1>3, <1>4, <1>5 DEF IInv

\* start().
LEMMA StartIInv == ASSUME IInv, Start PROVE IInv'
BY DEF IInv, TypeOK, Unstarted, ConnectOnce, Unconnected, Returns, GivingUp, Counted,
   AttemptsMade, Owed, Subscribed, Ending, InAttempt, InCommand, Connecting, Start,
   main, hist, conn, count

\* exit(1) of the main loop, wherever the reader is.
LEMMA ExitOnFatalIInv == ASSUME IInv, ExitOnFatal PROVE IInv'
BY DEF IInv, TypeOK, Unstarted, ConnectOnce, Unconnected, Returns, GivingUp, Counted,
   AttemptsMade, Owed, Subscribed, Ending, InAttempt, InCommand, Connecting,
   ExitOnFatal, main, hist, conn, count

\* The first half of stop().
LEMMA RequestStopIInv == ASSUME IInv, RequestStop PROVE IInv'
BY DEF IInv, TypeOK, Unstarted, ConnectOnce, Unconnected, Returns, GivingUp, Counted,
   AttemptsMade, Owed, Subscribed, Ending, InAttempt, InCommand, Connecting,
   RequestStop, main, hist, conn, count

\* The second half of stop().
LEMMA CloseSocketIInv == ASSUME IInv, CloseSocket PROVE IInv'
BY DEF IInv, TypeOK, Unstarted, ConnectOnce, Unconnected, Returns, GivingUp, Counted,
   AttemptsMade, Owed, Subscribed, Ending, InAttempt, InCommand, Connecting,
   CloseSocket, main, hist, conn, count

\* The join of stop().
LEMMA JoinIInv == ASSUME IInv, Join PROVE IInv'
BY DEF IInv, TypeOK, Unstarted, ConnectOnce, Unconnected, Returns, GivingUp, Counted,
   AttemptsMade, Owed, Subscribed, Ending, InAttempt, InCommand, Connecting, Join, main,
   hist, conn, count

----------------------------------------------------------------------------
(* The reader *)

\* The loop condition, and the queue taken.
LEMMA TopIInv == ASSUME IInv, Top PROVE IInv'
<1>1. max_reconnects \in Nat /\ max_reconnects > 0
  BY ClientAssumption DEF IInv, TypeOK
<1>2. TypeOK'
  <2>1. /\ pc' \in {"exit", "commands"} /\ cmd_q' \in Seq(Commands) /\ local' \in Seq(Commands)
        /\ UNCHANGED <<owner, todo, stop, late, aborted, ret, host, ws, shut, sent, opened,
                       missed, subs, failures, give_up, fatal, tried, max_reconnects>>
    BY HasEmpty DEF IInv, TypeOK, Top, main, hist, conn, count
  <2> QED
    BY <2>1 DEF IInv, TypeOK
<1>3. ConnectOnce'
  BY HasEmpty DEF IInv, TypeOK, ConnectOnce, Top, main, hist, conn, count
<1>4. Unstarted' /\ Unconnected' /\ Returns' /\ GivingUp'
  BY <1>1, HasEmpty DEF IInv, TypeOK, Unstarted, ConnectOnce, Unconnected, Returns,
     GivingUp, Counted, InAttempt, InCommand, Connecting, Top, main, hist, conn, count
<1>5. Counted'
  BY <1>1 DEF IInv, TypeOK, Unconnected, Returns, GivingUp, Counted, InAttempt,
     InCommand, Connecting, Top, main, hist, conn, count
<1>6. AttemptsMade'
  BY <1>1 DEF IInv, TypeOK, Unconnected, GivingUp, Counted, AttemptsMade, InAttempt,
     InCommand, Connecting, Top, main, hist, conn, count
<1>7. Owed' /\ Subscribed' /\ Ending'
  BY <1>1, HasEmpty DEF IInv, TypeOK, ConnectOnce, Unconnected, Returns, GivingUp, Owed,
     Subscribed, Ending, InAttempt, InCommand, Connecting, Top, main, hist, conn, count
<1> QED
  BY <1>2, <1>3, <1>4, <1>5, <1>6, <1>7 DEF IInv

\* The connect command: it is the only one, so nothing was connected before.
LEMMA CommandConnectIInv == ASSUME IInv, CommandConnect PROVE IInv'
<1>1. max_reconnects \in Nat /\ max_reconnects > 0
  BY ClientAssumption DEF IInv, TypeOK
<1>2. TypeOK'
  <2>1. local' \in Seq(Commands)
    BY HasTail DEF IInv, TypeOK, ConnectOnce, CommandConnect
  <2> QED
    BY <2>1 DEF IInv, TypeOK, CommandConnect, ResetStream, main, hist, count
<1>3. ConnectOnce'
  BY HasTail DEF IInv, TypeOK, ConnectOnce, CommandConnect, main, hist, conn, count,
     ResetStream
<1>4. Unstarted' /\ Unconnected' /\ Returns' /\ GivingUp'
  BY <1>1, HasTail DEF IInv, TypeOK, Unstarted, ConnectOnce, Unconnected, Returns,
     GivingUp, Counted, InAttempt, InCommand, Connecting, CommandConnect, main, hist,
     conn, count, ResetStream
<1>5. Counted'
  BY <1>1 DEF IInv, TypeOK, Unconnected, Returns, GivingUp, Counted, InAttempt,
     InCommand, Connecting, CommandConnect, main, hist, conn, count, ResetStream
<1>6. AttemptsMade'
  BY <1>1 DEF IInv, TypeOK, Unconnected, GivingUp, Counted, AttemptsMade, InAttempt,
     InCommand, Connecting, CommandConnect, main, hist, conn, count, ResetStream
<1>7. Owed' /\ Subscribed' /\ Ending'
  BY <1>1, HasTail DEF IInv, TypeOK, ConnectOnce, Unconnected, Returns, GivingUp, Owed,
     Subscribed, Ending, InAttempt, InCommand, Connecting, CommandConnect, main, hist,
     conn, count, ResetStream
<1> QED
  BY <1>2, <1>3, <1>4, <1>5, <1>6, <1>7 DEF IInv

\* The frames are sent again, or the stream is closed.
LEMMA ResubscribeIInv == ASSUME IInv, Resubscribe PROVE IInv'
<1>1. max_reconnects \in Nat /\ max_reconnects > 0
  BY ClientAssumption DEF IInv, TypeOK
<1>2. TypeOK'
  BY <1>1 DEF IInv, TypeOK, Unconnected, GivingUp, Counted, InAttempt, InCommand,
     Connecting, Resubscribe, main, hist, conn, count, Send
<1>3. ConnectOnce'
  BY DEF IInv, TypeOK, ConnectOnce, Resubscribe, main, hist, conn, count, Send
<1>4. Unstarted' /\ Unconnected' /\ Returns' /\ GivingUp'
  BY <1>1 DEF IInv, TypeOK, Unstarted, ConnectOnce, Unconnected, Returns, GivingUp,
     Counted, InAttempt, InCommand, Connecting, Resubscribe, main, hist, conn, count,
     Send
<1>5. Counted'
  BY <1>1 DEF IInv, TypeOK, Unconnected, Returns, GivingUp, Counted, InAttempt,
     InCommand, Connecting, Resubscribe, main, hist, conn, count, Send
<1>6. AttemptsMade'
  BY <1>1 DEF IInv, TypeOK, Unconnected, GivingUp, Counted, AttemptsMade, InAttempt,
     InCommand, Connecting, Resubscribe, main, hist, conn, count, Send
<1>7. Owed' /\ Subscribed' /\ Ending'
  BY <1>1 DEF IInv, TypeOK, ConnectOnce, Unconnected, Returns, GivingUp, Owed,
     Subscribed, Ending, InAttempt, InCommand, Connecting, Resubscribe, main, hist,
     conn, count, Send
<1> QED
  BY <1>2, <1>3, <1>4, <1>5, <1>6, <1>7 DEF IInv

\* A new frame is sent on an open stream, or the stream is closed.
LEMMA CommandSubscribeIInv == ASSUME IInv, CommandSubscribe PROVE IInv'
<1>1. max_reconnects \in Nat /\ max_reconnects > 0
  BY ClientAssumption DEF IInv, TypeOK
<1>2. TypeOK'
  BY <1>1, HasTail DEF IInv, TypeOK, Unconnected, GivingUp, Counted, InAttempt,
     InCommand, Connecting, CommandSubscribe, main, hist, conn, count, Send
<1>3. ConnectOnce'
  BY HasTail DEF IInv, TypeOK, ConnectOnce, CommandSubscribe, main, hist, conn, count,
     Send
<1>4. Unstarted' /\ Unconnected' /\ Returns' /\ GivingUp'
  BY <1>1, HasTail DEF IInv, TypeOK, Unstarted, ConnectOnce, Unconnected, Returns,
     GivingUp, Counted, InAttempt, InCommand, Connecting, CommandSubscribe, main, hist,
     conn, count, Send
<1>5. Counted'
  BY <1>1 DEF IInv, TypeOK, Unconnected, Returns, GivingUp, Counted, InAttempt,
     InCommand, Connecting, CommandSubscribe, main, hist, conn, count, Send
<1>6. AttemptsMade'
  BY <1>1 DEF IInv, TypeOK, Unconnected, GivingUp, Counted, AttemptsMade, InAttempt,
     InCommand, Connecting, CommandSubscribe, main, hist, conn, count, Send
<1>7. Owed' /\ Subscribed' /\ Ending'
  BY <1>1, HasTail DEF IInv, TypeOK, ConnectOnce, Unconnected, Returns, GivingUp, Owed,
     Subscribed, Ending, InAttempt, InCommand, Connecting, CommandSubscribe, main, hist,
     conn, count, Send
<1> QED
  BY <1>2, <1>3, <1>4, <1>5, <1>6, <1>7 DEF IInv

\* The end of the commands.
LEMMA CommandsDoneIInv == ASSUME IInv, CommandsDone PROVE IInv'
BY DEF IInv, TypeOK, Unstarted, ConnectOnce, Unconnected, Returns, GivingUp, Counted,
   AttemptsMade, Owed, Subscribed, Ending, InAttempt, InCommand, Connecting,
   CommandsDone, main, hist, conn, count

\* A message.
LEMMA ReadMessageIInv == ASSUME IInv, ReadMessage PROVE IInv'
BY DEF IInv, TypeOK, Unstarted, ConnectOnce, Unconnected, Returns, GivingUp, Counted,
   AttemptsMade, Owed, Subscribed, Ending, InAttempt, InCommand, Connecting,
   ReadMessage, main, hist, conn, count

\* A read that times out.
LEMMA ReadTimeoutIInv == ASSUME IInv, ReadTimeout PROVE IInv'
<1>1. /\ pc = "read" /\ pc' \in {"exit", "top"} /\ (pc' = "exit" => stop)
      /\ ws' \in {ws, "closed"}
      /\ UNCHANGED <<owner, todo, stop, late, aborted, cmd_q, local, ret, host, shut,
                     sent, opened, missed, subs, failures, give_up, fatal, tried,
                     max_reconnects>>
  BY DEF IInv, TypeOK, ReadTimeout, main, hist, count
<1>2. TypeOK' /\ ConnectOnce'
  BY <1>1 DEF IInv, TypeOK, ConnectOnce
<1>3. Unstarted' /\ Unconnected' /\ Returns' /\ GivingUp'
  BY <1>1 DEF IInv, Unstarted, Unconnected, Returns, GivingUp, InCommand, Connecting
<1>4. Counted' /\ AttemptsMade'
  BY <1>1 DEF IInv, GivingUp, Counted, AttemptsMade, InAttempt, Connecting
<1>5. Owed' /\ Ending'
  BY <1>1 DEF IInv, Owed, Ending
<1>6. Subscribed'
  <2>1. SUFFICES ASSUME ws' = "open" PROVE subs \subseteq sent
    BY <1>1 DEF Subscribed
  <2>2. ws = "open"
    BY <1>1, <2>1
  <2> QED
    BY <1>1, <2>2 DEF IInv, Subscribed
<1> QED
  BY <1>2, <1>3, <1>4, <1>5, <1>6 DEF IInv

\* An aborted read.
LEMMA ReadAbortedIInv == ASSUME IInv, ReadAborted PROVE IInv'
BY DEF IInv, TypeOK, Unstarted, ConnectOnce, Unconnected, Returns, GivingUp, Counted,
   AttemptsMade, Owed, Subscribed, Ending, InAttempt, InCommand, Connecting,
   ReadAborted, main, hist, conn, count

\* The end of the loop.
LEMMA ExitIInv == ASSUME IInv, Exit PROVE IInv'
BY DEF IInv, TypeOK, Unstarted, ConnectOnce, Unconnected, Returns, GivingUp, Counted,
   AttemptsMade, Owed, Subscribed, Ending, InAttempt, InCommand, Connecting, Exit, main,
   hist, conn, count

\* A failed ping: the loop has not given up, since it looked at the top.
LEMMA PingIInv == ASSUME IInv, Ping PROVE IInv'
<1>1. max_reconnects \in Nat /\ max_reconnects > 0
  BY ClientAssumption DEF IInv, TypeOK
<1>2. TypeOK'
  BY <1>1 DEF IInv, TypeOK, Unconnected, GivingUp, Counted, InAttempt, InCommand,
     Connecting, Ping, main, hist, conn, count, DoReconnect, ReconnectFailed
<1>3. ConnectOnce'
  BY DEF IInv, TypeOK, ConnectOnce, Ping, main, hist, conn, count, DoReconnect,
     ReconnectFailed
<1>4. Unstarted' /\ Unconnected' /\ Returns' /\ GivingUp'
  BY <1>1 DEF IInv, TypeOK, Unstarted, ConnectOnce, Unconnected, Returns, GivingUp,
     Counted, InAttempt, InCommand, Connecting, Ping, main, hist, conn, count,
     DoReconnect, ReconnectFailed
<1>5. Counted'
  BY <1>1 DEF IInv, TypeOK, Unconnected, Returns, GivingUp, Counted, InAttempt,
     InCommand, Connecting, Ping, main, hist, conn, count, DoReconnect, ReconnectFailed
<1>6. AttemptsMade'
  BY <1>1 DEF IInv, TypeOK, Unconnected, GivingUp, Counted, AttemptsMade, InAttempt,
     InCommand, Connecting, Ping, main, hist, conn, count, DoReconnect, ReconnectFailed
<1>7. Owed' /\ Subscribed' /\ Ending'
  BY <1>1 DEF IInv, TypeOK, ConnectOnce, Unconnected, Returns, GivingUp, Owed,
     Subscribed, Ending, InAttempt, InCommand, Connecting, Ping, main, hist, conn,
     count, DoReconnect, ReconnectFailed
<1> QED
  BY <1>2, <1>3, <1>4, <1>5, <1>6, <1>7 DEF IInv

\* A failed heartbeat: the one attempt that may pass the limit.
LEMMA HeartbeatIInv == ASSUME IInv, Heartbeat PROVE IInv'
<1>1. max_reconnects \in Nat /\ max_reconnects > 0
  BY ClientAssumption DEF IInv, TypeOK
<1>2. TypeOK'
  BY <1>1 DEF IInv, TypeOK, Unconnected, GivingUp, Counted, InAttempt, InCommand,
     Connecting, Heartbeat, main, hist, conn, count, DoReconnect, ReconnectFailed
<1>3. ConnectOnce'
  BY DEF IInv, TypeOK, ConnectOnce, Heartbeat, main, hist, conn, count, DoReconnect,
     ReconnectFailed
<1>4. Unstarted' /\ Unconnected' /\ Returns' /\ GivingUp'
  BY <1>1 DEF IInv, TypeOK, Unstarted, ConnectOnce, Unconnected, Returns, GivingUp,
     Counted, InAttempt, InCommand, Connecting, Heartbeat, main, hist, conn, count,
     DoReconnect, ReconnectFailed
<1>5. Counted'
  BY <1>1 DEF IInv, TypeOK, Unconnected, Returns, GivingUp, Counted, InAttempt,
     InCommand, Connecting, Heartbeat, main, hist, conn, count, DoReconnect,
     ReconnectFailed
<1>6. AttemptsMade'
  BY <1>1 DEF IInv, TypeOK, Unconnected, GivingUp, Counted, AttemptsMade, InAttempt,
     InCommand, Connecting, Heartbeat, main, hist, conn, count, DoReconnect,
     ReconnectFailed
<1>7. Owed' /\ Subscribed' /\ Ending'
  BY <1>1 DEF IInv, TypeOK, ConnectOnce, Unconnected, Returns, GivingUp, Owed,
     Subscribed, Ending, InAttempt, InCommand, Connecting, Heartbeat, main, hist, conn,
     count, DoReconnect, ReconnectFailed
<1> QED
  BY <1>2, <1>3, <1>4, <1>5, <1>6, <1>7 DEF IInv

\* The check before the read.
LEMMA CheckIInv == ASSUME IInv, Check PROVE IInv'
<1>1. max_reconnects \in Nat /\ max_reconnects > 0
  BY ClientAssumption DEF IInv, TypeOK
<1>2. TypeOK'
  BY <1>1 DEF IInv, TypeOK, Unconnected, GivingUp, Counted, InAttempt, InCommand,
     Connecting, Check, main, hist, conn, count, DoReconnect, ReconnectFailed
<1>3. ConnectOnce'
  BY DEF IInv, TypeOK, ConnectOnce, Check, main, hist, conn, count, DoReconnect,
     ReconnectFailed
<1>4. Unstarted' /\ Unconnected' /\ Returns' /\ GivingUp'
  BY <1>1 DEF IInv, TypeOK, Unstarted, ConnectOnce, Unconnected, Returns, GivingUp,
     Counted, InAttempt, InCommand, Connecting, Check, main, hist, conn, count,
     DoReconnect, ReconnectFailed
<1>5. Counted'
  BY <1>1 DEF IInv, TypeOK, Unconnected, Returns, GivingUp, Counted, InAttempt,
     InCommand, Connecting, Check, main, hist, conn, count, DoReconnect, ReconnectFailed
<1>6. AttemptsMade'
  BY <1>1 DEF IInv, TypeOK, Unconnected, GivingUp, Counted, AttemptsMade, InAttempt,
     InCommand, Connecting, Check, main, hist, conn, count, DoReconnect, ReconnectFailed
<1>7. Owed' /\ Subscribed' /\ Ending'
  BY <1>1 DEF IInv, TypeOK, ConnectOnce, Unconnected, Returns, GivingUp, Owed,
     Subscribed, Ending, InAttempt, InCommand, Connecting, Check, main, hist, conn,
     count, DoReconnect, ReconnectFailed
<1> QED
  BY <1>2, <1>3, <1>4, <1>5, <1>6, <1>7 DEF IInv

\* A failed read.
LEMMA ReadErrorIInv == ASSUME IInv, ReadError PROVE IInv'
<1>1. max_reconnects \in Nat /\ max_reconnects > 0
  BY ClientAssumption DEF IInv, TypeOK
<1>2. TypeOK'
  BY <1>1 DEF IInv, TypeOK, Unconnected, GivingUp, Counted, InAttempt, InCommand,
     Connecting, ReadError, main, hist, conn, count, DoReconnect, ReconnectFailed
<1>3. ConnectOnce'
  BY DEF IInv, TypeOK, ConnectOnce, ReadError, main, hist, conn, count, DoReconnect,
     ReconnectFailed
<1>4. Unstarted' /\ Unconnected' /\ Returns' /\ GivingUp'
  BY <1>1 DEF IInv, TypeOK, Unstarted, ConnectOnce, Unconnected, Returns, GivingUp,
     Counted, InAttempt, InCommand, Connecting, ReadError, main, hist, conn, count,
     DoReconnect, ReconnectFailed
<1>5. Counted'
  BY <1>1 DEF IInv, TypeOK, Unconnected, Returns, GivingUp, Counted, InAttempt,
     InCommand, Connecting, ReadError, main, hist, conn, count, DoReconnect,
     ReconnectFailed
<1>6. AttemptsMade'
  BY <1>1 DEF IInv, TypeOK, Unconnected, GivingUp, Counted, AttemptsMade, InAttempt,
     InCommand, Connecting, ReadError, main, hist, conn, count, DoReconnect,
     ReconnectFailed
<1>7. Owed' /\ Subscribed' /\ Ending'
  BY <1>1 DEF IInv, TypeOK, ConnectOnce, Unconnected, Returns, GivingUp, Owed,
     Subscribed, Ending, InAttempt, InCommand, Connecting, ReadError, main, hist, conn,
     count, DoReconnect, ReconnectFailed
<1> QED
  BY <1>2, <1>3, <1>4, <1>5, <1>6, <1>7 DEF IInv

\* The end of the backoff.
LEMMA BackoffIInv == ASSUME IInv, Backoff PROVE IInv'
<1>1. max_reconnects \in Nat /\ max_reconnects > 0
  BY ClientAssumption DEF IInv, TypeOK
<1>2. TypeOK'
  <2>1. failures' \in 0..max_reconnects + 1
    BY <1>1 DEF IInv, TypeOK, Backoff
  <2>2. give_up' \in BOOLEAN /\ fatal' \in BOOLEAN
    BY DEF IInv, TypeOK, Backoff, ReconnectFailed
  <2>3. pc' \in {"connect", "commands", "top", "heartbeat", "check"}
    BY DEF IInv, TypeOK, Backoff
  <2>4. ws' \in {"closed", "open"} /\ shut' \in BOOLEAN /\ sent' \in SUBSET Subs
    BY DEF IInv, TypeOK, Backoff, ResetStream
  <2> QED
    BY <2>1, <2>2, <2>3, <2>4 DEF IInv, TypeOK, Backoff, main, hist
<1>3. ConnectOnce'
  BY DEF IInv, TypeOK, ConnectOnce, Backoff, main, hist, conn, count, ResetStream,
     ReconnectFailed
<1>4. Unstarted' /\ Unconnected' /\ Returns' /\ GivingUp'
  BY <1>1 DEF IInv, TypeOK, Unstarted, ConnectOnce, Unconnected, Returns, GivingUp,
     Counted, InAttempt, InCommand, Connecting, Backoff, main, hist, conn, count,
     ResetStream, ReconnectFailed
<1>5. Counted'
  BY <1>1 DEF IInv, TypeOK, Unconnected, Returns, GivingUp, Counted, InAttempt,
     InCommand, Connecting, Backoff, main, hist, conn, count, ResetStream,
     ReconnectFailed
<1>6. AttemptsMade'
  BY <1>1 DEF IInv, TypeOK, Unconnected, Returns, GivingUp, Counted, AttemptsMade,
     InAttempt, InCommand, Connecting, Backoff, main, hist, conn, count, ResetStream,
     ReconnectFailed
<1>7. Owed' /\ Subscribed' /\ Ending'
  BY <1>1 DEF IInv, TypeOK, ConnectOnce, Unconnected, Returns, GivingUp, Owed,
     Subscribed, Ending, InAttempt, InCommand, Connecting, Backoff, main, hist, conn,
     count, ResetStream, ReconnectFailed
<1> QED
  BY <1>2, <1>3, <1>4, <1>5, <1>6, <1>7 DEF IInv

\* The TCP connect: it goes on to the handshakes, or the attempt has failed.
LEMMA TcpConnectIInv == ASSUME IInv, TcpConnect PROVE IInv'
<1>1. max_reconnects \in Nat /\ max_reconnects > 0
  BY ClientAssumption DEF IInv, TypeOK
<1>2. TypeOK'
  <2>1. failures' \in 0..max_reconnects + 1 /\ tried' \in 0..max_reconnects
    BY <1>1 DEF IInv, TypeOK, TcpConnect, ConnectFailed
  <2>2. give_up' \in BOOLEAN /\ fatal' \in BOOLEAN
    BY DEF IInv, TypeOK, TcpConnect, ConnectFailed, ReconnectFailed
  <2>3. pc' \in {"handshake", "resubscribe", "commands", "top", "heartbeat", "check"}
    BY DEF IInv, TypeOK, TcpConnect, ConnectFailed
  <2>4. /\ ws' \in {"closed", "open"} /\ sent' \in SUBSET Subs
        /\ opened' \in BOOLEAN /\ missed' \in BOOLEAN /\ late' \in BOOLEAN
    BY DEF IInv, TypeOK, TcpConnect, hist, conn
  <2> QED
    BY <2>1, <2>2, <2>3, <2>4 DEF IInv, TypeOK, TcpConnect, main, hist, conn
<1>3. ConnectOnce'
  BY DEF IInv, TypeOK, ConnectOnce, TcpConnect, main, hist, conn, count
<1>4. Unstarted' /\ Unconnected' /\ Returns' /\ GivingUp'
  BY <1>1 DEF IInv, TypeOK, Unstarted, ConnectOnce, Unconnected, Returns, GivingUp,
     Counted, InAttempt, InCommand, Connecting, TcpConnect, main, hist, conn, count,
     ConnectFailed, ReconnectFailed
<1>5. Counted'
  BY <1>1 DEF IInv, TypeOK, Unconnected, Returns, GivingUp, Counted, InAttempt,
     InCommand, Connecting, TcpConnect, main, hist, conn, count, ConnectFailed,
     ReconnectFailed
<1>6. AttemptsMade'
  BY <1>1 DEF IInv, TypeOK, Unconnected, GivingUp, Counted, AttemptsMade, InAttempt,
     InCommand, Connecting, TcpConnect, main, hist, conn, count, ConnectFailed,
     ReconnectFailed
<1>7. Owed' /\ Subscribed' /\ Ending'
  BY <1>1 DEF IInv, TypeOK, ConnectOnce, Unconnected, Returns, GivingUp, Owed,
     Subscribed, Ending, InAttempt, InCommand, Connecting, TcpConnect, main, hist, conn,
     count, ConnectFailed
<1> QED
  BY <1>2, <1>3, <1>4, <1>5, <1>6, <1>7 DEF IInv

\* The handshakes, after which the counter is 0 or the limit is checked.
LEMMA HandshakeIInv == ASSUME IInv, Handshake PROVE IInv'
<1>1. max_reconnects \in Nat /\ max_reconnects > 0
  BY ClientAssumption DEF IInv, TypeOK
<1>2. TypeOK'
  <2>1. failures' \in 0..max_reconnects + 1 /\ tried' \in 0..max_reconnects
    BY <1>1 DEF IInv, TypeOK, Handshake, ConnectFailed
  <2>2. give_up' \in BOOLEAN /\ fatal' \in BOOLEAN
    BY DEF IInv, TypeOK, Handshake, ConnectFailed, ReconnectFailed
  <2>3. pc' \in {"handshake", "resubscribe", "commands", "top", "heartbeat", "check"}
    BY DEF IInv, TypeOK, Handshake, ConnectFailed
  <2>4. /\ ws' \in {"closed", "open"} /\ sent' \in SUBSET Subs
        /\ opened' \in BOOLEAN /\ missed' \in BOOLEAN /\ late' \in BOOLEAN
    BY DEF IInv, TypeOK, Handshake, hist, conn
  <2> QED
    BY <2>1, <2>2, <2>3, <2>4 DEF IInv, TypeOK, Handshake, main, hist, conn
<1>3. ConnectOnce'
  BY DEF IInv, TypeOK, ConnectOnce, Handshake, main, hist, conn, count
<1>4. Unstarted' /\ Unconnected' /\ Returns' /\ GivingUp'
  BY <1>1 DEF IInv, TypeOK, Unstarted, ConnectOnce, Unconnected, Returns, GivingUp,
     Counted, InAttempt, InCommand, Connecting, Handshake, main, hist, conn, count,
     ConnectFailed, ReconnectFailed
<1>5. Counted'
  BY <1>1 DEF IInv, TypeOK, Unconnected, Returns, GivingUp, Counted, InAttempt,
     InCommand, Connecting, Handshake, main, hist, conn, count, ConnectFailed,
     ReconnectFailed
<1>6. AttemptsMade'
  BY <1>1 DEF IInv, TypeOK, Unconnected, GivingUp, Counted, AttemptsMade, InAttempt,
     InCommand, Connecting, Handshake, main, hist, conn, count, ConnectFailed,
     ReconnectFailed
<1>7. Owed' /\ Subscribed' /\ Ending'
  BY <1>1 DEF IInv, TypeOK, ConnectOnce, Unconnected, Returns, GivingUp, Owed,
     Subscribed, Ending, InAttempt, InCommand, Connecting, Handshake, main, hist, conn,
     count, ConnectFailed
<1> QED
  BY <1>2, <1>3, <1>4, <1>5, <1>6, <1>7 DEF IInv

\* Each step preserves the invariant.
LEMMA NextIInv == ASSUME IInv, [Next]_vars PROVE IInv'
<1>1. CASE Main
  <2>1. ASSUME NEW c \in Commands, PushCommand(c) PROVE IInv'
    BY <2>1, PushCommandIInv
  <2> QED
    BY <1>1, <2>1, StartIInv, ExitOnFatalIInv, RequestStopIInv, CloseSocketIInv,
       JoinIInv DEF Main
<1>2. CASE Reader
  BY <1>2, TopIInv, CommandConnectIInv, TcpConnectIInv, HandshakeIInv, ResubscribeIInv,
     CommandSubscribeIInv, CommandsDoneIInv, PingIInv, HeartbeatIInv, CheckIInv,
     ReadMessageIInv, ReadTimeoutIInv, ReadAbortedIInv, ReadErrorIInv, BackoffIInv,
     ExitIInv DEF Reader
<1>3. CASE UNCHANGED vars
  BY <1>3 DEF IInv, TypeOK, Unstarted, ConnectOnce, Unconnected, Returns, GivingUp,
     Counted, AttemptsMade, Owed, Subscribed, Ending, InAttempt, InCommand, Connecting,
     vars, main, hist, conn, count
<1> QED
  BY <1>1, <1>2, <1>3 DEF Next

----------------------------------------------------------------------------
(* The theorems *)

\* The invariant holds throughout.
LEMMA AlwaysIInv == Spec => []IInv
BY InitIInv, NextIInv, PTL DEF Spec

\* The variables of the client keep their types: in particular reconnect_failures_
\* passes max_reconnect_attempts by at most one.
THEOREM ClientTypeCorrect == Spec => []TypeOK
BY AlwaysIInv, IInvImplies, PTL

\* The reader never waits on a connection that lacks a subscription, for any
\* number of subscriptions and any order of the commands.
THEOREM ReadsSubscribed == Spec => []SubscribedWhenReading
BY AlwaysIInv, IInvImplies, PTL

\* A connection that replaced another one is read only after on_reconnect_ was
\* called for it.
THEOREM ReadsAfterRecovery == Spec => []RecoveryRequested
BY AlwaysIInv, IInvImplies, PTL

\* A loop that has given up never reads again.
THEOREM GivenUpNeverReads == Spec => []NoReadAfterGiveUp
BY AlwaysIInv, IInvImplies, PTL

\* The reader thread ends only after a stop, after fatal_cb_ was called, or by an
\* aborted read.
THEOREM ReaderEndReported == Spec => []EndIsReported
BY AlwaysIInv, IInvImplies, PTL

\* fatal_cb_ is called only when the limit of attempts really failed in a row, or
\* while the client is stopping, for any limit.
THEOREM FatalIsEarned == Spec => FatalAfterAttempts
<1> DEFINE Earned == fatal' /\ ~fatal => stop \/ tried' >= max_reconnects
<1>1. ASSUME IInv, [Next]_vars PROVE [Earned]_vars
  <2> SUFFICES ASSUME Next, fatal', ~fatal, ~stop PROVE tried' >= max_reconnects
    BY <1>1
  <2>1. max_reconnects \in Nat /\ stop \in BOOLEAN /\ fatal \in BOOLEAN
    BY <1>1, ClientAssumption DEF IInv, TypeOK
  <2>2. CASE TcpConnect \/ Handshake
    <3>1. failures \in Nat /\ tried \in Nat
      BY <1>1, <2>1 DEF IInv, TypeOK
    <3>2. /\ pc \in {"connect", "handshake"} /\ ret # "commands"
          /\ failures' = failures /\ failures' >= max_reconnects
          /\ tried' = IF tried < max_reconnects THEN tried + 1 ELSE tried
      BY <2>1, <2>2 DEF TcpConnect, Handshake, ConnectFailed, ReconnectFailed
    <3>3. tried = max_reconnects \/ failures <= tried + 1
      BY <1>1, <3>1, <3>2 DEF IInv, AttemptsMade
    <3> QED
      BY <2>1, <3>1, <3>2, <3>3
  <2>3. CASE Main
    BY <2>3 DEF Main, PushCommand, Start, ExitOnFatal, RequestStop, CloseSocket, Join,
       count
  <2>4. CASE Ping \/ Heartbeat \/ Check \/ ReadError \/ Backoff
    BY <2>4 DEF Ping, Heartbeat, Check, ReadError, Backoff, DoReconnect, count
  <2>5. CASE Top \/ CommandConnect \/ Resubscribe \/ CommandSubscribe \/ CommandsDone
             \/ ReadMessage \/ ReadTimeout \/ ReadAborted \/ Exit
    BY <2>5 DEF Top, CommandConnect, Resubscribe, CommandSubscribe, CommandsDone,
       ReadMessage, ReadTimeout, ReadAborted, Exit, count
  <2> QED
    BY <2>2, <2>3, <2>4, <2>5 DEF Next, Reader
<1>2. IInv /\ [Next]_vars => [Earned]_vars
  BY <1>1
<1> QED
  BY <1>2, AlwaysIInv, PTL DEF Spec, FatalAfterAttempts

============================================================================
