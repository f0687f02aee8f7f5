-------------------------- MODULE WebSocketClient --------------------------
(***************************************************************************)
(* One UpbitWebSocketClient (src/api/ws/UpbitWebSocketClient.{h,cpp}) with *)
(* its reader thread, runReadLoop_, and the main thread of CoinBot         *)
(* (src/app/CoinBot.cpp), which queues the commands, starts the client,    *)
(* polls for a fatal state and stops the client when it gets a signal.     *)
(*                                                                         *)
(* The reader is split wherever it blocks or the stop token is read again: *)
(* top of the loop, one command, TCP connect, handshakes, ping, text       *)
(* heartbeat, check before the read, read, backoff.  doReconnect is called *)
(* from four places; ret is where it returns to, and "commands" if it is a *)
(* connect command that connects.  The network decides every connect,      *)
(* write and read; a failed write or read closes the stream, as Beast's    *)
(* is_open() then reports.  No stream and a stream that is not open behave *)
(* alike and are both ws = "closed".  Every call is synchronous, so that   *)
(* the timers of the stream do not end it (UpbitWebSocketClient.cpp:179).  *)
(***************************************************************************)
EXTENDS Integers, Sequences, FiniteSets

CONSTANTS
    Subs,           \* keys of last_sub_frames_: candle types, "myOrder"
    Limits,         \* values of websocket.max_reconnect_attempts
    TextPing        \* heartbeat_mode_ = UpbitTextPing

\* A limit of 0 would mean none; the configuration sets 5.
ASSUME ClientAssumption ==
    /\ Limits \subseteq Nat \ {0}
    /\ TextPing \in BOOLEAN
    /\ "connect" \notin Subs

VARIABLES
    owner,      \* the main thread
    todo,       \* commands the main thread has not queued yet
    stop,       \* the stop token of the reader
    cmd_q, local,
    pc, ret,    \* the reader: where it is, where doReconnect returns to
    host,       \* host_ is set
    ws, shut,   \* the stream; stop has closed the socket under it
    subs,       \* last_sub_frames_
    sent,       \* subscriptions sent on the present connection
    max_reconnects,
    failures,   \* reconnect_failures_
    give_up,
    fatal,      \* fatal_cb_ was called
    opened,     \* history: a connection was open
    missed,     \* history: the present connection replaced an earlier one, and
                \* on_reconnect_ was not called for it
    tried,      \* history: attempts that failed since a connection was open,
                \* counted up to max_reconnects
    late,       \* history: the socket was connected after stop had closed it
    aborted     \* history: the loop was left by an aborted read, without a stop

main == <<owner, todo, stop>>
conn == <<host, ws, shut, sent, opened, missed>>
hist == <<late, aborted>>
count == <<failures, give_up, fatal, tried, max_reconnects>>
vars == <<main, hist, cmd_q, local, pc, ret, conn, subs, count>>

Commands == Subs \cup {"connect"}

Init ==
    /\ owner = "setup" /\ todo = Commands /\ stop = FALSE
    /\ cmd_q = <<>> /\ local = <<>>
    /\ pc = "unstarted" /\ ret = "top"
    /\ host = FALSE /\ ws = "closed" /\ shut = FALSE /\ sent = {}
    /\ subs = {}
    /\ max_reconnects \in Limits
    /\ failures = 0 /\ give_up = FALSE /\ fatal = FALSE
    /\ opened = FALSE /\ missed = FALSE /\ tried = 0
    /\ late = FALSE /\ aborted = FALSE

----------------------------------------------------------------------------
(* The main thread *)

\* connectPublic, connectPrivate, subscribeCandles, subscribeMyOrder: allowed
\* before and after start, in any order.
PushCommand(c) ==
    /\ owner \in {"setup", "running"} /\ c \in todo
    /\ cmd_q' = Append(cmd_q, c)
    /\ todo' = todo \ {c}
    /\ UNCHANGED <<hist, owner, stop, local, pc, ret, conn, subs, count>>

Start ==
    /\ owner = "setup"
    /\ owner' = "running"
    /\ pc' = "top"
    /\ UNCHANGED <<hist, todo, stop, cmd_q, local, ret, conn, subs, count>>

\* The health check of the main loop: exit(1), and systemd starts anew.
ExitOnFatal ==
    /\ owner = "running" /\ fatal
    /\ owner' = "exited"
    /\ pc' = "ended"
    /\ UNCHANGED <<hist, todo, stop, cmd_q, local, ret, conn, subs, count>>

\* SIGINT, SIGTERM: the loop ends and stop() is called, which first requests
\* the stop and then, under ws_mu_, closes the socket of whatever stream there
\* is; one that is not connected yet is opened again by the TCP connect.
RequestStop ==
    /\ owner = "running" /\ owner' = "closing"
    /\ stop' = TRUE
    /\ UNCHANGED <<hist, todo, cmd_q, local, pc, ret, conn, subs, count>>

CloseSocket ==
    /\ owner = "closing" /\ owner' = "joining"
    /\ shut' = (ws = "open" \/ pc = "handshake")
    /\ UNCHANGED <<hist, todo, stop, cmd_q, local, pc, ret, host, ws, sent, opened,
                   missed, subs, count>>

Join ==
    /\ owner = "joining" /\ pc = "ended"
    /\ owner' = "stopped"
    /\ UNCHANGED <<hist, todo, stop, cmd_q, local, pc, ret, conn, subs, count>>

----------------------------------------------------------------------------
(* Streams *)

\* sendTextFrame for every frame of F: a frame is sent on an open stream, and
\* a write that fails closes it for the frames that follow.
Send(F) ==
    \/ /\ F = {} \/ (ws = "open" /\ ~shut)
       /\ sent' = sent \cup F /\ ws' = ws
    \/ \E G \in SUBSET F :
        /\ G # F /\ (ws = "open" \/ G = {})
        /\ sent' = sent \cup G /\ ws' = "closed"

\* resetStream, at the start of connectImpl.
ResetStream == ws' = "closed" /\ shut' = FALSE /\ sent' = {}

\* mutants: the frames are not sent; on_reconnect_ is not called
BadResubscribe ==
    /\ pc = "resubscribe"
    /\ missed' = (missed /\ ret = "commands")
    /\ pc' = ret
    /\ UNCHANGED <<main, hist, cmd_q, local, ret, host, ws, sent, shut, opened, subs, count>>

BadResubscribeQuiet ==
    /\ pc = "resubscribe"
    /\ Send(subs)
    /\ pc' = ret
    /\ UNCHANGED <<main, hist, cmd_q, local, ret, host, shut, opened, missed, subs, count>>

\* resubscribeAll, whose failed sends are ignored; a reconnect, but not a
\* connect command, then calls on_reconnect_.
Resubscribe ==
    /\ pc = "resubscribe"
    /\ Send(subs)
    /\ missed' = (missed /\ ret = "commands")
    /\ pc' = ret
    /\ UNCHANGED <<main, hist, cmd_q, local, ret, host, shut, opened, subs, count>>

----------------------------------------------------------------------------
(* doReconnect *)

\* reconnectOnce_ returned false: the limit is checked whatever the reason.
\* mutants: the loop gives up without a word; one attempt too early
BadReconnectFailed ==
    /\ give_up' = (give_up \/ failures' >= max_reconnects)
    /\ fatal' = fatal

BadReconnectFailedEarly ==
    /\ give_up' = (give_up \/ failures' + 1 >= max_reconnects)
    /\ fatal' = (fatal \/ failures' + 1 >= max_reconnects)

ReconnectFailed ==
    /\ give_up' = (give_up \/ failures' >= max_reconnects)
    /\ fatal' = (fatal \/ failures' >= max_reconnects)

\* mutant: the attempt is not counted
BadDoReconnect(from) ==
    IF stop
    THEN /\ failures' = failures
         /\ ReconnectFailed
         /\ pc' = from
         /\ UNCHANGED ret
    ELSE /\ failures' = failures
         /\ pc' = "backoff"
         /\ ret' = from
         /\ UNCHANGED <<give_up, fatal>>

\* The call, up to the backoff.
DoReconnect(from) ==
    IF stop
    THEN /\ failures' = failures
         /\ ReconnectFailed
         /\ pc' = from
         /\ UNCHANGED ret
    ELSE /\ failures' = failures + 1
         /\ pc' = "backoff"
         /\ ret' = from
         /\ UNCHANGED <<give_up, fatal>>

\* mutant: the backoff waits on while a stop is requested
BadBackoff ==
    /\ pc = "backoff" /\ ~stop
    /\ ResetStream
    /\ pc' = "connect"
    /\ UNCHANGED <<main, hist, cmd_q, local, ret, host, opened, missed, subs, count>>

\* The backoff has passed, or stop cut it short; ws_.reset() and connectImpl.
Backoff ==
    /\ pc = "backoff"
    /\ IF stop
       THEN /\ failures' = failures
            /\ ReconnectFailed
            /\ pc' = ret
            /\ UNCHANGED <<ws, shut, sent>>
       ELSE /\ ResetStream
            /\ pc' = "connect"
            /\ UNCHANGED <<failures, give_up, fatal>>
    /\ UNCHANGED <<main, hist, cmd_q, local, ret, host, opened, missed, subs,
                   tried, max_reconnects>>

----------------------------------------------------------------------------
(* connectImpl, after the stream was reset *)

\* What its caller makes of a connection that is not open.
ConnectFailed ==
    /\ IF ret = "commands"
       THEN UNCHANGED <<failures, give_up, fatal, tried>>
       ELSE /\ failures' = failures
            /\ ReconnectFailed
            /\ tried' = IF tried < max_reconnects THEN tried + 1 ELSE tried
    /\ pc' = ret

\* The name is resolved and the socket connected.
TcpConnect ==
    /\ pc = "connect"
    /\ \/ /\ pc' = "handshake"
          /\ late' = (owner = "joining")
          /\ UNCHANGED <<failures, give_up, fatal, tried>>
       \/ ConnectFailed /\ UNCHANGED late
    /\ UNCHANGED <<main, cmd_q, local, ret, conn, subs, max_reconnects, aborted>>

\* The TLS and the WebSocket handshake, which wait for the peer.
Handshake ==
    /\ pc = "handshake"
    /\ \/ /\ ~shut
          /\ ws' = "open" /\ sent' = {}
          /\ opened' = TRUE /\ missed' = opened /\ tried' = 0
          /\ failures' = IF ret = "commands" THEN failures ELSE 0
          /\ pc' = "resubscribe"
          /\ UNCHANGED <<give_up, fatal>>
       \/ ConnectFailed /\ UNCHANGED <<ws, sent, opened, missed>>
    /\ UNCHANGED <<main, hist, cmd_q, local, ret, host, shut, subs, max_reconnects>>

----------------------------------------------------------------------------
(* runReadLoop_ *)

\* The loop condition, then the whole queue is taken.
Top ==
    /\ pc = "top"
    /\ IF stop \/ give_up
       THEN pc' = "exit" /\ UNCHANGED <<cmd_q, local>>
       ELSE pc' = "commands" /\ local' = cmd_q /\ cmd_q' = <<>>
    /\ UNCHANGED <<main, hist, ret, conn, subs, count>>

CommandConnect ==
    /\ pc = "commands" /\ local # <<>> /\ Head(local) = "connect"
    /\ local' = Tail(local)
    /\ host' = TRUE
    /\ ResetStream
    /\ pc' = "connect" /\ ret' = "commands"
    /\ UNCHANGED <<main, hist, cmd_q, opened, missed, subs, count>>

\* A frame is stored first, so that one that cannot be sent now is sent by the
\* next connection.
CommandSubscribe ==
    /\ pc = "commands" /\ local # <<>> /\ Head(local) \in Subs
    /\ subs' = subs \cup {Head(local)}
    /\ Send({Head(local)})
    /\ local' = Tail(local)
    /\ UNCHANGED <<main, hist, cmd_q, pc, ret, host, shut, opened, missed, count>>

CommandsDone ==
    /\ pc = "commands" /\ local = <<>>
    /\ pc' = IF stop THEN "exit" ELSE IF ws = "open" THEN "ping" ELSE "check"
    /\ UNCHANGED <<main, hist, cmd_q, local, ret, conn, subs, count>>

\* The ping is due or not; it is sent, or its error closes the stream.
Ping ==
    /\ pc = "ping"
    /\ \/ pc' = "heartbeat" /\ UNCHANGED <<ret, ws, failures, give_up, fatal>>
       \/ /\ ws' = "closed"
          /\ IF stop
             THEN pc' = "heartbeat" /\ UNCHANGED <<ret, failures, give_up, fatal>>
             ELSE DoReconnect("heartbeat")
    /\ UNCHANGED <<main, hist, cmd_q, local, host, shut, sent, opened, missed, subs,
                   tried, max_reconnects>>

\* The text heartbeat is not due, is sent, or cannot be sent.  It is in the
\* same block as the ping: it is tried even if the ping failed, the reconnect
\* too, and the loop has given up.
Heartbeat ==
    /\ pc = "heartbeat"
    /\ \/ pc' = "check" /\ UNCHANGED <<ret, ws, failures, give_up, fatal>>
       \/ /\ TextPing
          /\ ws' = "closed"
          /\ DoReconnect("check")
    /\ UNCHANGED <<main, hist, cmd_q, local, host, shut, sent, opened, missed, subs,
                   tried, max_reconnects>>

\* mutant: an open stream is read before give_up is looked at
BadCheck ==
    /\ pc = "check"
    /\ IF give_up \/ ws = "open" \/ ~host \/ stop
       THEN /\ pc' = IF ws = "open" THEN "read" ELSE IF give_up THEN "exit" ELSE "top"
            /\ UNCHANGED <<ret, failures, give_up, fatal>>
       ELSE DoReconnect("top")
    /\ UNCHANGED <<main, hist, cmd_q, local, conn, subs, tried, max_reconnects>>

Check ==
    /\ pc = "check"
    /\ IF give_up \/ ws = "open" \/ ~host \/ stop
       THEN /\ pc' = IF give_up THEN "exit" ELSE IF ws = "open" THEN "read" ELSE "top"
            /\ UNCHANGED <<ret, failures, give_up, fatal>>
       ELSE DoReconnect("top")
    /\ UNCHANGED <<main, hist, cmd_q, local, conn, subs, tried, max_reconnects>>

\* A message, handled by on_msg_ or dropped as the answer to a heartbeat.
ReadMessage ==
    /\ pc = "read" /\ ~shut
    /\ pc' = "top"
    /\ UNCHANGED <<main, hist, cmd_q, local, ret, conn, subs, count>>

\* timed_out, from the kernel: no reason to reconnect as such, but the stream
\* may have failed with it.
ReadTimeout ==
    /\ pc = "read" /\ ~shut
    /\ ws' \in {ws, "closed"}
    /\ pc' = IF stop THEN "exit" ELSE "top"
    /\ UNCHANGED <<main, hist, cmd_q, local, ret, host, shut, sent, opened, missed, subs,
                   count>>

\* operation_aborted ends the loop, whether or not a stop was requested.
ReadAborted ==
    /\ pc = "read"
    /\ ws' = "closed"
    /\ aborted' = (aborted \/ ~stop)
    /\ pc' = "exit"
    /\ UNCHANGED <<main, late, cmd_q, local, ret, host, shut, sent, opened, missed, subs,
                   count>>

\* Any other error.
ReadError ==
    /\ pc = "read"
    /\ ws' = "closed"
    /\ IF stop
       THEN pc' = "exit" /\ UNCHANGED <<ret, failures, give_up, fatal>>
       ELSE DoReconnect("top")
    /\ UNCHANGED <<main, hist, cmd_q, local, host, shut, sent, opened, missed, subs,
                   tried, max_reconnects>>

Exit ==
    /\ pc = "exit"
    /\ pc' = "ended"
    /\ ws' = IF stop THEN ws ELSE "closed"
    /\ UNCHANGED <<main, hist, cmd_q, local, ret, host, shut, sent, opened, missed, subs, count>>

Reader ==
    \/ Top \/ CommandConnect \/ TcpConnect \/ Handshake \/ Resubscribe
    \/ CommandSubscribe \/ CommandsDone
    \/ Ping \/ Heartbeat \/ Check
    \/ ReadMessage \/ ReadTimeout \/ ReadAborted \/ ReadError
    \/ Backoff \/ Exit

Main ==
    \/ \E c \in Commands : PushCommand(c)
    \/ Start \/ ExitOnFatal \/ RequestStop \/ CloseSocket \/ Join

Next == Main \/ Reader

Spec == Init /\ [][Next]_vars

\* The reader is in a call that ends when the peer sends something, or when the
\* socket is closed: a handshake, the read, the closing handshake.
Waits ==
    /\ ~shut
    /\ \/ pc \in {"handshake", "read"}
       \/ pc = "exit" /\ ~stop /\ ws = "open"

\* Both threads are scheduled.  The resolver and the TCP connect end by the
\* limits of the system; the few bytes of a frame fit the socket's buffer.  No
\* call of Waits need ever end.  Whether a signal comes and what the network
\* answers is left open.
FairSpec ==
    /\ Spec
    /\ WF_vars(~Waits /\ Reader)
    /\ WF_vars(CloseSocket \/ Join \/ ExitOnFatal)

----------------------------------------------------------------------------
(* Properties *)

TypeOK ==
    /\ owner \in {"setup", "running", "closing", "joining", "stopped", "exited"}
    /\ todo \in SUBSET Commands /\ stop \in BOOLEAN
    /\ cmd_q \in Seq(Commands) /\ local \in Seq(Commands)
    /\ pc \in {"unstarted", "top", "commands", "connect", "handshake", "resubscribe",
               "ping", "heartbeat", "check", "read", "backoff", "exit", "ended"}
    /\ ret \in {"commands", "top", "heartbeat", "check"}
    /\ host \in BOOLEAN /\ ws \in {"closed", "open"} /\ shut \in BOOLEAN
    /\ subs \in SUBSET Subs /\ sent \in SUBSET Subs
    /\ max_reconnects \in Limits
    /\ failures \in 0..max_reconnects + 1 /\ tried \in 0..max_reconnects
    /\ give_up \in BOOLEAN /\ fatal \in BOOLEAN
    /\ opened \in BOOLEAN /\ missed \in BOOLEAN
    /\ late \in BOOLEAN /\ aborted \in BOOLEAN

\* The reader never waits for messages on a connection that lacks one of the
\* subscriptions asked for, however the commands were ordered, whichever of
\* them met a closed stream and however often the connection was replaced
\* (UpbitWebSocketClient.cpp:256-262, 362-388).
SubscribedWhenReading ==
    pc = "read" /\ ws = "open" => subs \subseteq sent

\* A connection that replaced another one is read only after the recovery of
\* the orders was requested: no fill that happened in between stays unnoticed
\* (UpbitWebSocketClient.cpp:334-341, CoinBot.cpp:217-221).
RecoveryRequested ==
    pc = "read" /\ ws = "open" => ~missed

\* A loop that has given up never reads again, even if a late heartbeat
\* reconnected it (UpbitWebSocketClient.cpp:410-422).
NoReadAfterGiveUp == pc = "read" => ~give_up

\* The reader ends because it was told to, or after it told the main thread,
\* which restarts the program.  Only an aborted read ends it with neither
\* (UpbitWebSocketClient.cpp:342-350, 448; CoinBot.cpp:238-244).
EndIsReported == pc = "ended" => stop \/ fatal \/ aborted

\* The program is only given up after max_reconnect_attempts connections in a
\* row really failed, unless it is stopping anyway
\* (UpbitWebSocketClient.cpp:342-349).
FatalAfterAttempts ==
    [][fatal' /\ ~fatal => stop \/ tried' >= max_reconnects]_vars

\* stop() returns, whatever the reader is doing when it is called, unless the
\* reader made a new connection after stop had closed the old socket and its
\* peer never says anything (UpbitWebSocketClient.cpp:66-84).
StopEnds ==
    \/ stop ~> owner = "stopped"
    \/ <>[](owner = "joining" /\ late /\ Waits)

\* A lost connection is replaced, or the main thread leaves to be restarted: the
\* program never runs on without its stream, unless a peer that accepted the
\* connection never answers a handshake, or an aborted read ended the reader
\* (UpbitWebSocketClient.cpp:334-350, 448; CoinBot.cpp:238-244).
OutageEnds ==
    \/ (host /\ ws = "closed" /\ ~aborted)
          ~> (ws = "open" \/ owner \notin {"setup", "running"})
    \/ <>[](pc = "handshake")

============================================================================
