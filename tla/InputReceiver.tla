--------------------------- MODULE InputReceiver ---------------------------
(***************************************************************************)
(* input_receiver.cpp: InputReceiver, its thread (an Ff::Thread), which    *)
(* owns the connection to the receiver, and the main thread, which draws   *)
(* frames: it pumps the events, and then maybe handles a click.            *)
(***************************************************************************)
EXTENDS Naturals, Sequences

CONSTANTS
    HIGH, LOW,      \* event queue saturation: more than HIGH, fewer than LOW
    MaxStarts, MaxRequests, MaxMsgs     \* bounds: Start(), clicks, messages

ASSUME ReceiverAssumption ==
    /\ LOW \in Nat \ {0} /\ HIGH \in Nat /\ LOW <= HIGH
    /\ MaxStarts \in Nat /\ MaxRequests \in Nat /\ MaxMsgs \in Nat

VARIABLES
    mpc,            \* where the main thread is
    tpc,            \* where the receiver thread is
    abort,          \* Ff::Thread::_abort
    state,          \* _state
    port,           \* _port is not empty
    commandQueue, eventQueue,
    saturated,      \* _eventQueueSaturation
    getCb, setCb,   \* _getConfigCb, _setConfigCb: whose request it is, or 0
    pollNext,       \* the config window has another layer to poll (POLL_POLL)
    command,        \* the command that the thread executes
    msgSeq,         \* _msgSeq
    starts, reqs,   \* history: number of Start() and of requests
    silent,         \* history: there was a SetConfig() without a callback
    lastSeq, warned \* history: last message delivered, and a saturation since

callbacks == <<getCb, setCb, pollNext>>
queues == <<commandQueue, eventQueue, saturated>>
asked == <<starts, reqs, silent>>
seen == <<lastSeq, warned>>
main == <<mpc, callbacks, asked, seen>>
thread == <<tpc, command, msgSeq>>
vars == <<main, thread, abort, state, port, commandQueue, eventQueue, saturated>>

(* SETNONE is SETCONFIG with neither ram nor bbr nor flash                  *)
Ops == {"BAUD", "RESET", "SEND", "GETCONFIG", "SETCONFIG", "SETNONE"}
SetOps == {"SETCONFIG", "SETNONE"}
NoCommand == [op |-> "NOOP", id |-> 0]

Init ==
    /\ mpc = "loop" /\ tpc = "none" /\ abort = FALSE
    /\ state = "IDLE" /\ port = FALSE
    /\ commandQueue = <<>> /\ eventQueue = <<>> /\ saturated = FALSE
    /\ getCb = 0 /\ setCb = 0 /\ pollNext = FALSE
    /\ command = NoCommand /\ msgSeq = 0
    /\ starts = 0 /\ reqs = 0 /\ silent = FALSE
    /\ lastSeq = 0 /\ warned = FALSE
-----------------------------------------------------------------------------
(* The main thread                                                         *)

(* Loop(): take one event from the queue and dispatch it. The uid, the     *)
(* address of the member, is the same for all requests: it always matches  *)
LoopEvent ==
    /\ mpc = "loop" /\ eventQueue # <<>>
    /\ LET e == Head(eventQueue)
       IN  /\ CASE e.type = "GETCONFIG" -> /\ getCb' = 0 /\ UNCHANGED setCb
                                           /\ pollNext' \in {FALSE, getCb # 0}
                [] e.type = "SETCONFIG" -> setCb' = 0 /\ UNCHANGED <<getCb, pollNext>>
                [] OTHER                -> UNCHANGED <<getCb, setCb, pollNext>>
           /\ lastSeq' = IF e.type = "MSG" THEN e.id ELSE lastSeq
           /\ warned' = (e.type = "SATURATED" \/ (warned /\ e.type # "MSG"))
    /\ eventQueue' = Tail(eventQueue)
    /\ UNCHANGED <<mpc, asked, thread, abort, state, port, commandQueue, saturated>>

LoopDone ==
    /\ mpc = "loop" /\ eventQueue = <<>>
    /\ mpc' = "controls"
    /\ UNCHANGED <<callbacks, asked, seen, thread, abort, state, port, queues>>

NextFrame ==
    /\ mpc = "controls" /\ mpc' = "loop"
    /\ UNCHANGED <<callbacks, asked, seen, thread, abort, state, port, queues>>

(* Start(), up to the join() of an earlier thread in Ff::Thread::Start()    *)
Start ==
    /\ mpc = "controls" /\ state = "IDLE" /\ starts < MaxStarts
    /\ eventQueue' = <<>> /\ commandQueue' = <<>>
    /\ starts' = starts + 1
    /\ port' = TRUE /\ abort' = TRUE
    /\ lastSeq' = IF tpc \in {"none", "exited"} THEN 0 ELSE lastSeq
    /\ warned' = IF tpc \in {"none", "exited"} THEN FALSE ELSE warned
    /\ mpc' = "restart"
    /\ UNCHANGED <<callbacks, reqs, silent, thread, state, saturated>>

Started ==
    /\ mpc = "restart" /\ tpc \in {"none", "exited"}
    /\ abort' = FALSE /\ tpc' = "prep" /\ command' = NoCommand
    /\ mpc' = "loop"
    /\ UNCHANGED <<callbacks, asked, seen, msgSeq, state, port, queues>>

(* Stop(): the thread is told to stop, and joined                           *)
Stop ==
    /\ mpc = "controls" /\ tpc # "none"
    /\ abort' = TRUE
    /\ mpc' = "join"
    /\ UNCHANGED <<callbacks, asked, seen, thread, state, port, queues>>

Stopped ==
    /\ mpc = "join" /\ tpc = "exited"
    /\ tpc' = "none"
    /\ mpc' = "loop"
    /\ UNCHANGED <<callbacks, asked, seen, command, msgSeq, abort, state, port, queues>>

SendCommand(op) ==
    /\ mpc = "controls" /\ reqs < MaxRequests
    /\ reqs' = reqs + 1
    /\ commandQueue' = Append(commandQueue, [op |-> op, id |-> reqs + 1])
    /\ mpc' = "loop"
    /\ UNCHANGED <<starts, seen, thread, abort, state, port, eventQueue, saturated>>

(* Fault: an earlier request is forgotten                                   *)
GetConfigFault ==
    /\ state = "READY" \/ pollNext
    /\ SendCommand("GETCONFIG")
    /\ getCb' = reqs + 1 /\ pollNext' = FALSE
    /\ UNCHANGED <<setCb, silent>>

(* The config window starts to poll when the receiver is ready, and then    *)
(* polls one layer after the other, whatever the state is by then. When a   *)
(* callback is pending, the call does nothing.                              *)
GetConfig ==
    /\ getCb = 0
    /\ state = "READY" \/ pollNext
    /\ SendCommand("GETCONFIG")
    /\ getCb' = reqs + 1 /\ pollNext' = FALSE
    /\ UNCHANGED <<setCb, silent>>

(* The config window has a callback, and lets the user choose the layers,  *)
(* or none. The messages window has no callback, and always sets the RAM.  *)
SetConfig ==
    /\ setCb = 0 /\ state = "READY"
    /\ \/ /\ \E op \in SetOps : SendCommand(op)
          /\ setCb' = reqs + 1 /\ UNCHANGED silent
       \/ SendCommand("SETCONFIG") /\ silent' = TRUE /\ UNCHANGED setCb
    /\ UNCHANGED <<getCb, pollNext>>

(* SetBaudrate(), Reset(), Send()                                          *)
Request(op) ==
    /\ op \in {"BAUD", "RESET", "SEND"} /\ state = "READY"
    /\ SendCommand(op)
    /\ UNCHANGED <<callbacks, silent>>

Main ==
    \/ LoopEvent \/ LoopDone \/ NextFrame \/ Start \/ Started \/ Stop \/ Stopped
    \/ GetConfig \/ SetConfig \/ \E op \in Ops : Request(op)
-----------------------------------------------------------------------------
(* The receiver thread                                                     *)

Other == [type |-> "OTHER", id |-> 0]       \* EPOCH, ERROR, WARNING, NOTICE

(* Fault: no complaint                                                     *)
SendEventFault(q, e) ==
    LET size == Len(q.events)
        sat == IF size > HIGH THEN TRUE ELSE IF size < LOW THEN FALSE ELSE q.sat
    IN  [sat |-> sat, events |-> IF ~sat \/ e.type # "MSG" THEN Append(q.events, e)
                                 ELSE q.events]

(* _SendEvent(): when the queue is saturated, messages are dropped          *)
SendEvent(q, e) ==
    LET size == Len(q.events)
        sat == IF size > HIGH THEN TRUE ELSE IF size < LOW THEN FALSE ELSE q.sat
        complaint == IF sat /\ ~q.sat THEN <<[type |-> "SATURATED", id |-> 0]>> ELSE <<>>
    IN  [sat |-> sat,
         events |-> (q.events \o complaint) \o (IF ~sat \/ e.type # "MSG" THEN <<e>> ELSE <<>>)]

Queue == [sat |-> saturated, events |-> eventQueue]
Sent(e) == SendEvent(Queue, e)
Becomes(q) == eventQueue' = q.events /\ saturated' = q.sat

(* Fault: still IDLE while it connects                                      *)
ThreadPrepareFault ==
    /\ tpc = "prep"
    /\ UNCHANGED state
    /\ tpc' = "connecting"
    /\ msgSeq' = 0
    /\ Becomes(Sent(Other))
    /\ UNCHANGED <<main, command, abort, port, commandQueue>>

(* _ThreadPrepare()                                                         *)
ThreadPrepare ==
    /\ tpc = "prep"
    /\ state' = "BUSY"
    /\ tpc' = "connecting"
    /\ msgSeq' = 0
    /\ Becomes(Sent(Other))
    /\ UNCHANGED <<main, command, abort, port, commandQueue>>

(* rxOpen() succeeds, or fails (as it does for an empty port), or there is  *)
(* not even an Ff::Rx                                                       *)
Connect ==
    /\ tpc = "connecting" /\ port
    /\ state' = "READY"
    /\ tpc' = "check"
    /\ Becomes(Sent(Other))
    /\ UNCHANGED <<main, command, msgSeq, abort, port, commandQueue>>

ConnectFails ==
    /\ tpc = "connecting"
    /\ tpc' \in {"clean", "cleanNoRx"}
    /\ Becomes(Sent(Other))
    /\ UNCHANGED <<main, command, msgSeq, abort, state, port, commandQueue>>

(* Fault: _abort is not checked                                            *)
CheckFault ==
    /\ tpc = "check"
    /\ tpc' = "pump"
    /\ UNCHANGED <<main, command, msgSeq, abort, state, port, queues>>

(* while (!abort && !thread->ShouldAbort())                                 *)
Check ==
    /\ tpc = "check"
    /\ tpc' = IF abort THEN "clean" ELSE "pump"
    /\ UNCHANGED <<main, command, msgSeq, abort, state, port, queues>>

Msg == [type |-> "MSG", id |-> msgSeq + 1]

(* A message: the epoch that it ends, the message, and what it warns of     *)
Pump ==
    /\ tpc = "pump" /\ msgSeq < MaxMsgs
    /\ msgSeq' = msgSeq + 1
    /\ \E epoch \in {Queue, Sent(Other)} :
        LET q == SendEvent(epoch, Msg) IN Becomes(q) \/ Becomes(SendEvent(q, Other))
    /\ UNCHANGED <<main, tpc, command, abort, state, port, commandQueue>>

PumpDone ==
    /\ tpc = "pump"
    /\ tpc' = "command"
    /\ UNCHANGED <<main, command, msgSeq, abort, state, port, queues>>

(* _ReceiverMsgCb(): a message while the thread waits for an answer         *)
MsgCallback ==
    /\ tpc \in {"connecting", "exec"} /\ msgSeq < MaxMsgs
    /\ msgSeq' = msgSeq + 1
    /\ Becomes(Sent(Msg))
    /\ UNCHANGED <<main, tpc, command, abort, state, port, commandQueue>>

(* Pop a command and begin to execute it                                    *)
PopCommand ==
    /\ tpc = "command" /\ commandQueue # <<>> /\ Head(commandQueue).op # "SETNONE"
    /\ command' = Head(commandQueue)
    /\ commandQueue' = Tail(commandQueue)
    /\ IF command'.op = "SEND" THEN UNCHANGED state ELSE state' = "BUSY"
    /\ Becomes(IF command'.op \in {"SEND", "BAUD"} THEN Queue ELSE Sent(Other))
    /\ tpc' = "exec"
    /\ UNCHANGED <<main, msgSeq, abort, port>>

(* SETCONFIG without a layer: layers.substr(1) throws, before the receiver *)
(* is told anything. Ff::Thread catches that, and the thread is over.      *)
PopThrows ==
    /\ tpc = "command" /\ commandQueue # <<>> /\ Head(commandQueue).op = "SETNONE"
    /\ commandQueue' = Tail(commandQueue)
    /\ state' = "BUSY"
    /\ tpc' = "clean"
    /\ UNCHANGED <<main, command, msgSeq, abort, port, eventQueue, saturated>>

(* Fault: no answer when it failed                                         *)
FinishFault ==
    /\ tpc = "exec"
    /\ \/ Becomes(Sent(Other))
       \/ command.op = "GETCONFIG" /\ Becomes(Sent([type |-> "GETCONFIG", id |-> command.id]))
    /\ IF command.op \in {"RESET", "GETCONFIG", "SETCONFIG"}
       THEN state' = "READY" ELSE UNCHANGED state
    /\ command' = NoCommand
    /\ tpc' = "check"
    /\ UNCHANGED <<main, msgSeq, abort, port, commandQueue>>

(* The command succeeds or fails; both are said, and answered               *)
Finish ==
    /\ tpc = "exec"
    /\ LET answer == [type |-> command.op, id |-> command.id]
       IN  CASE command.op \in {"BAUD", "RESET"} -> Becomes(Sent(Other))
             [] command.op = "SEND"              -> Becomes(Queue)
             [] command.op = "GETCONFIG"         ->
                    \E q \in {Queue, Sent(Other)} : Becomes(SendEvent(q, answer))
             [] command.op = "SETCONFIG"         ->
                    \E q \in {Sent(Other), SendEvent(SendEvent(Sent(Other), Other), Other)} :
                        Becomes(SendEvent(q, answer))
    /\ IF command.op \in {"RESET", "GETCONFIG", "SETCONFIG"}
       THEN state' = "READY" ELSE UNCHANGED state
    /\ command' = NoCommand
    /\ tpc' = "check"
    /\ UNCHANGED <<main, msgSeq, abort, port, commandQueue>>

(* Sleep, and complain that there is no data; that is once in 5 s, so the  *)
(* main thread has had the time for all events before                      *)
Yield ==
    /\ tpc = "command" /\ commandQueue = <<>>
    /\ \/ UNCHANGED <<eventQueue, saturated>>
       \/ eventQueue = <<>> /\ Becomes(Sent(Other))
    /\ tpc' = "check"
    /\ UNCHANGED <<main, command, msgSeq, abort, state, port, commandQueue>>

(* _ThreadCleanup()                                                         *)
ThreadCleanup ==
    /\ \/ tpc = "clean" /\ Becomes(Sent(Other))
       \/ tpc = "cleanNoRx" /\ Becomes(Queue)
    /\ port' = FALSE /\ state' = "IDLE"
    /\ tpc' = "exited"
    /\ UNCHANGED <<main, command, msgSeq, abort, commandQueue>>

Receiver ==
    \/ ThreadPrepare \/ Connect \/ ConnectFails \/ Check \/ Pump \/ PumpDone \/ MsgCallback
    \/ PopCommand \/ PopThrows \/ Finish \/ Yield \/ ThreadCleanup

Next == Main \/ Receiver

Spec == Init /\ [][Next]_vars

(* Both threads run; the user need not click                               *)
FairSpec == Spec /\ WF_vars(Receiver) /\ WF_vars(Main)
-----------------------------------------------------------------------------
Alive == tpc \notin {"none", "exited"}
Ids(q, type) == {q[i].id : i \in {i \in 1 .. Len(q) : q[i].type = type}}

(* The request is queued, executed, or its answer is queued                *)
InProgress(op, id) ==
    \/ command = [op |-> op, id |-> id]
    \/ \E i \in 1 .. Len(commandQueue) : commandQueue[i] = [op |-> op, id |-> id]
    \/ id \in Ids(eventQueue, op)

(* Type invariant; a command is held only while it is executed, and none   *)
(* is executed that throws.                                                *)
TypeOK ==
    /\ mpc \in {"loop", "controls", "restart", "join"}
    /\ tpc \in {"none", "prep", "connecting", "check", "pump", "command", "exec", "clean",
                "cleanNoRx", "exited"}
    /\ abort \in BOOLEAN /\ port \in BOOLEAN /\ saturated \in BOOLEAN
    /\ silent \in BOOLEAN /\ pollNext \in BOOLEAN /\ warned \in BOOLEAN
    /\ state \in {"IDLE", "BUSY", "READY"}
    /\ commandQueue \in Seq([op : Ops, id : 1 .. MaxRequests])
    /\ command \in [op : Ops, id : 1 .. MaxRequests] \cup {NoCommand}
    /\ command # NoCommand <=> tpc = "exec"
    /\ command.op # "SETNONE"
    /\ eventQueue \in Seq([type : {"MSG", "OTHER", "SATURATED", "GETCONFIG", "SETCONFIG"},
                           id : Nat])
    /\ getCb \in 0 .. MaxRequests /\ setCb \in 0 .. MaxRequests
    /\ msgSeq \in 0 .. MaxMsgs /\ lastSeq \in 0 .. MaxMsgs
    /\ starts \in 0 .. MaxStarts /\ reqs \in 0 .. MaxRequests

(* Messages are delivered in order, and wherever some are missing the user *)
(* was told in between that the queue was saturated. A new connection,     *)
(* which may follow one whose events are still queued, begins with 1.      *)
Stream ==
    <<[type |-> "MSG", id |-> lastSeq]>>
        \o (IF warned THEN <<[type |-> "SATURATED", id |-> 0]>> ELSE <<>>) \o eventQueue
NextMsg(i, j) ==
    /\ i < j /\ Stream[i].type = "MSG" /\ Stream[j].type = "MSG"
    /\ \A k \in i + 1 .. j - 1 : Stream[k].type # "MSG"
GapsAnnounced ==
    \A i, j \in 1 .. Len(Stream) : NextMsg(i, j) =>
        \/ Stream[j].id \in {Stream[i].id + 1, 1}
        \/ \E k \in i + 1 .. j - 1 : Stream[k].type = "SATURATED"

(* The uid does not tell requests apart, but the pending callback does: to *)
(* the windows the receiver is a ReceiverService, which answers a          *)
(* GetConfig() callback with its own request, and a SetConfig() callback   *)
(* too if all calls have one, but never one for a request without a layer. *)
ConfigRequest == [op : {"GETCONFIG"} \cup SetOps, id : 1 .. MaxRequests]
RequestOf(e) == [op |-> e.type, id |-> e.id]

(* The elements of s that are in C, in their order                         *)
Selected(s, C) ==
    LET upTo[i \in 0 .. Len(s)] ==
            IF i = 0 THEN <<>>
            ELSE IF s[i] \in C THEN Append(upTo[i - 1], s[i]) ELSE upTo[i - 1]
    IN  upTo[Len(s)]
ConfigCommands == Selected(commandQueue, ConfigRequest)
ConfigAnswers ==
    Selected([i \in 1 .. Len(eventQueue) |-> RequestOf(eventQueue[i])], ConfigRequest)

Service == INSTANCE ReceiverService WITH
    Requests <- 1 .. MaxRequests, NoRequest <- 0, link <- state,
    commands <- ConfigCommands, answers <- ConfigAnswers,
    executing <- IF command \in ConfigRequest THEN command ELSE NoCommand

ImplementsService == Service!Spec

(* IDLE, when Start() is allowed, means that the thread does not touch the *)
(* connection, the port's name or the queues any more, or not yet.         *)
IdleIsIdle == state = "IDLE" => tpc \in {"none", "prep", "exited"}

(* Stop() returns: the thread never waits for the main thread.             *)
StopReturns == mpc \in {"join", "restart"} ~> mpc \notin {"join", "restart"}

(* A request that reached the thread is answered, also when it fails and   *)
(* when the queue is saturated, unless the thread is stopped or dies.      *)
GetConfigAnswered ==
    [](getCb # 0 /\ Alive /\ InProgress("GETCONFIG", getCb) => <>(getCb = 0 \/ ~Alive))
=============================================================================
