--------------------------- MODULE LogfilePlayer ---------------------------
(***************************************************************************)
(* input_logfile.cpp: InputLogfile, its player thread (an Ff::Thread), and *)
(* the main thread, which draws one frame after the other: it pumps the    *)
(* events and then maybe handles one click on the controls.                *)
(* A logfile is a sequence of messages 1 .. NumMsgs. Sleep() only delays:  *)
(* it is a step that the thread takes at any later time.                   *)
(***************************************************************************)
EXTENDS Naturals, Sequences, FiniteSets, SequencesExt

CONSTANTS
    NumMsgs,        \* messages in the file
    EpochEnds,      \* the messages at which epochCollect() returns an epoch
    Warnings,       \* UBX-INF and NMEA TXT messages that warn of something
    NameSets,       \* the messages that match the argument of StepMsg()
    ChunkMsgs,      \* messages in what one call of Logfile::Read() returns
    EVENT_QUEUE_MAX_SIZE,
    MaxOpens, MaxCommands       \* bounds: of Open(), and of clicks after each

ASSUME PlayerAssumption ==
    /\ NumMsgs \in Nat
    /\ EpochEnds \subseteq 1 .. NumMsgs
    /\ Warnings \subseteq 1 .. NumMsgs
    /\ NameSets \subseteq (SUBSET (1 .. NumMsgs)) \ {{}}
    /\ ChunkMsgs \in Nat \ {0}
    /\ EVENT_QUEUE_MAX_SIZE \in Nat
    /\ MaxOpens \in Nat /\ MaxCommands \in [1 .. MaxOpens -> Nat]

ParserCap == 2 * ChunkMsgs      \* PARSER_BUF_SIZE and PARSER_MAX_ANY_SIZE

VARIABLES
    mpc,            \* where the main thread is
    pending,        \* the command that it is about to push, or that follows Close()
    tpc,            \* where the player thread is
    abort,          \* Ff::Thread::_abort
    playState,      \* _playState
    commandQueue, eventQueue,
    fileOpen, filePos,          \* _logfile
    seekable,       \* Logfile::CanSeek(): the file is not compressed
    reopened,       \* history: the thread has closed the file since Open()
    shared,         \* history: a file was opened while the thread was using _logfile
    parser,         \* the messages in the thread's PARSER_t
    stepEpoch, stepMsg,         \* the thread's flags, stepMsg with stepMsgName
    cur,            \* the message that the thread is working on
    opens, issued,  \* history: number of Open(), and of commands since then
    lastOp,         \* history: the last command executed that sets _playState
    run, base,      \* history: number of times positioned, and the position
    got             \* history: the messages of this run handed to the data cb

main == <<mpc, pending, opens, issued>>
thread == <<tpc, parser, stepEpoch, stepMsg, cur>>
handle == <<fileOpen, seekable, reopened, shared>>
file == <<handle, filePos, run, base>>
vars == <<main, thread, file, abort, playState, commandQueue, eventQueue, lastOp, got>>

Ops == {"STOP", "PAUSE", "PLAY", "STEP_EPOCH", "STEP_MSG", "SEEK"}
Command(op, arg) == [op |-> op, arg |-> arg, gen |-> opens]
None == [op |-> "NOOP", arg |-> {}, gen |-> 0]
Reopen == [op |-> "OPEN", arg |-> {}, gen |-> 0]

Init ==
    /\ mpc = "loop" /\ pending = None
    /\ tpc = "none" /\ abort = FALSE
    /\ playState = "CLOSED"
    /\ commandQueue = <<>> /\ eventQueue = <<>>
    /\ fileOpen = FALSE /\ filePos = 0 /\ seekable = TRUE
    /\ reopened = FALSE /\ shared = FALSE
    /\ parser = <<>> /\ stepEpoch = FALSE /\ stepMsg = {} /\ cur = 0
    /\ opens = 0 /\ issued = 0 /\ lastOp = "NOOP"
    /\ run = 0 /\ base = 0 /\ got = <<>>
-----------------------------------------------------------------------------
(* The main thread                                                         *)

(* Loop(): one event is taken from the queue and handed to the data cb     *)
LoopEvent ==
    /\ mpc = "loop" /\ eventQueue # <<>>
    /\ eventQueue' = Tail(eventQueue)
    /\ got' = IF Head(eventQueue).run = run /\ Head(eventQueue).msg > 0
              THEN Append(got, Head(eventQueue).msg) ELSE got
    /\ UNCHANGED <<main, thread, file, abort, playState, commandQueue, lastOp>>

LoopDone ==
    /\ mpc = "loop" /\ eventQueue = <<>>
    /\ mpc' = "controls"
    /\ UNCHANGED <<pending, opens, issued, thread, file, abort, playState, commandQueue,
                   eventQueue, lastOp, got>>

(* CanPlay(), CanStop(), CanPause(), CanStep(), CanSeek()                  *)
Can(op) ==
    CASE op = "PLAY"  -> playState \in {"STOPPED", "PAUSED"}
      [] op = "STOP"  -> playState \in {"PLAYING", "PAUSED"}
      [] op = "PAUSE" -> playState \in {"PLAYING", "STOPPED"}
      [] op = "SEEK"  -> playState \in {"PAUSED", "STOPPED"} /\ seekable
      [] OTHER        -> playState # "CLOSED"

Args(op) ==
    CASE op = "STEP_MSG" -> NameSets
      [] op = "SEEK"     -> {{p} : p \in 0 .. NumMsgs}
      [] OTHER           -> {{}}

(* Play(), Stop(), Pause(), StepMsg(), StepEpoch(), Seek(): the main       *)
(* thread takes _commandMutex, and pushes the command under it             *)
Click(op) ==
    /\ mpc = "controls" /\ Can(op) /\ issued < MaxCommands[opens]
    /\ \E arg \in Args(op) : pending' = Command(op, arg)
    /\ mpc' = "push"
    /\ UNCHANGED <<opens, issued, thread, file, abort, playState, commandQueue, eventQueue,
                   lastOp, got>>

PushCommand ==
    /\ mpc = "push"
    /\ commandQueue' = Append(commandQueue, pending)
    /\ issued' = issued + 1
    /\ mpc' = "loop" /\ pending' = None
    /\ UNCHANGED <<opens, thread, file, abort, playState, eventQueue, lastOp, got>>

NoClick ==
    /\ mpc = "controls" /\ mpc' = "loop"
    /\ UNCHANGED <<pending, opens, issued, thread, file, abort, playState, commandQueue,
                   eventQueue, lastOp, got>>

(* Open() of a file that can be opened, when none is open. It may be       *)
(* compressed. The thread starts.                                          *)
OpenFile(next) ==
    /\ opens' = opens + 1 /\ issued' = 0
    /\ fileOpen' = TRUE /\ filePos' = 0 /\ seekable' \in BOOLEAN
    /\ reopened' = FALSE /\ UNCHANGED shared
    /\ run' = run + 1 /\ base' = 0 /\ got' = <<>> /\ lastOp' = "NOOP"
    /\ tpc' = "prep" /\ abort' = FALSE
    /\ parser' = <<>> /\ stepEpoch' = FALSE /\ stepMsg' = {} /\ cur' = 0
    /\ mpc' = next /\ pending' = None

Open ==
    /\ mpc = "controls" /\ ~fileOpen /\ tpc = "none" /\ opens < MaxOpens
    /\ OpenFile("loop")
    /\ UNCHANGED <<playState, commandQueue, eventQueue>>

(* Open() when the thread runs, but has closed the file to open it again:  *)
(* IsOpen() says no, so that Close() is not called. OpenRead() succeeds,   *)
(* and Ff::Thread::Start() first stops the thread, _abort and join().      *)
OpenShared ==
    /\ mpc = "controls" /\ ~fileOpen /\ tpc # "none" /\ opens < MaxOpens
    /\ opens' = opens + 1 /\ issued' = 0
    /\ fileOpen' = TRUE /\ filePos' = 0 /\ seekable' \in BOOLEAN
    /\ shared' = TRUE /\ UNCHANGED reopened
    /\ run' = run + 1 /\ base' = 0 /\ got' = <<>> /\ lastOp' = "NOOP"
    /\ abort' = TRUE
    /\ mpc' = "restart"
    /\ UNCHANGED <<pending, thread, playState, commandQueue, eventQueue>>

(* Its thread starts, where the last one left the file and the queue       *)
Restarted ==
    /\ mpc = "restart" /\ tpc = "exited"
    /\ tpc' = "prep" /\ abort' = FALSE
    /\ parser' = <<>> /\ stepEpoch' = FALSE /\ stepMsg' = {} /\ cur' = 0
    /\ run' = run + 1 /\ base' = filePos /\ got' = <<>> /\ lastOp' = "NOOP"
    /\ mpc' = "loop"
    /\ UNCHANGED <<pending, opens, issued, handle, filePos, playState, commandQueue, eventQueue>>

(* Fault: the file is closed before the thread is stopped                   *)
CloseFault ==
    /\ mpc = "controls" /\ tpc # "none"
    /\ pending' = None
    /\ fileOpen' = FALSE
    /\ abort' = TRUE
    /\ mpc' = "join"
    /\ UNCHANGED <<opens, issued, thread, seekable, reopened, shared, filePos, run, base,
                   playState, commandQueue, eventQueue, lastOp, got>>

(* Close(), also called by Open(): stop the thread (set _abort and join)   *)
Close ==
    /\ mpc = "controls" /\ tpc # "none"
    /\ \/ pending' = None
       \/ fileOpen /\ opens < MaxOpens /\ pending' = Reopen
    /\ abort' = TRUE
    /\ mpc' = "join"
    /\ UNCHANGED <<opens, issued, thread, file, playState, commandQueue, eventQueue, lastOp, got>>

(* Fault: the queue is not cleared                                          *)
JoinedFault ==
    /\ mpc = "join" /\ tpc = "exited"
    /\ playState' = "CLOSED"
    /\ UNCHANGED commandQueue
    /\ IF pending = Reopen
       THEN OpenFile("loop")
       ELSE /\ fileOpen' = FALSE
            /\ tpc' = "none" /\ mpc' = "loop"
            /\ UNCHANGED <<pending, opens, issued, abort, seekable, reopened, shared,
                           filePos, run, base, got, lastOp, parser, stepEpoch, stepMsg, cur>>
    /\ UNCHANGED eventQueue

(* Close() after the join(), and the rest of Open() if that called Close() *)
Joined ==
    /\ mpc = "join" /\ tpc = "exited"
    /\ playState' = "CLOSED"
    /\ commandQueue' = <<>>
    /\ IF pending = Reopen
       THEN OpenFile("loop")
       ELSE /\ fileOpen' = FALSE
            /\ tpc' = "none" /\ mpc' = "loop"
            /\ UNCHANGED <<pending, opens, issued, abort, seekable, reopened, shared,
                           filePos, run, base, got, lastOp, parser, stepEpoch, stepMsg, cur>>
    /\ UNCHANGED eventQueue

Main ==
    \/ LoopEvent \/ LoopDone
    \/ \E op \in Ops : Click(op)
    \/ PushCommand \/ NoClick \/ Open \/ OpenShared \/ Restarted \/ Close \/ Joined
-----------------------------------------------------------------------------
(* The player thread                                                       *)

SendEvents(msgs) == eventQueue' = eventQueue \o [i \in 1 .. Len(msgs) |->
                                                    [run |-> run, msg |-> msgs[i]]]

(* _ThreadPrepare(), _ThreadCleanup()                                      *)
ThreadPrepare ==
    /\ tpc = "prep"
    /\ playState' = "STOPPED"
    /\ SendEvents(<<0>>)
    /\ tpc' = "poll"
    /\ UNCHANGED <<main, parser, stepEpoch, stepMsg, cur, file, abort, commandQueue, lastOp, got>>

ThreadCleanup ==
    /\ tpc = "clean"
    /\ playState' = "CLOSED"
    /\ SendEvents(<<0>>)
    /\ tpc' = "exited"
    /\ UNCHANGED <<main, parser, stepEpoch, stepMsg, cur, file, abort, commandQueue, lastOp, got>>

(* Faults: commands are ignored while idle; an idle thread does not abort   *)
PollFault1 ==
    /\ tpc = "poll"
    /\ tpc' = IF abort THEN "clean"
              ELSE IF commandQueue # <<>> /\ playState # "PAUSED" THEN "pop" ELSE "go"
    /\ UNCHANGED <<main, parser, stepEpoch, stepMsg, cur, file, abort, playState, commandQueue,
                   eventQueue, lastOp, got>>

PollFault2 ==
    /\ tpc = "poll"
    /\ tpc' = IF abort /\ playState = "PLAYING" THEN "clean"
              ELSE IF commandQueue # <<>> THEN "pop" ELSE "go"
    /\ UNCHANGED <<main, parser, stepEpoch, stepMsg, cur, file, abort, playState, commandQueue,
                   eventQueue, lastOp, got>>

(* The loop of _Thread(): check ShouldAbort(), and if there is a command    *)
Poll ==
    /\ tpc = "poll"
    /\ tpc' = IF abort THEN "clean" ELSE IF commandQueue # <<>> THEN "pop" ELSE "go"
    /\ UNCHANGED <<main, parser, stepEpoch, stepMsg, cur, file, abort, playState, commandQueue,
                   eventQueue, lastOp, got>>

(* Fault: what the parser holds is kept                                     *)
PositionFault(pos) ==
    /\ filePos' = pos /\ run' = run + 1 /\ base' = pos /\ got' = <<>>
    /\ UNCHANGED parser

(* Where the file is read next, and parserInit()                            *)
Position(pos) ==
    /\ filePos' = pos /\ run' = run + 1 /\ base' = pos /\ got' = <<>>
    /\ parser' = <<>>

(* The thread takes _eventMutex, pops a command and executes it. STOP of a *)
(* compressed file closes it: Logfile::Close() forgets the path, too, so   *)
(* that there is none if the file was not open. Seek() of a file that is   *)
(* closed or compressed does nothing.                                      *)
PopCommand ==
    /\ tpc = "pop"
    /\ LET c == Head(commandQueue)
           closes == c.op = "STOP" /\ ~seekable
       IN  /\ playState' = CASE c.op = "STOP"  -> IF closes THEN playState ELSE "STOPPED"
                             [] c.op = "PAUSE" -> "PAUSED"
                             [] c.op = "SEEK"  -> playState
                             [] OTHER          -> "PLAYING"
           /\ lastOp' = IF c.op = "SEEK" THEN lastOp ELSE c.op
           /\ stepEpoch' = (stepEpoch \/ c.op = "STEP_EPOCH")
           /\ stepMsg' = IF c.op = "STEP_MSG" THEN c.arg ELSE stepMsg
           /\ IF c.op = "STOP" /\ seekable THEN Position(0)
              ELSE IF c.op = "SEEK"
              THEN \E pos \in c.arg : Position(IF fileOpen /\ seekable THEN pos ELSE filePos)
              ELSE UNCHANGED <<filePos, run, base, got, parser>>
           /\ IF closes
              THEN fileOpen' = FALSE /\ reopened' = TRUE
                   /\ tpc' = IF fileOpen THEN "reopen" ELSE "reopenNone"
              ELSE UNCHANGED <<fileOpen, reopened>> /\ tpc' = "go"
    /\ commandQueue' = Tail(commandQueue)
    /\ UNCHANGED <<main, cur, seekable, shared, abort, eventQueue>>

(* OpenRead() of the same file, and the rest of STOP. It fails if a file   *)
(* has been opened meanwhile, or the file is no more; without a path, also *)
(* CanSeek() is true again.                                                *)
OpenAgain ==
    /\ tpc \in {"reopen", "reopenNone"}
    /\ IF fileOpen THEN UNCHANGED <<fileOpen, seekable>>
       ELSE \/ tpc = "reopen" /\ fileOpen' \in BOOLEAN /\ UNCHANGED seekable
            \/ tpc = "reopenNone" /\ seekable' = TRUE /\ UNCHANGED fileOpen
    /\ Position(IF fileOpen THEN filePos ELSE 0)
    /\ playState' = "STOPPED"
    /\ tpc' = "go"
    /\ UNCHANGED <<main, stepEpoch, stepMsg, cur, reopened, shared, abort, commandQueue,
                   eventQueue, lastOp>>

(* Player idle: sleep and look again. Otherwise process logfile data.       *)
Go ==
    /\ tpc = "go"
    /\ tpc' = IF playState \in {"STOPPED", "PAUSED"} THEN "poll" ELSE "process"
    /\ UNCHANGED <<main, parser, stepEpoch, stepMsg, cur, file, abort, playState, commandQueue,
                   eventQueue, lastOp, got>>
-----------------------------------------------------------------------------
(* parserProcess() has no message: get more data                            *)
ProcessNothing ==
    /\ tpc = "process" /\ parser = <<>>
    /\ tpc' = "read"
    /\ UNCHANGED <<main, parser, stepEpoch, stepMsg, cur, file, abort, playState, commandQueue,
                   eventQueue, lastOp, got>>

(* It has one, and then the loop ends: the message is gone                  *)
ProcessInterrupted ==
    /\ tpc = "process" /\ parser # <<>>
    /\ abort \/ commandQueue # <<>>
    /\ parser' = Tail(parser)
    /\ tpc' = "interrupted"
    /\ UNCHANGED <<main, stepEpoch, stepMsg, cur, file, abort, playState, commandQueue,
                   eventQueue, lastOp, got>>

(* It has one, which ends an epoch to which the user stepped: pause         *)
ProcessStepped ==
    /\ tpc = "process" /\ parser # <<>>
    /\ ~abort /\ commandQueue = <<>>
    /\ Head(parser) \in EpochEnds /\ stepEpoch
    /\ SendEvents(<<0>>)
    /\ stepEpoch' = FALSE /\ playState' = "PAUSED"
    /\ parser' = Tail(parser)
    /\ tpc' = "poll"
    /\ UNCHANGED <<main, stepMsg, cur, file, abort, commandQueue, lastOp, got>>

(* It has one, to send: first the epoch that it ends and its warning        *)
ProcessMsg ==
    /\ tpc = "process" /\ parser # <<>>
    /\ ~abort /\ commandQueue = <<>>
    /\ ~(Head(parser) \in EpochEnds /\ stepEpoch)
    /\ SendEvents((IF Head(parser) \in EpochEnds THEN <<0>> ELSE <<>>)
                    \o (IF Head(parser) \in Warnings THEN <<0>> ELSE <<>>))
    /\ cur' = Head(parser)
    /\ parser' = Tail(parser)
    /\ tpc' = "wait"
    /\ UNCHANGED <<main, stepEpoch, stepMsg, file, abort, playState, commandQueue, lastOp, got>>

(* Fault: no limit                                                          *)
QueueHasRoomFault == TRUE

QueueHasRoom == Len(eventQueue) <= EVENT_QUEUE_MAX_SIZE

(* Wait a bit if the event queue is too long                                *)
WaitRoom ==
    /\ tpc = "wait" /\ QueueHasRoom
    /\ tpc' = "send"
    /\ UNCHANGED <<main, parser, stepEpoch, stepMsg, cur, file, abort, playState, commandQueue,
                   eventQueue, lastOp, got>>

(* Send the message, and pause if the user stepped to it                    *)
SendMsg ==
    /\ tpc = "send"
    /\ SendEvents(<<cur>>)
    /\ cur' = 0
    /\ IF cur \in stepMsg
       THEN stepMsg' = {} /\ playState' = "PAUSED" /\ tpc' = "poll"
       ELSE UNCHANGED <<stepMsg, playState>> /\ tpc' = "process"
    /\ UNCHANGED <<main, parser, stepEpoch, file, abort, commandQueue, lastOp, got>>

(* Logfile::Read(), of nothing when no file is open                         *)
Chunk == IF fileOpen THEN [i \in 1 .. Min({ChunkMsgs, NumMsgs - filePos}) |-> filePos + i]
                     ELSE <<>>

(* Faults: a short read is taken for the end; no end                         *)
ReadFault1 ==
    /\ tpc \in {"read", "interrupted"}
    /\ IF Len(Chunk) < ChunkMsgs THEN playState' = "PAUSED" ELSE UNCHANGED playState
    /\ filePos' = filePos + Len(Chunk)
    /\ parser' = IF Len(Chunk) = ChunkMsgs /\ Len(parser \o Chunk) <= ParserCap
                 THEN parser \o Chunk ELSE parser
    /\ tpc' = "poll"
    /\ UNCHANGED <<main, stepEpoch, stepMsg, cur, handle, run, base, abort, commandQueue,
                   eventQueue, lastOp, got>>

ReadFault2 ==
    /\ tpc \in {"read", "interrupted"}
    /\ UNCHANGED playState
    /\ filePos' = filePos + Len(Chunk)
    /\ parser' = IF Len(parser \o Chunk) <= ParserCap THEN parser \o Chunk ELSE parser
    /\ tpc' = "poll"
    /\ UNCHANGED <<main, stepEpoch, stepMsg, cur, handle, run, base, abort, commandQueue,
                   eventQueue, lastOp, got>>

(* Get more logfile data; pause at the end. parserAdd() may overflow.       *)
Read ==
    /\ tpc \in {"read", "interrupted"}
    /\ IF Chunk = <<>> THEN playState' = "PAUSED" ELSE UNCHANGED playState
    /\ filePos' = filePos + Len(Chunk)
    /\ parser' = IF Len(parser \o Chunk) <= ParserCap THEN parser \o Chunk ELSE parser
    /\ tpc' = "poll"
    /\ UNCHANGED <<main, stepEpoch, stepMsg, cur, handle, run, base, abort, commandQueue,
                   eventQueue, lastOp, got>>

Player ==
    \/ ThreadPrepare \/ ThreadCleanup \/ Poll \/ PopCommand \/ OpenAgain \/ Go
    \/ ProcessNothing \/ ProcessInterrupted \/ ProcessStepped \/ ProcessMsg
    \/ WaitRoom \/ SendMsg \/ Read

Next == Main \/ Player

Spec == Init /\ [][Next]_vars

(* Both threads run; the user need not click                                *)
FairSpec == Spec /\ WF_vars(Player) /\ WF_vars(Main)
-----------------------------------------------------------------------------
Commands == [op : Ops \cup {"NOOP", "OPEN"}, arg : SUBSET (0 .. NumMsgs), gen : 0 .. MaxOpens]

(* Type invariant; the thread's parser never holds more than its buffer.   *)
TypeOK ==
    /\ mpc \in {"loop", "controls", "push", "join", "restart"}
    /\ pending \in Commands
    /\ tpc \in {"none", "prep", "poll", "pop", "reopen", "reopenNone", "go", "process", "wait",
                "send", "read", "interrupted", "clean", "exited"}
    /\ abort \in BOOLEAN /\ fileOpen \in BOOLEAN /\ seekable \in BOOLEAN
    /\ reopened \in BOOLEAN /\ shared \in BOOLEAN /\ stepEpoch \in BOOLEAN
    /\ playState \in {"CLOSED", "STOPPED", "PLAYING", "PAUSED"}
    /\ commandQueue \in Seq(Commands)
    /\ eventQueue \in Seq([run : Nat, msg : 0 .. NumMsgs])
    /\ filePos \in 0 .. NumMsgs /\ base \in 0 .. NumMsgs /\ cur \in 0 .. NumMsgs
    /\ parser \in Seq(1 .. NumMsgs) /\ Len(parser) <= ParserCap
    /\ stepMsg \subseteq 1 .. NumMsgs
    /\ opens \in 0 .. MaxOpens /\ issued \in Nat
    /\ lastOp \in Ops \cup {"NOOP"}
    /\ run \in Nat /\ got \in Seq(1 .. NumMsgs)

(* The check of the queue's length before each message keeps the queue to  *)
(* a few events more than EVENT_QUEUE_MAX_SIZE, although epochs, warnings  *)
(* and notices are sent without a check, and a closed file's events stay.  *)
(* A file opened while the thread was using _logfile is excepted.          *)
EventQueueBounded == ~shared => Len(eventQueue) <= EVENT_QUEUE_MAX_SIZE + 4

(* No command outlives the file it was meant for: the queue is empty when  *)
(* there is no thread, and holds only commands given since the last Open(). *)
(* Open() without Close() (OpenShared) does not clear it, and is excepted. *)
NoStaleCommand == ~shared =>
    /\ \A i \in 1 .. Len(commandQueue) : commandQueue[i].gen = opens
    /\ tpc \in {"none", "prep"} => commandQueue = <<>>

(* The thread has a file to use, unless it closed it itself, for STOP of a *)
(* compressed one. What the GUI enables by _playState fits what the thread *)
(* does: "Open" never while data is played, no command without a thread.   *)
FileReady ==
    /\ tpc \notin {"none", "exited"} => fileOpen \/ reopened
    /\ tpc \in {"pop", "reopen", "reopenNone", "go", "process", "wait", "send", "read",
                "interrupted"} => playState # "CLOSED"
    /\ tpc \in {"none", "exited"} => playState = "CLOSED"

(* The main thread opens or closes _logfile                                *)
MainUsesFile == mpc' # mpc /\ fileOpen' # fileOpen

(* The thread uses _logfile, which no mutex guards: it is there when the   *)
(* thread needs it, and the main thread opens and closes it only while     *)
(* there is no thread, as Close() joins first. With one exception: after   *)
(* the thread has executed STOP of a compressed file, Open() may find the  *)
(* file closed and open another while the thread runs (OpenShared).        *)
FileExclusive ==
    [][FileReady' /\ (MainUsesFile => tpc \in {"none", "exited"} \/ reopened)]_vars

(* The four places where messages of this run are                          *)
Mine == {i \in 1 .. Len(eventQueue) : eventQueue[i].run = run /\ eventQueue[i].msg > 0}
Delivered == Range(got)
OnQueue == {eventQueue[i].msg : i \in Mine}
InWork == {cur} \ {0}
InParser == Range(parser)

Increasing(s) == \A i, j \in 1 .. Len(s) : i < j => s[i] < s[j]
Before(S, T) == \A s \in S, t \in T : s < t

Ordered ==
    /\ Increasing(got) /\ Increasing(parser)
    /\ \A i, j \in Mine : i < j => eventQueue[i].msg < eventQueue[j].msg
    /\ Before(Delivered, OnQueue) /\ Before(Delivered \cup OnQueue, InWork)
    /\ Before(Delivered \cup OnQueue \cup InWork, InParser)
    /\ \A m \in Delivered \cup OnQueue \cup InWork \cup InParser : base < m /\ m <= filePos

(* Whatever is clicked while the thread plays: no message reaches the data *)
(* cb twice, none out of order, none from before the position sought to,   *)
(* also when the parser overflows and messages are lost. While Open() is   *)
(* waiting for a thread of the file before, that thread may mix the two.   *)
InOrder == mpc # "restart" => Ordered

(* If the user does nothing but start to play, or step to a message, then  *)
(* all messages that were read are delivered or still to be: none is lost, *)
(* not at the end of a chunk, nor to a full queue. A file opened while the *)
(* thread was using _logfile is excepted: it may find an earlier command.  *)
UndisturbedPlayComplete ==
    ~shared /\ issued <= 1 /\ ~abort /\ lastOp # "STEP_EPOCH"
        => Delivered \cup OnQueue \cup InWork \cup InParser = base + 1 .. filePos

(* The main thread joins the player, in Close() or Open()                  *)
Joining == mpc \in {"join", "restart"}

(* The main thread waits for the player, which waits for the main thread   *)
Stuck == Joining /\ tpc = "wait" /\ ~QueueHasRoom

(* Every command is executed, or dropped by Close(), unless threads block. *)
CommandsExecuted == [](commandQueue # <<>> => <>(commandQueue = <<>> \/ Stuck))

(* The only thing that can keep Close() and Open() from returning is a     *)
(* player that waits for room in the queue: it sees _abort elsewhere.      *)
CloseReturnsUnlessStuck == [](Joining => <>(~Joining \/ Stuck))

(* Playing comes to an end, at the latest at the end of the file.          *)
PlayEnds == [](playState = "PLAYING" => <>(playState # "PLAYING" \/ Stuck))
-----------------------------------------------------------------------------
(* input.hpp: the thread "must abort if thread->ShouldAbort() says so", so *)
(* that Close() and the destructor, which join it, return.                 *)
CloseReturns == mpc = "join" ~> mpc # "join"
=============================================================================
