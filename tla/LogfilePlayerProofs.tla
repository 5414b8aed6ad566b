------------------------ MODULE LogfilePlayerProofs ------------------------
(***************************************************************************)
(* Theorems about LogfilePlayer: for any file, any limit of the event      *)
(* queue and any number of clicks and files the queue stays within four    *)
(* events of its limit, no command outlives its file, the thread and the   *)
(* main thread never use the file at the same time, messages are handed out*)
(* in order, and none is lost when the user only starts to play.           *)
(***************************************************************************)
EXTENDS LogfilePlayer, SequenceTheorems, TLAPS

Active == {"poll", "pop", "reopen", "reopenNone", "go", "process", "wait", "send", "read", "interrupted"}
Playing == {"process", "wait", "send", "read", "interrupted"}

(* Commands that a click makes                                             *)
FromClick(c) == /\ c.op \in Ops /\ (c.op = "STEP_MSG" => c.arg \subseteq 1..NumMsgs)
                /\ ~shared => c.gen = opens

(* Where the two threads can be at the same time                           *)
Control ==
    /\ tpc = "none" => ~fileOpen /\ commandQueue = <<>>
    /\ tpc # "none" => fileOpen \/ reopened
    /\ mpc \in {"join", "restart"} => tpc # "none"
    /\ mpc = "restart" => shared
    /\ mpc = "join" /\ pending = Reopen => opens < MaxOpens
    /\ mpc \notin {"join", "restart"} => tpc \notin {"clean", "exited"} /\ (tpc # "none" => ~abort)
    /\ mpc = "push" => tpc \in Active /\ FromClick(pending)
    /\ playState = "CLOSED" <=> tpc \in {"none", "prep", "exited"}
    /\ tpc \in Playing => playState = "PLAYING"
    /\ tpc = "pop" => commandQueue # <<>>
    /\ \A i \in 1..Len(commandQueue) : FromClick(commandQueue[i])

(* How much longer than its limit the event queue can be. Between two times
   that the main thread has seen it empty the user gives one command at
   most, so that the thread sends few events that it does not wait for.     *)
Halted == playState \in {"STOPPED", "PAUSED"} /\ commandQueue = <<>>
Excess ==
    CASE tpc = "send" -> 0
      [] tpc = "wait" -> IF mpc = "loop" THEN 4 ELSE 3
      [] tpc = "exited" -> 3
      [] tpc = "clean" -> 2
      [] tpc \in {"none", "prep"} -> IF mpc = "loop" THEN 3 ELSE 0
      [] OTHER -> IF mpc = "loop" THEN IF Halted THEN 4 ELSE 2
                                  ELSE IF Halted THEN 2 ELSE 1

Room == ~shared => Len(eventQueue) <= EVENT_QUEUE_MAX_SIZE + Excess


LEMMA ConstantFacts ==
    /\ NumMsgs \in Nat /\ EpochEnds \subseteq 1..NumMsgs /\ ChunkMsgs \in Nat /\ ChunkMsgs > 0
    /\ EVENT_QUEUE_MAX_SIZE \in Nat /\ MaxOpens \in Nat
    /\ ParserCap \in Nat
    /\ \A s \in NameSets : s \subseteq 1..NumMsgs
BY PlayerAssumption DEF ParserCap

Events == [run : Nat, msg : 0..NumMsgs]

(* The type, in parts                                                      *)
ThreadTypes ==
    /\ tpc \in {"none", "prep", "poll", "pop", "reopen", "reopenNone", "go", "process",
                "wait", "send", "read", "interrupted", "clean", "exited"}
    /\ playState \in {"CLOSED", "STOPPED", "PLAYING", "PAUSED"}
    /\ stepEpoch \in BOOLEAN /\ stepMsg \subseteq 1..NumMsgs
    /\ cur \in 0..NumMsgs /\ parser \in Seq(1..NumMsgs) /\ Len(parser) <= ParserCap
    /\ filePos \in 0..NumMsgs /\ base \in 0..NumMsgs /\ run \in Nat /\ got \in Seq(1..NumMsgs)
    /\ lastOp \in Ops \cup {"NOOP"}
MainTypes ==
    /\ mpc \in {"loop", "controls", "push", "join", "restart"} /\ pending \in Commands
    /\ abort \in BOOLEAN /\ fileOpen \in BOOLEAN /\ seekable \in BOOLEAN
    /\ reopened \in BOOLEAN /\ shared \in BOOLEAN
    /\ opens \in 0..MaxOpens /\ issued \in Nat
QueueTypes == commandQueue \in Seq(Commands) /\ eventQueue \in Seq(Events)

(* The inductive invariant                                               *)
IInv == ThreadTypes /\ MainTypes /\ QueueTypes /\ NoStaleCommand /\ Control /\ Room

LEMMA Types == TypeOK <=> ThreadTypes /\ MainTypes /\ QueueTypes
BY DEF TypeOK, ThreadTypes, MainTypes, QueueTypes, Events

LEMMA NoneIsCommand == None \in Commands /\ Reopen \in Commands
<1>1. 0 \in 0..MaxOpens /\ {} \in SUBSET (0..NumMsgs)
  BY ConstantFacts
<1> QED BY <1>1 DEF None, Reopen, Commands

LEMMA InitInv == Init => IInv
<1> SUFFICES ASSUME Init PROVE IInv
  OBVIOUS
<1> USE DEF Init
<1>1. ThreadTypes
  <2>1. parser \in Seq(1..NumMsgs) /\ Len(parser) = 0 /\ got \in Seq(1..NumMsgs)
    OBVIOUS
  <2>2. cur \in 0..NumMsgs /\ filePos \in 0..NumMsgs /\ base \in 0..NumMsgs /\ 0 <= ParserCap
    BY ConstantFacts
  <2>3. stepMsg \subseteq 1..NumMsgs /\ run \in Nat
    OBVIOUS
  <2> QED BY <2>1, <2>2, <2>3 DEF ThreadTypes
<1>2. MainTypes
  <2>1. None \in Commands
    BY NoneIsCommand
  <2>2. opens \in 0..MaxOpens /\ issued \in Nat
    BY ConstantFacts
  <2> QED BY <2>1, <2>2 DEF MainTypes
<1>3. QueueTypes
  BY DEF QueueTypes
<1>4. NoStaleCommand /\ Control
  BY DEF NoStaleCommand, Control, Playing
<1>5. Room
  BY ConstantFacts DEF Room, Excess
<1> QED BY <1>1, <1>2, <1>3, <1>4, <1>5 DEF IInv

(* Events that the thread sends                                            *)
LEMMA Sent ==
    ASSUME IInv, NEW msgs \in Seq(0..NumMsgs), SendEvents(msgs)
    PROVE  eventQueue' \in Seq(Events) /\ Len(eventQueue') = Len(eventQueue) + Len(msgs)
<1> DEFINE new == [i \in 1..Len(msgs) |-> [run |-> run, msg |-> msgs[i]]]
<1>1. run \in Nat /\ eventQueue \in Seq(Events)
  BY DEF IInv, ThreadTypes, QueueTypes
<1>2. \A i \in 1..Len(msgs) : [run |-> run, msg |-> msgs[i]] \in Events
  <2> SUFFICES ASSUME NEW i \in 1..Len(msgs) PROVE [run |-> run, msg |-> msgs[i]] \in Events
    OBVIOUS
  <2>1. msgs[i] \in 0..NumMsgs
    BY ElementOfSeq
  <2> QED BY <1>1, <2>1 DEF Events
<1>3. Len(msgs) \in Nat
  OBVIOUS
<1>4. new \in Seq(Events) /\ Len(new) = Len(msgs)
  BY <1>2, <1>3
<1>5. eventQueue' = eventQueue \o new
  BY DEF SendEvents
<1> HIDE DEF new
<1>6. eventQueue \o new \in Seq(Events) /\ Len(eventQueue \o new) = Len(eventQueue) + Len(new)
  BY <1>1, <1>4, ConcatProperties
<1> QED BY <1>4, <1>5, <1>6

LEMMA SentOne ==
    ASSUME IInv, NEW m \in 0..NumMsgs, SendEvents(<<m>>)
    PROVE  eventQueue' \in Seq(Events) /\ Len(eventQueue') = Len(eventQueue) + 1
<1>1. <<m>> \in Seq(0..NumMsgs) /\ Len(<<m>>) = 1
  OBVIOUS
<1> QED BY <1>1, Sent

(* What the lengths in Room are                                            *)
LEMMA Lengths ==
    ASSUME IInv
    PROVE  /\ Len(eventQueue) \in Nat /\ Len(commandQueue) \in Nat
           /\ EVENT_QUEUE_MAX_SIZE \in Nat /\ Excess \in 0..4
<1>1. Excess \in 0..4
  BY DEF Excess
<1> QED BY <1>1, ConstantFacts DEF IInv, QueueTypes

(* No command is added                                                     *)
LEMMA SameCommands ==
    ASSUME IInv, UNCHANGED <<commandQueue, opens, shared>>
    PROVE  /\ ~shared' => \A i \in 1..Len(commandQueue') : commandQueue'[i].gen = opens'
           /\ \A i \in 1..Len(commandQueue') : FromClick(commandQueue[i])'
<1>1. \A i \in 1..Len(commandQueue) : FromClick(commandQueue[i])
  BY DEF IInv, Control
<1>2. \A i \in 1..Len(commandQueue) : FromClick(commandQueue[i])'
  BY <1>1 DEF FromClick
<1> QED BY <1>2 DEF IInv, NoStaleCommand
-----------------------------------------------------------------------------
(* The main thread                                                         *)

LEMMA LoopEventInv == IInv /\ LoopEvent => IInv'
<1> SUFFICES ASSUME IInv, LoopEvent PROVE IInv'
  OBVIOUS
<1>1. eventQueue \in Seq(Events) /\ eventQueue # <<>> /\ ThreadTypes /\ MainTypes /\ QueueTypes
  BY DEF IInv, QueueTypes, LoopEvent
<1>2. Head(eventQueue) \in Events /\ Tail(eventQueue) \in Seq(Events)
      /\ Len(Tail(eventQueue)) = Len(eventQueue) - 1
  BY <1>1, HeadTailProperties
<1>3. got' \in Seq(1..NumMsgs)
  <2>1. got \in Seq(1..NumMsgs)
    BY <1>1 DEF ThreadTypes
  <2>2. Head(eventQueue).msg > 0 => Head(eventQueue).msg \in 1..NumMsgs
    BY <1>2, ConstantFacts DEF Events
  <2>3. got' = got \/ (Head(eventQueue).msg > 0 /\ got' = Append(got, Head(eventQueue).msg))
    BY DEF LoopEvent
  <2>4. CASE got' = got
    BY <2>1, <2>4
  <2>5. CASE Head(eventQueue).msg > 0 /\ got' = Append(got, Head(eventQueue).msg)
    <3> DEFINE m == Head(eventQueue).msg
    <3>1. m \in 1..NumMsgs
      BY <2>2, <2>5
    <3> HIDE DEF m
    <3>2. Append(got, m) \in Seq(1..NumMsgs)
      BY <2>1, <3>1, AppendProperties
    <3> QED BY <2>5, <3>2 DEF m
  <2> QED BY <2>3, <2>4, <2>5
<1>4. (ThreadTypes /\ MainTypes /\ QueueTypes)'
  BY <1>1, <1>2, <1>3
     DEF LoopEvent, ThreadTypes, MainTypes, QueueTypes, main, thread, file, handle
<1>5. NoStaleCommand' /\ Control'
  BY SameCommands DEF IInv, NoStaleCommand, Control, LoopEvent, main, thread, file, handle, FromClick
<1>6. Excess' = Excess
  BY DEF Excess, Halted, LoopEvent, main, thread
<1>7. Room'
  BY <1>2, <1>6, Lengths DEF IInv, Room, LoopEvent, file, handle
<1> QED BY <1>4, <1>5, <1>7 DEF IInv

LEMMA LoopDoneInv == IInv /\ LoopDone => IInv'
<1> SUFFICES ASSUME IInv, LoopDone PROVE IInv'
  OBVIOUS
<1> USE DEF LoopDone, thread, file, handle
<1>1. (ThreadTypes /\ MainTypes /\ QueueTypes)'
  BY DEF IInv, ThreadTypes, MainTypes, QueueTypes
<1>2. NoStaleCommand' /\ Control'
  BY SameCommands DEF IInv, NoStaleCommand, Control, FromClick
<1>3. Len(eventQueue') = 0 /\ Excess' \in 0..4
  BY DEF Excess
<1>4. Room'
  BY <1>3, Lengths DEF Room
<1> QED BY <1>1, <1>2, <1>4 DEF IInv

LEMMA ClickInv == ASSUME NEW op \in Ops PROVE IInv /\ Click(op) => IInv'
<1> SUFFICES ASSUME IInv, Click(op) PROVE IInv'
  OBVIOUS
<1> USE DEF thread, file, handle
<1>1. PICK arg \in Args(op) : pending' = Command(op, arg)
  BY DEF Click
<1>2. arg \in SUBSET (0..NumMsgs) /\ (op = "STEP_MSG" => arg \subseteq 1..NumMsgs)
  BY ConstantFacts DEF Args, Ops
<1>3. opens \in 0..MaxOpens /\ ThreadTypes /\ MainTypes /\ QueueTypes
  BY DEF IInv, MainTypes
<1>4. pending' \in Commands /\ FromClick(pending)'
  BY <1>1, <1>2, <1>3 DEF Command, Commands, FromClick, Click
<1>5. (ThreadTypes /\ MainTypes /\ QueueTypes)'
  BY <1>3, <1>4 DEF Click, ThreadTypes, MainTypes, QueueTypes
<1>6. playState # "CLOSED"
  BY DEF Click, Can, Ops
<1>7. NoStaleCommand'
  BY DEF IInv, NoStaleCommand, Click
<1>8. Control'
  <2>1. tpc \in Active
    BY <1>3, <1>6 DEF IInv, Control, Active, Click, ThreadTypes
  <2>2. \A i \in 1..Len(commandQueue') : FromClick(commandQueue[i])'
    BY SameCommands DEF Click
  <2> QED BY <1>4, <2>1, <2>2 DEF IInv, Control, Click
<1>9. Excess' = Excess
  BY DEF Excess, Halted, Click
<1>10. Room'
  BY <1>9 DEF IInv, Room, Click
<1> QED BY <1>5, <1>7, <1>8, <1>10 DEF IInv

LEMMA PushCommandInv == IInv /\ PushCommand => IInv'
<1> SUFFICES ASSUME IInv, PushCommand PROVE IInv'
  OBVIOUS
<1> USE DEF PushCommand, thread, file, handle
<1>1. ThreadTypes /\ MainTypes /\ QueueTypes
  BY DEF IInv
<1>2. pending \in Commands /\ commandQueue \in Seq(Commands)
  BY <1>1 DEF MainTypes, QueueTypes
<1> DEFINE new == Append(commandQueue, pending)
<1>3. /\ new \in Seq(Commands) /\ Len(new) = Len(commandQueue) + 1 /\ new # <<>>
      /\ \A i \in 1..Len(commandQueue) : new[i] = commandQueue[i]
      /\ new[Len(commandQueue) + 1] = pending
  BY <1>2, AppendProperties
<1>4. commandQueue' = new /\ opens' = opens
  OBVIOUS
<1> HIDE DEF new
<1>5. issued' \in Nat
  BY <1>1, ConstantFacts DEF IInv, Control, MainTypes
<1>6. (ThreadTypes /\ MainTypes /\ QueueTypes)'
  BY <1>1, <1>3, <1>4, <1>5, NoneIsCommand DEF ThreadTypes, MainTypes, QueueTypes
<1>7. tpc \in Active /\ FromClick(pending)
  BY DEF IInv, Control
<1>8. \A i \in 1..Len(new) : FromClick(new[i])
  <2> SUFFICES ASSUME NEW i \in 1..Len(new) PROVE FromClick(new[i])
    OBVIOUS
  <2>1. CASE i = Len(commandQueue) + 1
    BY <2>1, <1>3, <1>7
  <2>2. CASE i # Len(commandQueue) + 1
    <3>1. i \in 1..Len(commandQueue)
      BY <2>2, <1>3, Lengths
    <3> QED BY <3>1, <1>3 DEF IInv, Control
  <2> QED BY <2>1, <2>2
<1>9. \A i \in 1..Len(commandQueue') : FromClick(commandQueue[i])'
  BY <1>4, <1>8 DEF FromClick
<1>10. NoStaleCommand'
  BY <1>4, <1>7, <1>8 DEF NoStaleCommand, FromClick, Active
<1>11. Control'
  BY <1>3, <1>4, <1>7, <1>9 DEF IInv, Control, Active
<1>12. Excess \in 0..4 /\ Excess' \in 0..4 /\ Excess <= Excess'
  BY <1>3, <1>4, <1>7 DEF Excess, Halted, Active
<1>13. Room'
  BY <1>12, Lengths DEF IInv, Room
<1> QED BY <1>6, <1>10, <1>11, <1>13 DEF IInv

LEMMA NoClickInv == IInv /\ NoClick => IInv'
<1> SUFFICES ASSUME IInv, NoClick PROVE IInv'
  OBVIOUS
<1> USE DEF NoClick, thread, file, handle
<1>1. (ThreadTypes /\ MainTypes /\ QueueTypes)'
  BY DEF IInv, ThreadTypes, MainTypes, QueueTypes
<1>2. NoStaleCommand' /\ Control'
  BY SameCommands DEF IInv, NoStaleCommand, Control
<1>3. Excess <= Excess' /\ Excess' \in 0..4
  BY DEF Excess, Halted
<1>4. Room'
  BY <1>3, Lengths DEF IInv, Room
<1> QED BY <1>1, <1>2, <1>4 DEF IInv

(* A file is opened: its thread prepares itself                            *)
LEMMA OpenFileInv ==
    ASSUME IInv, opens < MaxOpens, OpenFile("loop"), tpc \in {"none", "exited"},
           commandQueue' = <<>>, playState' = "CLOSED", UNCHANGED eventQueue
    PROVE  IInv'
<1> USE DEF OpenFile
<1>1. ThreadTypes'
  <2>1. parser' \in Seq(1..NumMsgs) /\ Len(parser') = 0 /\ got' \in Seq(1..NumMsgs)
    OBVIOUS
  <2>2. cur' \in 0..NumMsgs /\ filePos' \in 0..NumMsgs /\ base' \in 0..NumMsgs /\ 0 <= ParserCap
    BY ConstantFacts
  <2>3. stepMsg' \subseteq 1..NumMsgs /\ stepEpoch' \in BOOLEAN
    OBVIOUS
  <2>4. run' \in Nat
    BY DEF IInv, ThreadTypes
  <2> QED BY <2>1, <2>2, <2>3, <2>4 DEF ThreadTypes
<1>2. MainTypes'
  <2>1. opens' \in 0..MaxOpens /\ issued' \in Nat
    BY ConstantFacts DEF IInv, MainTypes
  <2> QED BY <2>1, NoneIsCommand DEF IInv, MainTypes
<1>3. QueueTypes'
  BY DEF IInv, QueueTypes
<1>4. NoStaleCommand' /\ Control'
  BY DEF NoStaleCommand, Control, Playing
<1>5. Excess <= 3 /\ Excess' = 3
  BY DEF Excess
<1>6. Room'
  BY <1>5, Lengths DEF IInv, Room
<1> QED BY <1>1, <1>2, <1>3, <1>4, <1>6 DEF IInv

LEMMA OpenInv == IInv /\ Open => IInv'
<1> SUFFICES ASSUME IInv, Open PROVE IInv'
  OBVIOUS
<1>1. tpc = "none" /\ playState = "CLOSED" /\ commandQueue = <<>>
  BY DEF IInv, Control, NoStaleCommand, Open
<1> QED BY <1>1, OpenFileInv DEF Open

(* A file is opened while the thread has closed the one before             *)
LEMMA OpenSharedInv == IInv /\ OpenShared => IInv'
<1> SUFFICES ASSUME IInv, OpenShared PROVE IInv'
  OBVIOUS
<1> USE DEF OpenShared, thread
<1>1. ThreadTypes'
  <2>1. got' \in Seq(1..NumMsgs) /\ run' \in Nat
    BY DEF IInv, ThreadTypes
  <2>2. filePos' \in 0..NumMsgs /\ base' \in 0..NumMsgs
    BY ConstantFacts
  <2> QED BY <2>1, <2>2 DEF IInv, ThreadTypes
<1>2. MainTypes'
  BY ConstantFacts DEF IInv, MainTypes
<1>3. QueueTypes'
  BY DEF IInv, QueueTypes
<1>4. \A i \in 1..Len(commandQueue') : FromClick(commandQueue[i])'
  BY DEF IInv, Control, FromClick
<1>5. NoStaleCommand' /\ Control' /\ Room'
  BY <1>4 DEF IInv, NoStaleCommand, Control, Room
<1> QED BY <1>1, <1>2, <1>3, <1>5 DEF IInv

LEMMA RestartedInv == IInv /\ Restarted => IInv'
<1> SUFFICES ASSUME IInv, Restarted PROVE IInv'
  OBVIOUS
<1> USE DEF Restarted, handle
<1>1. ThreadTypes'
  <2>1. parser' \in Seq(1..NumMsgs) /\ Len(parser') = 0 /\ got' \in Seq(1..NumMsgs)
    OBVIOUS
  <2>2. cur' \in 0..NumMsgs /\ base' \in 0..NumMsgs /\ 0 <= ParserCap
    BY ConstantFacts DEF IInv, ThreadTypes
  <2>3. stepMsg' \subseteq 1..NumMsgs /\ stepEpoch' \in BOOLEAN
    OBVIOUS
  <2>4. run' \in Nat
    BY DEF IInv, ThreadTypes
  <2> QED BY <2>1, <2>2, <2>3, <2>4 DEF IInv, ThreadTypes
<1>2. MainTypes' /\ QueueTypes'
  BY DEF IInv, MainTypes, QueueTypes
<1>3. \A i \in 1..Len(commandQueue') : FromClick(commandQueue[i])'
  BY DEF IInv, Control, FromClick
<1>4. shared'
  BY DEF IInv, Control
<1>5. NoStaleCommand' /\ Control' /\ Room'
  BY <1>3, <1>4 DEF IInv, NoStaleCommand, Control, Room, Playing
<1> QED BY <1>1, <1>2, <1>5 DEF IInv

LEMMA CloseInv == IInv /\ Close => IInv'
<1> SUFFICES ASSUME IInv, Close PROVE IInv'
  OBVIOUS
<1> USE DEF Close, thread, file, handle
<1>1. (ThreadTypes /\ MainTypes /\ QueueTypes)'
  BY NoneIsCommand DEF IInv, ThreadTypes, MainTypes, QueueTypes
<1>2. NoStaleCommand' /\ Control'
  BY SameCommands DEF IInv, NoStaleCommand, Control, None, Reopen
<1>3. Excess' = Excess
  BY DEF Excess, Halted
<1>4. Room'
  BY <1>3 DEF IInv, Room
<1> QED BY <1>1, <1>2, <1>4 DEF IInv

LEMMA JoinedInv == IInv /\ Joined => IInv'
<1> SUFFICES ASSUME IInv, Joined PROVE IInv'
  OBVIOUS
<1>1. CASE pending = Reopen
  <2>1. opens < MaxOpens
    BY <1>1 DEF IInv, Control, Joined
  <2> QED BY <1>1, <2>1, OpenFileInv DEF Joined
<1>2. CASE pending # Reopen
  <2> USE <1>2 DEF Joined
  <2>1. ThreadTypes' /\ MainTypes'
    BY DEF IInv, ThreadTypes, MainTypes
  <2>2. QueueTypes'
    BY DEF IInv, QueueTypes
  <2>3. NoStaleCommand' /\ Control'
    BY DEF NoStaleCommand, Control, Playing
  <2>4. Excess = 3 /\ Excess' = 3
    BY DEF Excess
  <2>5. Room'
    BY <2>4 DEF IInv, Room
  <2> QED BY <2>1, <2>2, <2>3, <2>5 DEF IInv
<1> QED BY <1>1, <1>2
-----------------------------------------------------------------------------
(* The thread                                                              *)

(* A step that leaves the main thread and the commands alone, and moves the
   thread within what it does while there is a file                          *)
LEMMA ThreadStep ==
    ASSUME IInv, UNCHANGED <<main, commandQueue, shared, abort>>,
           UNCHANGED <<fileOpen, reopened>> \/ fileOpen' \/ reopened',
           tpc # "none", tpc # "exited", tpc' \notin {"none", "prep"},
           tpc' \in {"clean", "exited"} => abort,
           playState' = "CLOSED" <=> tpc' = "exited",
           tpc' \in Playing => playState' = "PLAYING",
           tpc' = "pop" => commandQueue # <<>>,
           mpc = "push" => tpc' \in Active
    PROVE  NoStaleCommand' /\ Control'
<1>1. MainTypes /\ NoStaleCommand /\ Control
  BY DEF IInv
<1>2. \A i \in 1..Len(commandQueue') : FromClick(commandQueue[i])'
  BY SameCommands DEF main
<1>3. NoStaleCommand'
  BY <1>1 DEF NoStaleCommand, main
<1>4. mpc = "push" => FromClick(pending)'
  BY <1>1 DEF Control, FromClick, main
<1>5. mpc \notin {"join", "restart"} => ~abort
  BY <1>1 DEF Control
<1>6. Control'
  BY <1>1, <1>2, <1>4, <1>5 DEF Control, main
<1> QED BY <1>3, <1>6

LEMMA ThreadPrepareInv == IInv /\ ThreadPrepare => IInv'
<1> SUFFICES ASSUME IInv, ThreadPrepare PROVE IInv'
  OBVIOUS
<1> USE DEF ThreadPrepare, main, file, handle
<1>1. eventQueue' \in Seq(Events) /\ Len(eventQueue') = Len(eventQueue) + 1
  BY SentOne, ConstantFacts
<1>2. (ThreadTypes /\ MainTypes /\ QueueTypes)'
  BY <1>1 DEF IInv, ThreadTypes, MainTypes, QueueTypes
<1>3. NoStaleCommand' /\ Control'
  BY ThreadStep DEF Playing, Active
<1>4. ~shared => commandQueue = <<>>
  BY DEF IInv, NoStaleCommand
<1>5. ~shared => Excess' >= Excess + 1 /\ Excess' \in 0..4
  BY <1>4 DEF Excess, Halted
<1>6. Room'
  BY <1>1, <1>5, Lengths DEF IInv, Room
<1> QED BY <1>2, <1>3, <1>6 DEF IInv

LEMMA ThreadCleanupInv == IInv /\ ThreadCleanup => IInv'
<1> SUFFICES ASSUME IInv, ThreadCleanup PROVE IInv'
  OBVIOUS
<1> USE DEF ThreadCleanup, main, file, handle
<1>1. eventQueue' \in Seq(Events) /\ Len(eventQueue') = Len(eventQueue) + 1
  BY SentOne, ConstantFacts
<1>2. (ThreadTypes /\ MainTypes /\ QueueTypes)'
  BY <1>1 DEF IInv, ThreadTypes, MainTypes, QueueTypes
<1>3. mpc \in {"join", "restart"}
  BY DEF IInv, Control, MainTypes
<1>4. NoStaleCommand' /\ Control'
  BY <1>3, SameCommands DEF IInv, NoStaleCommand, Control, Playing
<1>5. Excess = 2 /\ Excess' = 3
  BY DEF Excess
<1>6. Room'
  BY <1>1, <1>5, Lengths DEF IInv, Room
<1> QED BY <1>2, <1>4, <1>6 DEF IInv

LEMMA PollInv == IInv /\ Poll => IInv'
<1> SUFFICES ASSUME IInv, Poll PROVE IInv'
  OBVIOUS
<1> USE DEF Poll, main, file, handle
<1>1. (ThreadTypes /\ MainTypes /\ QueueTypes)'
  BY DEF IInv, ThreadTypes, MainTypes, QueueTypes
<1>2. abort => mpc \in {"join", "restart"}
  BY DEF IInv, Control, MainTypes
<1>3. playState # "CLOSED"
  BY DEF IInv, Control
<1>4. NoStaleCommand' /\ Control'
  BY <1>2, <1>3, ThreadStep DEF Playing, Active
<1>5. Excess <= Excess' /\ Excess' \in 0..4
  BY <1>2 DEF Excess, Halted
<1>6. Room'
  BY <1>5, Lengths DEF IInv, Room
<1> QED BY <1>1, <1>4, <1>6 DEF IInv

LEMMA PopCommandInv == IInv /\ PopCommand => IInv'
<1> SUFFICES ASSUME IInv, PopCommand PROVE IInv'
  OBVIOUS
<1> DEFINE c == Head(commandQueue)
<1>1. commandQueue \in Seq(Commands) /\ commandQueue # <<>> /\ tpc = "pop"
  BY DEF IInv, QueueTypes, Control, PopCommand
<1>2. /\ c \in Commands /\ Tail(commandQueue) \in Seq(Commands)
      /\ Len(Tail(commandQueue)) = Len(commandQueue) - 1
      /\ \A i \in 1..Len(Tail(commandQueue)) : Tail(commandQueue)[i] = commandQueue[i + 1]
      /\ c = commandQueue[1] /\ 1 \in 1..Len(commandQueue)
  BY <1>1, HeadTailProperties
<1>3. FromClick(c)
  BY <1>2 DEF IInv, Control
<1>4. /\ commandQueue' = Tail(commandQueue) /\ tpc' \in {"go", "reopen", "reopenNone"}
      /\ UNCHANGED <<main, cur, seekable, shared, abort, eventQueue>>
      /\ fileOpen' \in BOOLEAN /\ reopened' \in BOOLEAN
  BY DEF PopCommand, IInv, MainTypes
<1>13. fileOpen' \/ reopened'
  BY <1>1 DEF PopCommand, IInv, Control
<1>5. /\ playState' \in {"STOPPED", "PLAYING", "PAUSED"}
      /\ lastOp' \in Ops \cup {"NOOP"}
      /\ stepEpoch' \in BOOLEAN /\ stepMsg' \subseteq 1..NumMsgs
  <2>1. playState \in {"STOPPED", "PLAYING", "PAUSED"} /\ lastOp \in Ops \cup {"NOOP"}
        /\ stepEpoch \in BOOLEAN /\ stepMsg \subseteq 1..NumMsgs
    BY <1>1 DEF IInv, ThreadTypes, Control
  <2> QED BY <1>3, <2>1 DEF PopCommand, FromClick
<1>6. /\ filePos' \in 0..NumMsgs /\ base' \in 0..NumMsgs /\ run' \in Nat /\ got' \in Seq(1..NumMsgs)
      /\ parser' \in Seq(1..NumMsgs) /\ Len(parser') <= ParserCap
  <2>1. \/ UNCHANGED <<filePos, run, base, got, parser>>
        \/ \E pos \in 0..NumMsgs : Position(pos)
    <3>1. 0 \in 0..NumMsgs /\ filePos \in 0..NumMsgs /\ c.arg \in SUBSET (0..NumMsgs)
      BY <1>2, ConstantFacts DEF Commands, IInv, ThreadTypes
    <3> QED BY <3>1 DEF PopCommand
  <2>2. CASE UNCHANGED <<filePos, run, base, got, parser>>
    BY <2>2 DEF IInv, ThreadTypes
  <2>3. CASE \E pos \in 0..NumMsgs : Position(pos)
    <3>1. PICK pos \in 0..NumMsgs : Position(pos)
      BY <2>3
    <3>2. parser' \in Seq(1..NumMsgs) /\ Len(parser') = 0 /\ got' \in Seq(1..NumMsgs)
      BY <3>1 DEF Position
    <3>3. run \in Nat /\ 0 <= ParserCap
      BY ConstantFacts DEF IInv, ThreadTypes
    <3> QED BY <3>1, <3>2, <3>3 DEF Position
  <2> QED BY <2>1, <2>2, <2>3
<1> HIDE DEF c
<1>7. (ThreadTypes /\ MainTypes /\ QueueTypes)'
  BY <1>2, <1>4, <1>5, <1>6 DEF IInv, ThreadTypes, MainTypes, QueueTypes, main
<1>8. \A i \in 1..Len(commandQueue') : FromClick(commandQueue[i])'
  <2> SUFFICES ASSUME NEW i \in 1..Len(commandQueue') PROVE FromClick(commandQueue[i])'
    OBVIOUS
  <2>1. i + 1 \in 1..Len(commandQueue) /\ commandQueue'[i] = commandQueue[i + 1]
    BY <1>2, <1>4, Lengths
  <2>2. FromClick(commandQueue[i + 1])
    BY <2>1 DEF IInv, Control
  <2> QED BY <2>1, <2>2, <1>4 DEF FromClick, main
<1>9. NoStaleCommand'
  BY <1>4, <1>8 DEF NoStaleCommand, FromClick
<1>10. Control'
  <2>1. mpc = "push" => FromClick(pending)'
    BY <1>4 DEF IInv, Control, FromClick, main
  <2> QED BY <1>1, <1>4, <1>5, <1>8, <1>13, <2>1 DEF IInv, Control, Active, Playing, main
<1>11. Excess <= Excess' /\ Excess' \in 0..4
  BY <1>1, <1>4 DEF Excess, Halted, main
<1>12. Room'
  BY <1>4, <1>11, Lengths DEF IInv, Room
<1> QED BY <1>7, <1>9, <1>10, <1>12 DEF IInv

LEMMA OpenAgainInv == IInv /\ OpenAgain => IInv'
<1> SUFFICES ASSUME IInv, OpenAgain PROVE IInv'
  OBVIOUS
<1> USE DEF OpenAgain, main
<1>1. ThreadTypes'
  <2>1. PICK pos \in 0..NumMsgs : Position(pos)
    <3>1. 0 \in 0..NumMsgs /\ filePos \in 0..NumMsgs
      BY ConstantFacts DEF IInv, ThreadTypes
    <3> QED BY <3>1
  <2>2. parser' \in Seq(1..NumMsgs) /\ Len(parser') = 0 /\ got' \in Seq(1..NumMsgs)
    BY <2>1 DEF Position
  <2>3. run' \in Nat /\ filePos' \in 0..NumMsgs /\ base' \in 0..NumMsgs /\ 0 <= ParserCap
    BY <2>1, ConstantFacts DEF IInv, ThreadTypes, Position
  <2> HIDE DEF Position
  <2> QED BY <2>2, <2>3 DEF IInv, ThreadTypes
<1>2. MainTypes' /\ QueueTypes'
  BY DEF IInv, MainTypes, QueueTypes
<1>3. fileOpen' \/ reopened'
  BY DEF IInv, Control
<1>4. NoStaleCommand' /\ Control'
  BY <1>3, ThreadStep DEF Playing, Active
<1>5. Excess <= Excess' /\ Excess' \in 0..4
  BY DEF Excess, Halted
<1>6. Room'
  BY <1>5, Lengths DEF IInv, Room
<1> QED BY <1>1, <1>2, <1>4, <1>6 DEF IInv

LEMMA GoInv == IInv /\ Go => IInv'
<1> SUFFICES ASSUME IInv, Go PROVE IInv'
  OBVIOUS
<1> USE DEF Go, main, file, handle
<1>1. (ThreadTypes /\ MainTypes /\ QueueTypes)'
  BY DEF IInv, ThreadTypes, MainTypes, QueueTypes
<1>2. playState \in {"STOPPED", "PLAYING", "PAUSED"}
  BY DEF IInv, Control, ThreadTypes
<1>3. NoStaleCommand' /\ Control'
  BY <1>2, ThreadStep DEF Playing, Active
<1>4. Excess' = Excess
  BY DEF Excess, Halted
<1>5. Room'
  BY <1>4 DEF IInv, Room
<1> QED BY <1>1, <1>3, <1>5 DEF IInv

LEMMA ProcessNothingInv == IInv /\ ProcessNothing => IInv'
<1> SUFFICES ASSUME IInv, ProcessNothing PROVE IInv'
  OBVIOUS
<1> USE DEF ProcessNothing, main, file, handle
<1>1. (ThreadTypes /\ MainTypes /\ QueueTypes)'
  BY DEF IInv, ThreadTypes, MainTypes, QueueTypes
<1>2. playState = "PLAYING"
  BY DEF IInv, Control, Playing
<1>3. NoStaleCommand' /\ Control'
  BY <1>2, ThreadStep DEF Playing, Active
<1>4. Excess' = Excess
  BY DEF Excess, Halted
<1>5. Room'
  BY <1>4 DEF IInv, Room
<1> QED BY <1>1, <1>3, <1>5 DEF IInv

(* The parser without the message that it had                              *)
LEMMA ParserTail ==
    ASSUME IInv, parser # <<>>
    PROVE  /\ Head(parser) \in 1..NumMsgs /\ Tail(parser) \in Seq(1..NumMsgs)
           /\ Len(Tail(parser)) <= ParserCap
<1>1. parser \in Seq(1..NumMsgs) /\ Len(parser) <= ParserCap
  BY DEF IInv, ThreadTypes
<1> DEFINE S == 1..NumMsgs
<1>2. parser \in Seq(S)
  BY <1>1
<1> HIDE DEF S
<1>3. Head(parser) \in S /\ Tail(parser) \in Seq(S) /\ Len(Tail(parser)) = Len(parser) - 1
  BY <1>2, HeadTailProperties
<1>4. Len(parser) \in Nat
  BY <1>2
<1> QED BY <1>1, <1>3, <1>4, ConstantFacts DEF S

LEMMA ProcessInterruptedInv == IInv /\ ProcessInterrupted => IInv'
<1> SUFFICES ASSUME IInv, ProcessInterrupted PROVE IInv'
  OBVIOUS
<1> USE DEF ProcessInterrupted, main, file, handle
<1>1. (ThreadTypes /\ MainTypes /\ QueueTypes)'
  BY ParserTail DEF IInv, ThreadTypes, MainTypes, QueueTypes
<1>2. playState = "PLAYING"
  BY DEF IInv, Control, Playing
<1>3. NoStaleCommand' /\ Control'
  BY <1>2, ThreadStep DEF Playing, Active
<1>4. Excess' = Excess
  BY DEF Excess, Halted
<1>5. Room'
  BY <1>4 DEF IInv, Room
<1> QED BY <1>1, <1>3, <1>5 DEF IInv

LEMMA ProcessSteppedInv == IInv /\ ProcessStepped => IInv'
<1> SUFFICES ASSUME IInv, ProcessStepped PROVE IInv'
  OBVIOUS
<1> USE DEF ProcessStepped, main, file, handle
<1>1. eventQueue' \in Seq(Events) /\ Len(eventQueue') = Len(eventQueue) + 1
  BY SentOne, ConstantFacts
<1>2. (ThreadTypes /\ MainTypes /\ QueueTypes)'
  BY <1>1, ParserTail DEF IInv, ThreadTypes, MainTypes, QueueTypes
<1>3. playState = "PLAYING"
  BY DEF IInv, Control, Playing
<1>4. NoStaleCommand' /\ Control'
  BY ThreadStep DEF Playing, Active
<1>5. Excess' >= Excess + 1 /\ Excess' \in 0..4
  BY <1>3 DEF Excess, Halted
<1>6. Room'
  BY <1>1, <1>5, Lengths DEF IInv, Room
<1> QED BY <1>2, <1>4, <1>6 DEF IInv

(* An event or none                                                        *)
LEMMA Notice ==
    ASSUME NEW s, s = << 0 >> \/ s = <<>>
    PROVE  s \in Seq(0..NumMsgs) /\ Len(s) \in Nat /\ Len(s) <= 1
<1>1. CASE s = << 0 >>
  <2>1. 0 \in 0..NumMsgs
    BY ConstantFacts
  <2>2. << 0 >> \in Seq(0..NumMsgs) /\ Len(<< 0 >>) = 1
    BY <2>1
  <2> QED BY <1>1, <2>2
<1>2. CASE s = <<>>
  <2>1. <<>> \in Seq(0..NumMsgs) /\ Len(<<>>) = 0
    OBVIOUS
  <2> QED BY <1>2, <2>1
<1> QED BY <1>1, <1>2

LEMMA ProcessMsgInv == IInv /\ ProcessMsg => IInv'
<1> SUFFICES ASSUME IInv, ProcessMsg PROVE IInv'
  OBVIOUS
<1> USE DEF ProcessMsg, main, file, handle
<1> DEFINE msgs == (IF Head(parser) \in EpochEnds THEN << 0 >> ELSE <<>>)
                     \o (IF Head(parser) \in Warnings THEN << 0 >> ELSE <<>>)
<1>1. msgs \in Seq(0..NumMsgs) /\ Len(msgs) \in Nat /\ Len(msgs) <= 2
  <2> DEFINE s == IF Head(parser) \in EpochEnds THEN << 0 >> ELSE <<>>
             t == IF Head(parser) \in Warnings THEN << 0 >> ELSE <<>>
  <2>1. (s = << 0 >> \/ s = <<>>) /\ (t = << 0 >> \/ t = <<>>) /\ msgs = s \o t
    OBVIOUS
  <2> HIDE DEF msgs, s, t
  <2>2. s \in Seq(0..NumMsgs) /\ Len(s) \in Nat /\ Len(s) <= 1
    BY <2>1, Notice
  <2>3. t \in Seq(0..NumMsgs) /\ Len(t) \in Nat /\ Len(t) <= 1
    BY <2>1, Notice
  <2>4. s \o t \in Seq(0..NumMsgs) /\ Len(s \o t) = Len(s) + Len(t)
    BY <2>2, <2>3, ConcatProperties
  <2> QED BY <2>1, <2>2, <2>3, <2>4
<1>2. SendEvents(msgs)
  OBVIOUS
<1> HIDE DEF msgs
<1>3. eventQueue' \in Seq(Events) /\ Len(eventQueue') = Len(eventQueue) + Len(msgs)
  BY <1>1, <1>2, Sent
<1>4. (ThreadTypes /\ MainTypes /\ QueueTypes)'
  BY <1>3, ParserTail, ConstantFacts DEF IInv, ThreadTypes, MainTypes, QueueTypes
<1>5. playState = "PLAYING"
  BY DEF IInv, Control, Playing
<1>6. NoStaleCommand' /\ Control'
  BY <1>5, ThreadStep DEF Playing, Active
<1>7. Excess' = Excess + 2 /\ Excess' \in 0..4
  BY <1>5 DEF Excess, Halted
<1>8. Room'
  <2> SUFFICES ASSUME ~shared PROVE Len(eventQueue') <= EVENT_QUEUE_MAX_SIZE + Excess'
    BY DEF Room
  <2>1. Len(eventQueue) <= EVENT_QUEUE_MAX_SIZE + Excess
    BY DEF IInv, Room
  <2>2. Len(msgs) \in Nat /\ Len(msgs) <= 2
    BY <1>1
  <2>3. Excess \in Nat /\ Len(eventQueue) \in Nat /\ EVENT_QUEUE_MAX_SIZE \in Nat
    BY Lengths
  <2> QED BY <1>3, <1>7, <2>1, <2>2, <2>3
<1> QED BY <1>4, <1>6, <1>8 DEF IInv

LEMMA WaitRoomInv == IInv /\ WaitRoom => IInv'
<1> SUFFICES ASSUME IInv, WaitRoom PROVE IInv'
  OBVIOUS
<1> USE DEF WaitRoom, main, file, handle
<1>1. (ThreadTypes /\ MainTypes /\ QueueTypes)'
  BY DEF IInv, ThreadTypes, MainTypes, QueueTypes
<1>2. playState = "PLAYING"
  BY DEF IInv, Control, Playing
<1>3. NoStaleCommand' /\ Control'
  BY <1>2, ThreadStep DEF Playing, Active
<1>4. Excess' = 0
  BY DEF Excess
<1>5. Room'
  BY <1>4, Lengths DEF Room, QueueHasRoom
<1> QED BY <1>1, <1>3, <1>5 DEF IInv

LEMMA SendMsgInv == IInv /\ SendMsg => IInv'
<1> SUFFICES ASSUME IInv, SendMsg PROVE IInv'
  OBVIOUS
<1> USE DEF SendMsg, main, file, handle
<1>1. cur \in 0..NumMsgs /\ 0 \in 0..NumMsgs
  BY ConstantFacts DEF IInv, ThreadTypes
<1>2. eventQueue' \in Seq(Events) /\ Len(eventQueue') = Len(eventQueue) + 1
  BY <1>1, SentOne
<1>3. (ThreadTypes /\ MainTypes /\ QueueTypes)'
  <2>1. ThreadTypes'
    BY <1>1 DEF IInv, ThreadTypes
  <2>2. MainTypes' /\ QueueTypes'
    BY <1>2 DEF IInv, MainTypes, QueueTypes
  <2> QED BY <2>1, <2>2
<1>4. playState = "PLAYING"
  BY DEF IInv, Control, Playing
<1>5. NoStaleCommand' /\ Control'
  BY <1>4, ThreadStep DEF Playing, Active
<1>6. Excess = 0 /\ Excess' \in 1..4
  BY DEF Excess, Halted
<1>7. Room'
  BY <1>2, <1>6, Lengths DEF IInv, Room
<1> QED BY <1>3, <1>5, <1>7 DEF IInv

(* What is read from the file                                              *)
LEMMA ChunkIs ==
    ASSUME IInv
    PROVE  /\ Chunk \in Seq(1..NumMsgs) /\ filePos + Len(Chunk) \in 0..NumMsgs
           /\ Len(Chunk) \in Nat /\ Len(Chunk) <= ParserCap
           /\ \A i \in 1..Len(Chunk) : Chunk[i] = filePos + i
<1> DEFINE rest == NumMsgs - filePos
           n == Min({ChunkMsgs, rest})
<1>1. filePos \in 0..NumMsgs /\ rest \in Nat /\ ChunkMsgs \in Nat
  BY ConstantFacts DEF IInv, ThreadTypes
<1>2. n \in Nat /\ n <= rest /\ n <= ChunkMsgs
  <2> HIDE DEF rest
  <2>1. CASE ChunkMsgs <= rest
    <3>1. Min({ChunkMsgs, rest}) = ChunkMsgs
      BY <1>1, <2>1 DEF Min
    <3> QED BY <1>1, <2>1, <3>1
  <2>2. CASE rest <= ChunkMsgs
    <3>1. Min({ChunkMsgs, rest}) = rest
      BY <1>1, <2>2 DEF Min
    <3> QED BY <1>1, <2>2, <3>1
  <2> QED BY <1>1, <2>1, <2>2
<1> HIDE DEF n
<1>3. Chunk = <<>> \/ Chunk = [i \in 1..n |-> filePos + i]
  BY DEF Chunk, n
<1>4. \A i \in 1..n : filePos + i \in 1..NumMsgs
  BY <1>1, <1>2, ConstantFacts
<1>5. n <= ParserCap
  BY <1>1, <1>2, ConstantFacts DEF ParserCap
<1>6. CASE Chunk = <<>>
  BY <1>1, <1>6, ConstantFacts
<1>7. CASE Chunk = [i \in 1..n |-> filePos + i]
  <2>1. Chunk \in Seq(1..NumMsgs) /\ Len(Chunk) = n
    BY <1>2, <1>4, <1>7
  <2>2. \A i \in 1..Len(Chunk) : Chunk[i] = filePos + i
    BY <1>7, <2>1
  <2> QED BY <1>1, <1>2, <1>5, <2>1, <2>2, ConstantFacts
<1> QED BY <1>3, <1>6, <1>7

LEMMA ReadInv == IInv /\ Read => IInv'
<1> SUFFICES ASSUME IInv, Read PROVE IInv'
  OBVIOUS
<1> USE DEF Read, main, handle
<1> HIDE DEF Chunk
<1>1. parser' \in Seq(1..NumMsgs) /\ Len(parser') <= ParserCap
  <2>1. parser \in Seq(1..NumMsgs) /\ Len(parser) <= ParserCap
    BY DEF IInv, ThreadTypes
  <2>2. parser \o Chunk \in Seq(1..NumMsgs)
    BY <2>1, ChunkIs, ConcatProperties
  <2> QED BY <2>1, <2>2
<1>2. playState = "PLAYING" /\ playState' \in {"PLAYING", "PAUSED"}
  BY DEF IInv, Control, Playing
<1>3. (ThreadTypes /\ MainTypes /\ QueueTypes)'
  <2>1. ThreadTypes'
    BY <1>1, <1>2, ChunkIs DEF IInv, ThreadTypes
  <2>2. MainTypes' /\ QueueTypes'
    BY DEF IInv, MainTypes, QueueTypes
  <2> QED BY <2>1, <2>2
<1>4. NoStaleCommand' /\ Control'
  BY <1>2, ThreadStep DEF Playing, Active
<1>5. Excess <= Excess' /\ Excess' \in 0..4
  BY <1>2 DEF Excess, Halted
<1>6. Room'
  BY <1>5, Lengths DEF IInv, Room
<1> QED BY <1>3, <1>4, <1>6 DEF IInv
-----------------------------------------------------------------------------
LEMMA NextInv == IInv /\ [Next]_vars => IInv'
<1> SUFFICES ASSUME IInv, [Next]_vars PROVE IInv'
  OBVIOUS
<1>1. CASE Main
  BY <1>1, LoopEventInv, LoopDoneInv, ClickInv, PushCommandInv, NoClickInv, OpenInv, OpenSharedInv, RestartedInv, CloseInv,
     JoinedInv DEF Main
<1>2. CASE Player
  BY <1>2, ThreadPrepareInv, ThreadCleanupInv, PollInv, PopCommandInv, OpenAgainInv, GoInv,
     ProcessNothingInv, ProcessInterruptedInv, ProcessSteppedInv, ProcessMsgInv, WaitRoomInv, SendMsgInv, ReadInv
     DEF Player
<1>3. CASE UNCHANGED vars
  <2> USE <1>3 DEF vars, main, thread, file, handle
  <2>1. (ThreadTypes /\ MainTypes /\ QueueTypes)'
    BY DEF IInv, ThreadTypes, MainTypes, QueueTypes
  <2>2. NoStaleCommand' /\ Control'
    BY SameCommands DEF IInv, NoStaleCommand, Control, FromClick
  <2>3. Room'
    BY DEF IInv, Room, Excess, Halted
  <2> QED BY <2>1, <2>2, <2>3 DEF IInv
<1> QED BY <1>1, <1>2, <1>3 DEF Next

(* The inductive invariant holds in every state of the player.             *)
THEOREM Invariance == Spec => []IInv
<1>1. Init => IInv
  BY InitInv
<1>2. IInv /\ [Next]_vars => IInv'
  BY NextInv
<1> QED BY <1>1, <1>2, PTL DEF Spec

(* The state has its type, and the parser never holds more than its buffer. *)
THEOREM TypeCorrect == Spec => []TypeOK
<1>1. IInv => TypeOK
  BY Types DEF IInv
<1> QED BY <1>1, Invariance, PTL

(* However many epochs, warnings and notices the thread sends without
   looking at the queue, and whatever the user clicks, the event queue grows
   to no more than four events above the limit of InputLogfile.              *)
THEOREM QueueBounded == Spec => []EventQueueBounded
<1>1. IInv => EventQueueBounded
  BY Lengths DEF IInv, Room, EventQueueBounded
<1> QED BY <1>1, Invariance, PTL

(* A command that was clicked for one file is never executed for the next. *)
THEOREM NoCommandLeft == Spec => []NoStaleCommand
<1>1. IInv => NoStaleCommand
  BY DEF IInv
<1> QED BY <1>1, Invariance, PTL

(* A running player has a file, and the play state that the controls look at
   tells whether there is a thread that takes commands. Open() and Close()
   change the logfile only while there is no thread. Both up to STOP of a
   compressed file, from which the main thread's IsOpen() does not protect it. *)
THEOREM SharedOnlyAfterStop == Spec => FileExclusive
<1> DEFINE Alone == FileReady' /\ (MainUsesFile => tpc \in {"none", "exited"} \/ reopened)
<1>1. IInv /\ IInv' /\ [Next]_vars => [Alone]_vars
  <2>1. IInv' => FileReady'
    BY DEF IInv, Control, FileReady
  <2> SUFFICES ASSUME IInv, Next, MainUsesFile PROVE tpc \in {"none", "exited"} \/ reopened
    BY <2>1
  <2> USE DEF MainUsesFile
  <2>2. CASE Player
    BY <2>2 DEF Player, main, ThreadPrepare, ThreadCleanup, Poll, PopCommand, OpenAgain, Go,
       ProcessNothing, ProcessInterrupted, ProcessStepped, ProcessMsg, WaitRoom, SendMsg, Read
  <2>3. CASE Main
    <3>1. Open \/ OpenShared \/ Joined
      BY <2>3 DEF Main, LoopEvent, LoopDone, Click, PushCommand, NoClick, Restarted, Close,
         main, file, handle
    <3> QED BY <3>1 DEF Open, OpenShared, Joined, IInv, Control
  <2> QED BY <2>2, <2>3 DEF Next
<1> QED BY <1>1, Invariance, PTL DEF Spec, FileExclusive
-----------------------------------------------------------------------------
(* Messages are handed out in order, for any file, any size of chunks, and *)
(* so also when the parser overflows.                                      *)

(* The events of earlier runs have smaller numbers, and the thread has a   *)
(* message in its hands only between taking and sending it.                *)
Ages == \A i \in 1..Len(eventQueue) : eventQueue[i].run <= run
InHand == cur # 0 => tpc \in {"wait", "send"}
OInv == Ordered /\ Ages /\ InHand /\ base <= filePos

LEMMA RangeIs ==
    ASSUME NEW S, NEW s \in Seq(S)
    PROVE  Range(s) = {s[i] : i \in 1..Len(s)} /\ Range(s) \subseteq S
<1>1. DOMAIN s = 1..Len(s) /\ \A i \in 1..Len(s) : s[i] \in S
  BY LenProperties, ElementOfSeq
<1> QED BY <1>1 DEF Range

LEMMA RangeMsgs ==
    ASSUME NEW s \in Seq(1..NumMsgs)
    PROVE  Range(s) = {s[i] : i \in 1..Len(s)} /\ Range(s) \subseteq 1..NumMsgs
<1> DEFINE S == 1..NumMsgs
<1>1. s \in Seq(S)
  OBVIOUS
<1> HIDE DEF S
<1>2. Range(s) = {s[i] : i \in 1..Len(s)} /\ Range(s) \subseteq S
  BY <1>1, RangeIs
<1> QED BY <1>2 DEF S

(* What is in the four places, and when                                    *)
LEMMA Places ==
    ASSUME IInv
    PROVE  /\ Delivered \subseteq Nat /\ OnQueue \subseteq Nat /\ InWork \subseteq Nat
           /\ InParser \subseteq 1..NumMsgs /\ base \in Nat /\ filePos \in Nat /\ run \in Nat
           /\ eventQueue \in Seq(Events) /\ Mine \subseteq 1..Len(eventQueue)
           /\ got \in Seq(1..NumMsgs) /\ parser \in Seq(1..NumMsgs)
<1>1. got \in Seq(1..NumMsgs) /\ parser \in Seq(1..NumMsgs) /\ eventQueue \in Seq(Events)
  BY DEF IInv, ThreadTypes, QueueTypes
<1>2. \A i \in 1..Len(eventQueue) : eventQueue[i].msg \in Nat
  <2> SUFFICES ASSUME NEW i \in 1..Len(eventQueue) PROVE eventQueue[i].msg \in Nat
    OBVIOUS
  <2>1. eventQueue[i] \in Events
    BY <1>1, ElementOfSeq
  <2> QED BY <2>1, ConstantFacts DEF Events
<1>3. Delivered \subseteq 1..NumMsgs /\ InParser \subseteq 1..NumMsgs
  BY <1>1, RangeIs DEF Delivered, InParser
<1> QED BY <1>1, <1>2, <1>3 DEF IInv, ThreadTypes, OnQueue, InWork, Mine

(* A step that leaves the four places alone, or takes messages out of one  *)
LEMMA Fewer ==
    ASSUME IInv, Ordered, UNCHANGED <<run, base>>, filePos <= filePos', filePos' \in Nat,
           Increasing(got)', Increasing(parser)',
           \A i, j \in Mine' : i < j => eventQueue'[i].msg < eventQueue'[j].msg,
           Delivered' \subseteq Delivered, OnQueue' \subseteq OnQueue,
           InWork' \subseteq InWork, InParser' \subseteq InParser
    PROVE  Ordered'
<1>1. Before(Delivered', OnQueue') /\ Before(Delivered' \cup OnQueue', InWork')
  BY DEF Ordered, Before
<1>2. Before(Delivered' \cup OnQueue' \cup InWork', InParser')
  BY DEF Ordered, Before
<1>3. \A m \in Delivered' \cup OnQueue' \cup InWork' \cup InParser' : base' < m /\ m <= filePos'
  BY Places DEF Ordered
<1> QED BY <1>1, <1>2, <1>3 DEF Ordered, Before

(* A new run begins: nothing of before belongs to it                       *)
LEMMA NewRun ==
    ASSUME IInv, Ages, run' = run + 1, got' = <<>>, parser' = <<>>, cur' = 0,
           UNCHANGED eventQueue, base' <= filePos'
    PROVE  OInv'
<1>1. Mine' = {}
  BY Places DEF Mine, Ages
<1>2. Delivered' = {} /\ InParser' = {} /\ OnQueue' = {} /\ InWork' = {}
  BY <1>1 DEF Delivered, InParser, OnQueue, InWork, Range
<1>3. Ordered'
  BY <1>1, <1>2 DEF Ordered, Before, Increasing
<1>4. Ages'
  <2> SUFFICES ASSUME NEW i \in 1..Len(eventQueue) PROVE eventQueue[i].run <= run + 1
    BY DEF Ages
  <2>1. eventQueue[i] \in Events /\ eventQueue[i].run <= run
    BY Places, ElementOfSeq DEF Ages
  <2> QED BY <2>1, Places DEF Events
<1> QED BY <1>3, <1>4 DEF OInv, InHand

LEMMA InitOrder == Init => OInv
<1> SUFFICES ASSUME Init PROVE OInv
  OBVIOUS
<1> USE DEF Init
<1>1. Mine = {} /\ Delivered = {} /\ OnQueue = {} /\ InWork = {} /\ InParser = {}
  BY DEF Mine, Delivered, OnQueue, InWork, InParser, Range
<1> QED BY <1>1 DEF OInv, Ordered, Ages, InHand, Increasing, Before
-----------------------------------------------------------------------------
LEMMA LoopEventOrder == IInv /\ OInv /\ LoopEvent => OInv'
<1> SUFFICES ASSUME IInv, OInv, LoopEvent PROVE OInv'
  OBVIOUS
<1> USE DEF LoopEvent, thread, file, handle
<1> DEFINE e == Head(eventQueue)
           n == Len(eventQueue)
<1>1. /\ n \in Nat /\ n > 0 /\ Len(eventQueue') = n - 1
      /\ \A i \in 1..n - 1 : eventQueue'[i] = eventQueue[i + 1]
      /\ e = eventQueue[1]
  BY Places, HeadTailProperties
<1>2. \A i \in Mine' : i + 1 \in Mine /\ i \in Nat /\ eventQueue'[i] = eventQueue[i + 1]
  BY <1>1 DEF Mine
<1>3. \A i, j \in Mine' : i < j => eventQueue'[i].msg < eventQueue'[j].msg
  <2> SUFFICES ASSUME NEW i \in Mine', NEW j \in Mine', i < j
               PROVE eventQueue'[i].msg < eventQueue'[j].msg
    OBVIOUS
  <2>1. i + 1 \in Mine /\ j + 1 \in Mine /\ i + 1 < j + 1
    BY <1>2
  <2>2. eventQueue[i + 1].msg < eventQueue[j + 1].msg
    BY <2>1 DEF OInv, Ordered
  <2> QED BY <1>2, <2>2
<1>4. OnQueue' \subseteq OnQueue
  BY <1>2 DEF OnQueue
<1>5. Ages'
  BY <1>1, Places DEF OInv, Ages
<1>6. InWork' = InWork /\ InParser' = InParser /\ Increasing(parser)'
  BY DEF InWork, InParser, OInv, Ordered, Increasing
<1>7. CASE e.run = run /\ e.msg > 0
  <2>1. 1 \in Mine /\ e.msg \in OnQueue
    BY <1>1, <1>7 DEF Mine, OnQueue
  <2>2. got' = Append(got, e.msg)
    BY <1>7
  <2>3. e.msg \in Nat
    BY <2>1, Places
  <2>4. Delivered' = Delivered \cup {e.msg}
    <3>1. Len(got') = Len(got) + 1 /\ got'[Len(got) + 1] = e.msg
          /\ \A i \in 1..Len(got) : got'[i] = got[i]
      BY <2>2, <2>3, Places
    <3>2. got \in Seq(1..NumMsgs) /\ got' \in Seq(1..NumMsgs) /\ Len(got) \in Nat
      BY LoopEventInv DEF IInv, ThreadTypes
    <3>3. Delivered = {got[i] : i \in 1..Len(got)} /\ Delivered' = {got'[i] : i \in 1..Len(got')}
      BY <3>2, RangeMsgs DEF Delivered
    <3> QED BY <3>1, <3>2, <3>3
  <2>5. \A i \in 1..Len(got) : got[i] \in Delivered
    <3>1. got \in Seq(1..NumMsgs)
      BY Places
    <3>2. Delivered = {got[i] : i \in 1..Len(got)}
      BY <3>1, RangeMsgs DEF Delivered
    <3> QED BY <3>2
  <2>6. Increasing(got)'
    <3>1. \A i \in 1..Len(got) : got[i] < e.msg
      BY <2>1, <2>5 DEF OInv, Ordered, Before
    <3> QED BY <2>2, <2>3, <3>1, Places DEF OInv, Ordered, Increasing
  <2>7. \A m \in OnQueue' : e.msg < m
    <3> SUFFICES ASSUME NEW i \in Mine' PROVE e.msg < eventQueue'[i].msg
      BY DEF OnQueue
    <3>1. i + 1 \in Mine /\ 1 < i + 1
      BY <1>1, <1>2 DEF Mine
    <3>2. eventQueue[1].msg < eventQueue[i + 1].msg
      BY <2>1, <3>1 DEF OInv, Ordered
    <3> QED BY <1>1, <1>2, <3>2
  <2>8. Before(Delivered', OnQueue')
    BY <2>4, <2>7, <1>4 DEF OInv, Ordered, Before
  <2>9. Delivered' \cup OnQueue' \subseteq Delivered \cup OnQueue
    BY <2>1, <2>4, <1>4
  <2>10. Ordered'
    <3>1. Before(Delivered' \cup OnQueue', InWork')
          /\ Before(Delivered' \cup OnQueue' \cup InWork', InParser')
      BY <1>6, <2>9 DEF OInv, Ordered, Before
    <3>2. \A m \in Delivered' \cup OnQueue' \cup InWork' \cup InParser' : base' < m /\ m <= filePos'
      BY <1>6, <2>9 DEF OInv, Ordered
    <3> HIDE DEF LoopEvent
    <3> QED BY <1>3, <1>6, <2>6, <2>8, <3>1, <3>2 DEF Ordered
  <2> QED BY <2>10, <1>5 DEF OInv, InHand
<1>8. CASE ~(e.run = run /\ e.msg > 0)
  <2>1. got' = got /\ Delivered' = Delivered /\ Increasing(got)'
    BY <1>8 DEF Delivered, OInv, Ordered, Increasing
  <2>2. Ordered'
    <3>1. UNCHANGED <<run, base>> /\ filePos <= filePos' /\ filePos' \in Nat /\ Ordered
      BY Places DEF OInv
    <3>2. Delivered' \subseteq Delivered /\ InWork' \subseteq InWork /\ InParser' \subseteq InParser
      BY <1>6, <2>1
    <3> HIDE DEF LoopEvent
    <3> QED BY <1>3, <1>4, <1>6, <2>1, <3>1, <3>2, Fewer
  <2> QED BY <2>2, <1>5 DEF OInv, InHand
<1> QED BY <1>7, <1>8

(* Events that are no messages do not change what is on the queue          *)
LEMMA Notices ==
    ASSUME IInv, OInv, NEW msgs \in Seq({0}), SendEvents(msgs), UNCHANGED run
    PROVE  Mine' = Mine /\ (\A i \in Mine : eventQueue'[i] = eventQueue[i]) /\ OnQueue' = OnQueue /\ Ages'
<1> DEFINE new == [i \in 1..Len(msgs) |-> [run |-> run, msg |-> msgs[i]]]
           n == Len(eventQueue)
<1>1. new \in Seq(Events) /\ Len(new) = Len(msgs) /\ Len(msgs) \in Nat
  <2>1. \A i \in 1..Len(msgs) : [run |-> run, msg |-> msgs[i]] \in Events
    BY Places, ConstantFacts DEF Events
  <2> QED BY <2>1
<1>2. eventQueue' = eventQueue \o new
  BY DEF SendEvents
<1> HIDE DEF new
<1>3. /\ n \in Nat /\ Len(eventQueue') = n + Len(msgs)
      /\ \A i \in 1..n : eventQueue'[i] = eventQueue[i]
      /\ \A i \in n + 1..n + Len(msgs) : eventQueue'[i] = new[i - n]
  <2>1. eventQueue \in Seq(Events) /\ n \in Nat /\ Len(new) \in Nat
    BY <1>1, Places
  <2> HIDE DEF n
  <2>2. Len(eventQueue \o new) = Len(eventQueue) + Len(new)
    BY <1>1, <2>1
  <2>3. \A i \in 1..Len(eventQueue) + Len(new) :
            (eventQueue \o new)[i] = IF i <= Len(eventQueue) THEN eventQueue[i] ELSE new[i - Len(eventQueue)]
    BY <1>1, <2>1, ConcatProperties
  <2> QED BY <1>1, <1>2, <2>1, <2>2, <2>3 DEF n
<1>4. \A i \in 1..Len(msgs) : new[i].msg = 0 /\ new[i].run = run
  BY DEF new
<1>5. \A i \in n + 1..n + Len(msgs) : eventQueue'[i].msg = 0 /\ eventQueue'[i].run = run
  <2> SUFFICES ASSUME NEW i \in n + 1..n + Len(msgs) PROVE eventQueue'[i].msg = 0 /\ eventQueue'[i].run = run
    OBVIOUS
  <2>1. i - n \in 1..Len(msgs)
    BY <1>1, <1>3
  <2> QED BY <2>1, <1>3, <1>4
<1>6. Mine' = Mine
  <2>1. \A i \in Mine' : i \in Mine
    BY <1>1, <1>3, <1>5 DEF Mine
  <2>2. \A i \in Mine : i \in Mine'
    BY <1>1, <1>3 DEF Mine
  <2> QED BY <2>1, <2>2
<1>7. \A i \in Mine : eventQueue'[i] = eventQueue[i]
  BY <1>3 DEF Mine
<1>8. OnQueue' = OnQueue
  BY <1>6, <1>7 DEF OnQueue
<1>9. Ages'
  <2> SUFFICES ASSUME NEW i \in 1..Len(eventQueue') PROVE eventQueue'[i].run <= run
    BY DEF Ages
  <2>1. CASE i <= n
    BY <2>1, <1>3 DEF OInv, Ages
  <2>2. CASE i > n
    <3>1. i \in n + 1..n + Len(msgs)
      BY <2>2, <1>1, <1>3
    <3>2. eventQueue'[i].run = run /\ run \in Nat
      BY <3>1, <1>5, Places
    <3> QED BY <3>2
  <2> QED BY <2>1, <2>2, <1>1, <1>3
<1> QED BY <1>6, <1>7, <1>8, <1>9

(* A step of the thread that sends notices, and leaves its message alone   *)
LEMMA NoticeOrder ==
    ASSUME IInv, OInv, NEW msgs \in Seq({0}), SendEvents(msgs),
           UNCHANGED <<run, base, filePos, got, cur>>, InHand',
           Increasing(parser)', InParser' \subseteq InParser
    PROVE  OInv'
<1>1. Delivered' = Delivered /\ InWork' = InWork /\ Increasing(got)'
  BY DEF Delivered, InWork, OInv, Ordered, Increasing
<1>2. \A i, j \in Mine' : i < j => eventQueue'[i].msg < eventQueue'[j].msg
  BY Notices DEF OInv, Ordered
<1>3. Ordered'
  BY <1>1, <1>2, Notices, Places, Fewer DEF OInv
<1> QED BY <1>3, Notices DEF OInv

(* A step that sends nothing and at most takes from the parser             *)
LEMMA QuietOrder ==
    ASSUME IInv, OInv, UNCHANGED <<run, base, filePos, got, cur, eventQueue>>, InHand',
           Increasing(parser)', InParser' \subseteq InParser
    PROVE  OInv'
<1>1. Delivered' = Delivered /\ InWork' = InWork /\ Increasing(got)' /\ Mine' = Mine /\ OnQueue' = OnQueue
  BY DEF Delivered, InWork, OInv, Ordered, Increasing, Mine, OnQueue
<1>2. \A i, j \in Mine' : i < j => eventQueue'[i].msg < eventQueue'[j].msg
  BY <1>1 DEF OInv, Ordered
<1>3. Ordered'
  BY <1>1, <1>2, Places, Fewer DEF OInv
<1> QED BY <1>3 DEF OInv, Ages

(* A step that leaves the parser alone                                     *)
LEMMA SameParser ==
    ASSUME OInv, UNCHANGED parser
    PROVE  Increasing(parser)' /\ InParser' \subseteq InParser
BY DEF OInv, Ordered, Increasing, InParser

(* The first message leaves the parser                                     *)
LEMMA ParserLess ==
    ASSUME IInv, OInv, parser # <<>>, parser' = Tail(parser)
    PROVE  /\ Increasing(parser)' /\ InParser' \subseteq InParser /\ InParser = {Head(parser)} \cup InParser'
           /\ Head(parser) \in InParser /\ Before({Head(parser)}, InParser')
<1> DEFINE n == Len(parser)
<1>1. /\ n \in Nat /\ n > 0 /\ Len(parser') = n - 1 /\ Head(parser) = parser[1]
      /\ \A i \in 1..n - 1 : parser'[i] = parser[i + 1]
  BY Places, HeadTailProperties
<1>2. InParser = {parser[i] : i \in 1..n} /\ InParser' = {parser'[i] : i \in 1..n - 1}
  <2>1. parser' \in Seq(1..NumMsgs) /\ parser \in Seq(1..NumMsgs)
    BY Places, HeadTailProperties
  <2> QED BY <1>1, <2>1, RangeMsgs DEF InParser
<1>3. \A i, j \in 1..n : i < j => parser[i] < parser[j]
  BY DEF OInv, Ordered, Increasing
<1>4. Increasing(parser)'
  BY <1>1, <1>3 DEF Increasing
<1>5. InParser' \subseteq InParser /\ Head(parser) \in InParser
  BY <1>1, <1>2
<1>6. \A i \in 1..n - 1 : parser[1] < parser'[i]
  BY <1>1, <1>3
<1>7. \A m \in InParser : m = parser[1] \/ m \in InParser'
  <2> SUFFICES ASSUME NEW i \in 1..n, i # 1 PROVE parser[i] \in InParser'
    BY <1>2
  <2>1. PICK k : k = i - 1
    OBVIOUS
  <2>2. k \in 1..n - 1 /\ k + 1 = i
    BY <1>1, <2>1
  <2> QED BY <1>1, <1>2, <2>2
<1> QED BY <1>1, <1>2, <1>4, <1>5, <1>6, <1>7 DEF Before
-----------------------------------------------------------------------------
(* The steps of the main thread                                            *)
LEMMA MainOrder ==
    ASSUME IInv, OInv, Main, ~OpenShared, mpc # "restart"
    PROVE  OInv'
<1> USE DEF main, thread, file, handle
<1> DEFINE Quiet == UNCHANGED <<run, base, filePos, got, cur, eventQueue, parser, tpc>>
<1>1. CASE Quiet
  BY <1>1, QuietOrder, SameParser DEF OInv, InHand
<1>2. ASSUME OpenFile("loop"), UNCHANGED eventQueue PROVE OInv'
  BY <1>2, NewRun DEF OpenFile, OInv
<1>3. CASE LoopDone
  BY <1>3, <1>1 DEF LoopDone
<1>4. CASE NoClick
  BY <1>4, <1>1 DEF NoClick
<1>5. CASE \E op \in Ops : Click(op)
  BY <1>5, <1>1 DEF Click
<1>6. CASE PushCommand
  BY <1>6, <1>1 DEF PushCommand
<1>7. CASE Close
  BY <1>7, <1>1 DEF Close
<1>8. CASE Open
  BY <1>8, <1>2 DEF Open
<1>9. CASE Joined
  <2>1. CASE pending = Reopen
    BY <1>9, <2>1, <1>2 DEF Joined
  <2>2. CASE pending # Reopen
    <3>1. cur = 0
      BY <1>9 DEF Joined, OInv, InHand
    <3>2. UNCHANGED <<run, base, filePos, got, cur, eventQueue, parser>> /\ InHand'
      BY <1>9, <2>2, <3>1 DEF Joined, InHand
    <3> QED BY <3>2, QuietOrder, SameParser
  <2> QED BY <2>1, <2>2
<1> QED BY <1>3, <1>4, <1>5, <1>6, <1>7, <1>8, <1>9, LoopEventOrder DEF Main, Restarted
-----------------------------------------------------------------------------
(* The thread takes a message out of the parser, and then sends it         *)
LEMMA ProcessMsgOrder == IInv /\ OInv /\ ProcessMsg => OInv'
<1> SUFFICES ASSUME IInv, OInv, ProcessMsg PROVE OInv'
  OBVIOUS
<1> USE DEF ProcessMsg, main, file, handle
<1> DEFINE msgs == (IF Head(parser) \in EpochEnds THEN << 0 >> ELSE <<>>)
                     \o (IF Head(parser) \in Warnings THEN << 0 >> ELSE <<>>)
<1>1. msgs \in Seq({0})
  <2>1. << 0 >> \in Seq({0}) /\ <<>> \in Seq({0})
    OBVIOUS
  <2> QED BY <2>1, ConcatProperties
<1>2. SendEvents(msgs)
  OBVIOUS
<1> HIDE DEF msgs
<1>3. Mine' = Mine /\ (\A i \in Mine : eventQueue'[i] = eventQueue[i]) /\ OnQueue' = OnQueue /\ Ages'
  BY <1>1, <1>2, Notices
<1>4. cur = 0 /\ InWork = {}
  BY DEF OInv, InHand, InWork
<1>5. Head(parser) \in 1..NumMsgs /\ InWork' = {Head(parser)}
  BY Places, ParserLess DEF InWork
<1>6. Increasing(got)' /\ Delivered' = Delivered
  BY DEF OInv, Ordered, Increasing, Delivered
<1>7. \A i, j \in Mine' : i < j => eventQueue'[i].msg < eventQueue'[j].msg
  BY <1>3 DEF OInv, Ordered
<1>8. Before(Delivered', OnQueue') /\ Before(Delivered' \cup OnQueue', InWork')
  BY <1>3, <1>5, <1>6, ParserLess DEF OInv, Ordered, Before
<1>9. Before(Delivered' \cup OnQueue' \cup InWork', InParser')
  BY <1>3, <1>5, <1>6, ParserLess DEF OInv, Ordered, Before
<1>10. \A m \in Delivered' \cup OnQueue' \cup InWork' \cup InParser' : base' < m /\ m <= filePos'
  BY <1>3, <1>5, <1>6, ParserLess DEF OInv, Ordered
<1>11. Ordered'
  BY <1>6, <1>7, <1>8, <1>9, <1>10, ParserLess DEF Ordered
<1> QED BY <1>3, <1>11 DEF OInv, InHand

LEMMA SendMsgOrder == IInv /\ OInv /\ SendMsg => OInv'
<1> SUFFICES ASSUME IInv, OInv, SendMsg PROVE OInv'
  OBVIOUS
<1> USE DEF SendMsg, main, file, handle
<1> DEFINE n == Len(eventQueue)
           e == [run |-> run, msg |-> cur]
<1>1. n \in Nat /\ cur \in 0..NumMsgs /\ run \in Nat
  BY Places DEF IInv, ThreadTypes
<1>2. /\ Len(eventQueue') = n + 1 /\ eventQueue'[n + 1] = e
      /\ \A i \in 1..n : eventQueue'[i] = eventQueue[i]
  <2> DEFINE new == [i \in 1..Len(<<cur>>) |-> [run |-> run, msg |-> (<<cur>>)[i]]]
  <2>1. new = <<e>>
    OBVIOUS
  <2>2. e \in Events
    BY <1>1 DEF Events
  <2>3. eventQueue' = eventQueue \o <<e>>
    BY <2>1 DEF SendEvents
  <2> HIDE DEF e
  <2> QED BY <2>2, <2>3, Places
<1>3. \A i \in Mine : i \in 1..n /\ i \in Mine' /\ eventQueue'[i] = eventQueue[i]
  BY <1>1, <1>2 DEF Mine
<1>4. \A i \in Mine' : i \in Mine \/ (i = n + 1 /\ cur # 0)
  BY <1>1, <1>2 DEF Mine
<1>5. cur # 0 => n + 1 \in Mine'
  BY <1>1, <1>2 DEF Mine
<1>6. OnQueue' = OnQueue \cup InWork
  <2>1. \A m \in OnQueue' : m \in OnQueue \cup InWork
    BY <1>2, <1>3, <1>4 DEF OnQueue, InWork
  <2>2. \A m \in OnQueue \cup InWork : m \in OnQueue'
    BY <1>2, <1>3, <1>5 DEF OnQueue, InWork
  <2> QED BY <2>1, <2>2
<1>7. InWork' = {} /\ Delivered' = Delivered /\ InParser' = InParser
  BY DEF InWork, Delivered, InParser
<1>8. Increasing(got)' /\ Increasing(parser)'
  BY DEF OInv, Ordered, Increasing
<1>9. \A i, j \in Mine' : i < j => eventQueue'[i].msg < eventQueue'[j].msg
  <2> SUFFICES ASSUME NEW i \in Mine', NEW j \in Mine', i < j
               PROVE eventQueue'[i].msg < eventQueue'[j].msg
    OBVIOUS
  <2>1. i \in Mine
    BY <1>1, <1>2, <1>3, <1>4 DEF Mine
  <2>2. CASE j \in Mine
    BY <2>1, <2>2, <1>3 DEF OInv, Ordered
  <2>3. CASE j = n + 1 /\ cur # 0
    <3>1. eventQueue[i].msg \in OnQueue /\ cur \in InWork
      BY <2>1, <2>3, <1>1 DEF OnQueue, InWork
    <3>2. eventQueue[i].msg < cur
      BY <3>1 DEF OInv, Ordered, Before
    <3> QED BY <2>1, <2>3, <3>2, <1>2, <1>3
  <2> QED BY <2>2, <2>3, <1>4
<1>10. Before(Delivered', OnQueue') /\ Before(Delivered' \cup OnQueue', InWork')
       /\ Before(Delivered' \cup OnQueue' \cup InWork', InParser')
  BY <1>6, <1>7 DEF OInv, Ordered, Before
<1>11. \A m \in Delivered' \cup OnQueue' \cup InWork' \cup InParser' : base' < m /\ m <= filePos'
  BY <1>6, <1>7 DEF OInv, Ordered
<1>12. Ages'
  <2> SUFFICES ASSUME NEW i \in 1..Len(eventQueue') PROVE eventQueue'[i].run <= run
    BY DEF Ages
  <2>1. CASE i \in 1..n
    BY <2>1, <1>2 DEF OInv, Ages
  <2>2. CASE i = n + 1
    BY <2>2, <1>1, <1>2
  <2> QED BY <2>1, <2>2, <1>1, <1>2
<1>13. Ordered'
  BY <1>8, <1>9, <1>10, <1>11 DEF Ordered
<1> QED BY <1>12, <1>13 DEF OInv, InHand

(* More of the file: the parser goes on where it was, or loses it          *)
LEMMA ReadOrder == IInv /\ OInv /\ Read => OInv'
<1> SUFFICES ASSUME IInv, OInv, Read PROVE OInv'
  OBVIOUS
<1> USE DEF Read, main, handle
<1> HIDE DEF Chunk
<1> DEFINE n == Len(parser)
<1>1. /\ parser \in Seq(1..NumMsgs) /\ n \in Nat /\ Chunk \in Seq(1..NumMsgs) /\ Len(Chunk) \in Nat
      /\ filePos \in Nat /\ \A i \in 1..Len(Chunk) : Chunk[i] = filePos + i
  <2>1. parser \in Seq(1..NumMsgs) /\ n \in Nat /\ filePos \in Nat
    BY Places
  <2> QED BY <2>1, ChunkIs
<1>2. filePos <= filePos' /\ filePos' \in Nat
  BY <1>1
<1>3. /\ Increasing(got)' /\ Delivered' = Delivered /\ Mine' = Mine /\ OnQueue' = OnQueue
      /\ InWork' = InWork /\ (\A i, j \in Mine' : i < j => eventQueue'[i].msg < eventQueue'[j].msg)
  BY DEF OInv, Ordered, Increasing, Delivered, Mine, OnQueue, InWork
<1>4. InHand' /\ Ages' /\ base' <= filePos'
  BY <1>1, <1>2, Places DEF OInv, InHand, Ages
<1>5. CASE parser' = parser
  <2>1. Ordered'
    BY <1>2, <1>3, <1>5, SameParser, Fewer DEF OInv
  <2> QED BY <2>1, <1>4 DEF OInv
<1>6. CASE parser' = parser \o Chunk
  <2>1. parser' \in Seq(1..NumMsgs) /\ Len(parser') = n + Len(Chunk)
    BY <1>1, <1>6, ConcatProperties
  <2>2. \A i \in 1..n : parser'[i] = parser[i]
    BY <1>1, <1>6, ConcatProperties
  <2>3. \A i \in n + 1..n + Len(Chunk) : parser'[i] = filePos + (i - n)
    <3> SUFFICES ASSUME NEW i \in n + 1..n + Len(Chunk) PROVE parser'[i] = filePos + (i - n)
      OBVIOUS
    <3>1. parser'[i] = Chunk[i - n]
      BY <1>1, <1>6, ConcatProperties
    <3>2. i - n \in 1..Len(Chunk)
      BY <1>1
    <3> QED BY <3>1, <3>2, <1>1
  <2>4. \A i \in 1..n : parser[i] \in InParser /\ parser[i] <= filePos
    BY <1>1, RangeMsgs DEF InParser, OInv, Ordered
  <2>5. \A m \in InParser' : m \in InParser \/ (filePos < m /\ m <= filePos')
    <3> SUFFICES ASSUME NEW m \in InParser' PROVE m \in InParser \/ (filePos < m /\ m <= filePos')
      OBVIOUS
    <3>1. PICK i \in 1..n + Len(Chunk) : m = parser'[i]
      <4>1. InParser' = {parser'[i] : i \in 1..Len(parser')}
        BY <2>1, RangeMsgs DEF InParser
      <4> QED BY <4>1, <2>1
    <3>2. CASE i <= n
      BY <3>1, <3>2, <2>2, <2>4, <1>1
    <3>3. CASE i > n
      BY <3>1, <3>3, <2>3, <1>1
    <3> QED BY <3>2, <3>3, <1>1
  <2>6. Increasing(parser)'
    <3> SUFFICES ASSUME NEW i \in 1..n + Len(Chunk), NEW j \in 1..n + Len(Chunk), i < j
                 PROVE parser'[i] < parser'[j]
      BY <2>1 DEF Increasing
    <3>1. CASE j <= n
      <4>1. Increasing(parser) /\ i \in 1..Len(parser) /\ j \in 1..Len(parser)
        BY <3>1, <1>1 DEF OInv, Ordered
      <4>2. parser[i] < parser[j]
        BY <4>1 DEF Increasing
      <4> QED BY <4>2, <3>1, <2>2, <1>1
    <3>2. CASE i <= n /\ j > n
      <4>1. parser'[i] <= filePos /\ parser'[i] \in Nat
        BY <3>2, <2>2, <2>4, <1>1, Places
      <4>2. parser'[j] = filePos + (j - n)
        BY <3>2, <2>3, <1>1
      <4> QED BY <4>1, <4>2, <3>2, <1>1
    <3>3. CASE i > n
      BY <3>3, <2>3, <1>1
    <3> QED BY <3>1, <3>2, <3>3, <1>1
  <2>7. \A m \in Delivered \cup OnQueue \cup InWork : m <= filePos /\ m \in Nat /\ base < m
    BY Places DEF OInv, Ordered
  <2>8. Before(Delivered' \cup OnQueue' \cup InWork', InParser')
    <3> SUFFICES ASSUME NEW s \in Delivered \cup OnQueue \cup InWork, NEW m \in InParser' PROVE s < m
      BY <1>3 DEF Before
    <3>1. CASE m \in InParser
      BY <3>1 DEF OInv, Ordered, Before
    <3>2. CASE filePos < m /\ m <= filePos'
      <4>1. m \in Nat
        BY <2>1, RangeMsgs DEF InParser
      <4> QED BY <3>2, <4>1, <2>7, <1>1
    <3> QED BY <3>1, <3>2, <2>5
  <2>9. base \in Nat /\ base <= filePos
    BY Places DEF OInv
  <2>10. \A m \in InParser' : base < m /\ m <= filePos'
    <3> SUFFICES ASSUME NEW m \in InParser' PROVE base < m /\ m <= filePos'
      OBVIOUS
    <3>1. m \in Nat
      BY <2>1, RangeMsgs DEF InParser
    <3>2. CASE m \in InParser
      BY <3>1, <3>2, <1>1, <1>2 DEF OInv, Ordered
    <3>3. CASE filePos < m /\ m <= filePos'
      BY <3>1, <3>3, <2>9, <1>1
    <3> QED BY <3>2, <3>3, <2>5
  <2>11. Before(Delivered', OnQueue') /\ Before(Delivered' \cup OnQueue', InWork')
    BY <1>3 DEF OInv, Ordered
  <2>12. \A m \in Delivered' \cup OnQueue' \cup InWork' \cup InParser' : base' < m /\ m <= filePos'
    BY <1>1, <1>2, <1>3, <2>7, <2>10
  <2>13. Ordered'
    BY <1>3, <2>6, <2>8, <2>11, <2>12 DEF Ordered
  <2> QED BY <2>13, <1>4 DEF OInv
<1> QED BY <1>5, <1>6

(* The steps of the thread                                                 *)
LEMMA PlayerOrder ==
    ASSUME IInv, OInv, Player
    PROVE  OInv'
<1> USE DEF main, file, handle
<1>1. ASSUME UNCHANGED <<run, base, filePos, got, cur, eventQueue, parser>>, InHand' PROVE OInv'
  BY <1>1, QuietOrder, SameParser
<1>0. << 0 >> \in Seq({0})
  OBVIOUS
<1>2. CASE ThreadPrepare
  BY <1>2, <1>0, SameParser, NoticeOrder DEF ThreadPrepare, OInv, InHand
<1>3. CASE ThreadCleanup
  BY <1>3, <1>0, SameParser, NoticeOrder DEF ThreadCleanup, OInv, InHand
<1>4. CASE Poll \/ Go \/ ProcessNothing \/ WaitRoom
  BY <1>4, <1>1 DEF Poll, Go, ProcessNothing, WaitRoom, OInv, InHand
<1>5. CASE PopCommand
  <2>1. cur = 0 /\ cur' = 0 /\ eventQueue' = eventQueue
    BY <1>5 DEF PopCommand, OInv, InHand
  <2>2. /\ tpc' \notin {"wait", "send"}
        /\ \/ UNCHANGED <<filePos, run, base, got, parser>>
           \/ run' = run + 1 /\ got' = <<>> /\ parser' = <<>> /\ filePos' = base'
    BY <1>5 DEF PopCommand, Position
  <2>3. CASE UNCHANGED <<filePos, run, base, got, parser>>
    BY <1>1, <2>1, <2>3 DEF InHand
  <2>4. CASE run' = run + 1 /\ got' = <<>> /\ parser' = <<>> /\ filePos' = base'
    <3>1. base' \in Nat
      BY <1>5, PopCommandInv DEF IInv, ThreadTypes
    <3> QED BY <3>1, <2>1, <2>4, NewRun DEF OInv
  <2> QED BY <2>2, <2>3, <2>4
<1>8. CASE OpenAgain
  <2>1. cur = 0 /\ cur' = 0 /\ eventQueue' = eventQueue
    BY <1>8 DEF OpenAgain, OInv, InHand
  <2>2. run' = run + 1 /\ got' = <<>> /\ parser' = <<>> /\ filePos' = base'
    BY <1>8 DEF OpenAgain, Position
  <2>3. base' \in Nat
    BY <1>8, OpenAgainInv DEF IInv, ThreadTypes
  <2> QED BY <2>1, <2>2, <2>3, NewRun DEF OInv
<1>6. CASE ProcessInterrupted
  BY <1>6, ParserLess, QuietOrder DEF ProcessInterrupted, OInv, InHand
<1>7. CASE ProcessStepped
  BY <1>7, <1>0, ParserLess, NoticeOrder DEF ProcessStepped, OInv, InHand
<1> QED BY <1>2, <1>3, <1>4, <1>5, <1>6, <1>7, <1>8, ProcessMsgOrder, SendMsgOrder, ReadOrder DEF Player

-----------------------------------------------------------------------------
(* While Open() waits for a thread of the file before, nothing is in order,*)
(* but what the next run takes is kept.                                    *)
Begun == Ages /\ InHand /\ base <= filePos

LEMMA SentAges ==
    ASSUME IInv, Ages, NEW msgs \in Seq(0..NumMsgs), SendEvents(msgs), UNCHANGED run
    PROVE  Ages'
<1> DEFINE new == [i \in 1..Len(msgs) |-> [run |-> run, msg |-> msgs[i]]]
           n == Len(eventQueue)
<1>1. new \in Seq(Events) /\ Len(new) = Len(msgs) /\ Len(msgs) \in Nat
  <2>1. \A i \in 1..Len(msgs) : msgs[i] \in 0..NumMsgs
    BY ElementOfSeq
  <2>2. \A i \in 1..Len(msgs) : [run |-> run, msg |-> msgs[i]] \in Events
    BY <2>1, Places DEF Events
  <2> QED BY <2>2
<1>2. \A i \in 1..Len(msgs) : new[i].run = run
  OBVIOUS
<1>3. eventQueue' = eventQueue \o new
  BY DEF SendEvents
<1>4. eventQueue \in Seq(Events) /\ run \in Nat
  BY Places
<1> HIDE DEF new
<1>5. n \in Nat /\ Len(eventQueue') = n + Len(msgs)
  <2>1. n \in Nat
    BY <1>4
  <2> HIDE DEF n
  <2>2. Len(eventQueue \o new) = Len(eventQueue) + Len(new)
    BY <1>1, <1>4
  <2> QED BY <1>1, <1>3, <2>1, <2>2 DEF n
<1> SUFFICES ASSUME NEW i \in 1..n + Len(msgs) PROVE eventQueue'[i].run <= run
  BY <1>5 DEF Ages
<1>6. CASE i <= n
  <2>1. eventQueue'[i] = eventQueue[i] /\ i \in 1..n
    BY <1>1, <1>3, <1>4, <1>5, <1>6, ConcatProperties
  <2> QED BY <2>1 DEF Ages
<1>7. CASE i > n
  <2>1. i - n \in 1..Len(msgs) /\ eventQueue'[i] = new[i - n]
    BY <1>1, <1>3, <1>4, <1>5, <1>7, ConcatProperties
  <2> QED BY <2>1, <1>2, <1>4
<1> QED BY <1>5, <1>6, <1>7

LEMMA PlayerBegun ==
    ASSUME IInv, Begun, Player
    PROVE  Begun'
<1> USE DEF main, file, handle
<1>1. InHand'
  <2>1. ASSUME UNCHANGED cur, tpc \notin {"wait", "send"} PROVE InHand'
    BY <2>1 DEF Begun, InHand
  <2>2. CASE WaitRoom \/ SendMsg \/ ProcessMsg
    BY <2>2 DEF WaitRoom, SendMsg, ProcessMsg, InHand
  <2> QED BY <2>1, <2>2 DEF Player, ThreadPrepare, ThreadCleanup, Poll, PopCommand, OpenAgain, Go,
          ProcessNothing, ProcessInterrupted, ProcessStepped, Read
<1>2. base' <= filePos'
  <2>1. CASE UNCHANGED <<base, filePos>>
    BY <2>1 DEF Begun
  <2>2. CASE PopCommand \/ OpenAgain
    <3>1. base' = filePos' \/ UNCHANGED <<base, filePos>>
      BY <2>2 DEF PopCommand, OpenAgain, Position
    <3>2. filePos' \in Nat
      BY <2>2, PopCommandInv, OpenAgainInv, ConstantFacts DEF IInv, ThreadTypes
    <3> QED BY <3>1, <3>2 DEF Begun
  <2>3. CASE Read
    <3> HIDE DEF Chunk
    <3>1. base' = base /\ filePos' = filePos + Len(Chunk)
      BY <2>3 DEF Read
    <3> QED BY <3>1, ChunkIs, Places DEF Begun
  <2> QED BY <2>1, <2>2, <2>3 DEF Player, ThreadPrepare, ThreadCleanup, Poll, Go, ProcessNothing,
          ProcessInterrupted, ProcessStepped, ProcessMsg, WaitRoom, SendMsg
<1>3. Ages'
  <2>1. ASSUME UNCHANGED eventQueue, run' = run \/ run' = run + 1 PROVE Ages'
    <3> SUFFICES ASSUME NEW i \in 1..Len(eventQueue) PROVE eventQueue[i].run <= run'
      BY <2>1 DEF Ages
    <3>1. eventQueue[i] \in Events /\ eventQueue[i].run <= run
      BY Places, ElementOfSeq DEF Begun, Ages
    <3> QED BY <2>1, <3>1, Places DEF Events
  <2>2. CASE Poll \/ PopCommand \/ OpenAgain \/ Go \/ ProcessNothing \/ ProcessInterrupted
                  \/ WaitRoom \/ Read
    BY <2>1, <2>2 DEF Poll, PopCommand, OpenAgain, Go, ProcessNothing, ProcessInterrupted,
       WaitRoom, Read, Position
  <2>3. << 0 >> \in Seq(0..NumMsgs) /\ <<cur>> \in Seq(0..NumMsgs)
    <3>1. 0 \in 0..NumMsgs /\ cur \in 0..NumMsgs
      BY ConstantFacts DEF IInv, ThreadTypes
    <3> QED BY <3>1
  <2>4. CASE ThreadPrepare \/ ThreadCleanup \/ ProcessStepped
    BY <2>3, <2>4, SentAges DEF ThreadPrepare, ThreadCleanup, ProcessStepped, Begun
  <2>5. CASE SendMsg
    BY <2>3, <2>5, SentAges DEF SendMsg, Begun
  <2>6. CASE ProcessMsg
    <3> DEFINE s == IF Head(parser) \in EpochEnds THEN << 0 >> ELSE <<>>
               t == IF Head(parser) \in Warnings THEN << 0 >> ELSE <<>>
    <3>1. SendEvents(s \o t) /\ run' = run
      BY <2>6 DEF ProcessMsg
    <3>2. (s = << 0 >> \/ s = <<>>) /\ (t = << 0 >> \/ t = <<>>)
      OBVIOUS
    <3> HIDE DEF s, t
    <3>3. s \in Seq(0..NumMsgs) /\ t \in Seq(0..NumMsgs)
      BY <3>2, Notice
    <3>4. s \o t \in Seq(0..NumMsgs)
      BY <3>3, ConcatProperties
    <3> QED BY <3>1, <3>4, SentAges DEF Begun
  <2> QED BY <2>2, <2>4, <2>5, <2>6 DEF Player
<1> QED BY <1>1, <1>2, <1>3 DEF Begun

LEMMA OpenSharedBegun ==
    ASSUME IInv, Begun, OpenShared
    PROVE  Begun'
<1> USE DEF OpenShared, thread
<1>1. InHand' /\ base' <= filePos'
  BY DEF Begun, InHand
<1>2. Ages'
  <2> SUFFICES ASSUME NEW i \in 1..Len(eventQueue) PROVE eventQueue[i].run <= run + 1
    BY DEF Ages
  <2>1. eventQueue[i] \in Events /\ eventQueue[i].run <= run
    BY Places, ElementOfSeq DEF Begun, Ages
  <2> QED BY <2>1, Places DEF Events
<1> QED BY <1>1, <1>2 DEF Begun

(* The order, and what it takes, holds in every state of the player.        *)
THEOREM OrderInvariance == Spec => [](Begun /\ InOrder)
<1>1. Init => Begun /\ InOrder
  BY InitOrder DEF OInv, Begun, InOrder
<1>2. IInv /\ IInv' /\ Begun /\ InOrder /\ [Next]_vars => (Begun /\ InOrder)'
  <2> SUFFICES ASSUME IInv, IInv', Begun, InOrder, [Next]_vars PROVE (Begun /\ InOrder)'
    OBVIOUS
  <2>1. mpc # "restart" => OInv
    BY DEF OInv, Begun, InOrder
  <2>2. OInv' => (Begun /\ InOrder)'
    BY DEF OInv, Begun, InOrder
  <2>3. CASE OpenShared
    <3>1. mpc' = "restart"
      BY <2>3 DEF OpenShared
    <3> QED BY <2>3, <3>1, OpenSharedBegun DEF InOrder
  <2>4. CASE Restarted
    <3>1. base' <= filePos'
      BY <2>4, Places DEF Restarted
    <3>2. OInv'
      BY <2>4, <3>1, NewRun DEF Restarted, Begun
    <3> QED BY <3>2, <2>2
  <2>5. CASE Main /\ ~OpenShared /\ mpc # "restart"
    BY <2>1, <2>2, <2>5, MainOrder
  <2>6. CASE Main /\ mpc = "restart" /\ ~Restarted
    BY <2>6 DEF Main, LoopEvent, LoopDone, Click, PushCommand, NoClick, Open, OpenShared, Close, Joined
  <2>7. CASE Player
    <3>1. mpc' = mpc
      BY <2>7 DEF Player, main, ThreadPrepare, ThreadCleanup, Poll, PopCommand, OpenAgain, Go,
         ProcessNothing, ProcessInterrupted, ProcessStepped, ProcessMsg, WaitRoom, SendMsg, Read
    <3>2. CASE mpc # "restart"
      BY <2>1, <2>2, <2>7, <3>2, PlayerOrder
    <3>3. CASE mpc = "restart"
      BY <2>7, <3>1, <3>3, PlayerBegun DEF InOrder
    <3> QED BY <3>2, <3>3
  <2>8. CASE UNCHANGED vars
    <3>1. mpc' = mpc /\ Begun'
      BY <2>8 DEF vars, main, thread, file, Begun, Ages, InHand
    <3>2. mpc # "restart" => OInv'
      BY <2>1, <2>8, QuietOrder, SameParser DEF vars, main, thread, file, OInv, InHand
    <3> QED BY <3>1, <3>2, <2>2 DEF InOrder
  <2> QED BY <2>3, <2>4, <2>5, <2>6, <2>7, <2>8 DEF Next
<1> QED BY <1>1, <1>2, Invariance, PTL DEF Spec

(* Whatever the user clicks, however long the file, however it is cut into
   chunks and however often the parser overflows: messages reach the data
   callback of InputLogfile in the order of the file, none twice, and none
   from before the position that was sought to.                              *)
THEOREM AlwaysInOrder == Spec => []InOrder
BY OrderInvariance, PTL
-----------------------------------------------------------------------------
(* Nothing is lost as long as the user only starts to play. Of the commands*)
(* that were given at least one was executed when the thread plays, so that*)
(* a step to an epoch that is under way, and what interrupts the messages, *)
(* take a second one. What is read finds the parser empty, and so fits.    *)
Count ==
    /\ Len(commandQueue) <= issued
    /\ lastOp # "NOOP" => Len(commandQueue) < issued
    /\ playState = "PLAYING" => lastOp # "NOOP"
    /\ stepEpoch => lastOp = "STEP_EPOCH" \/ issued > 1
    /\ tpc = "interrupted" => abort \/ issued > 1
    /\ tpc = "read" => parser = <<>>

Calm == issued <= 1 /\ ~abort /\ lastOp # "STEP_EPOCH"
All == Delivered \cup OnQueue \cup InWork \cup InParser
Whole == base + 1 .. filePos \subseteq All
CInv == Count /\ (Calm => Whole)

LEMMA Counts ==
    ASSUME IInv
    PROVE  /\ Len(commandQueue) \in Nat /\ issued \in Nat /\ commandQueue \in Seq(Commands)
           /\ commandQueue # <<>> => Len(commandQueue) > 0 /\ Len(Tail(commandQueue)) = Len(commandQueue) - 1
<1>1. commandQueue \in Seq(Commands) /\ issued \in Nat
  BY DEF IInv, QueueTypes, MainTypes
<1> QED BY <1>1, ConstantFacts

(* A step that gives and takes no command, and begins nothing              *)
LEMMA SameCount ==
    ASSUME Count, UNCHANGED <<commandQueue, issued, lastOp>>,
           abort => abort',
           playState' = "PLAYING" => playState = "PLAYING",
           stepEpoch' => stepEpoch,
           tpc' = "interrupted" => tpc = "interrupted" \/ abort \/ issued > 1,
           tpc' = "read" => parser' = <<>>
    PROVE  Count' /\ (Calm' => Calm)
BY DEF Count, Calm

LEMMA NewFile ==
    ASSUME IInv, OInv, OInv', commandQueue' = <<>>, playState' # "PLAYING", NEW next, OpenFile(next)
    PROVE  CInv'
<1>1. Count'
  BY DEF Count, OpenFile
<1>2. Whole'
  BY DEF Whole, OpenFile
<1> QED BY <1>1, <1>2 DEF CInv

LEMMA MainComplete ==
    ASSUME IInv, OInv, OInv', CInv, Main, ~OpenShared, mpc # "restart"
    PROVE  CInv'
<1> USE DEF main, thread, file, handle
<1> DEFINE Quiet == /\ UNCHANGED <<commandQueue, issued, lastOp, playState, stepEpoch, tpc, parser, run, base, filePos>>
                    /\ abort => abort'
<1>1. ASSUME Quiet PROVE Count' /\ (Calm' => Calm) /\ base' = base /\ filePos' = filePos
  <2>1. tpc = "read" => parser = <<>>
    BY DEF CInv, Count
  <2> QED BY <1>1, <2>1, SameCount DEF CInv
<1>2. ASSUME Quiet, UNCHANGED <<got, cur, eventQueue>> PROVE CInv'
  <2>1. All' = All
    BY <1>2 DEF All, Delivered, OnQueue, Mine, InWork, InParser
  <2> QED BY <1>1, <1>2, <2>1 DEF CInv, Whole
<1>3. CASE LoopEvent
  <2> DEFINE e == Head(eventQueue)
             n == Len(eventQueue)
  <2>1. /\ n \in Nat /\ n > 0 /\ Len(eventQueue') = n - 1 /\ e = eventQueue[1]
        /\ \A i \in 1..n - 1 : eventQueue'[i] = eventQueue[i + 1]
        /\ run' = run
    BY <1>3, Places, HeadTailProperties DEF LoopEvent
  <2>2. ASSUME NEW m \in OnQueue PROVE m \in OnQueue' \/ m \in Delivered'
    <3>1. PICK i \in Mine : m = eventQueue[i].msg
      BY <2>2 DEF OnQueue
    <3>2. CASE i = 1
      <4>1. got' = Append(got, m) /\ got \in Seq(1..NumMsgs)
        BY <1>3, <2>1, <3>1, <3>2, Places DEF LoopEvent, Mine
      <4>2. got' \in Seq(1..NumMsgs)
        BY <1>3, LoopEventInv DEF IInv, ThreadTypes
      <4>3. m = got'[Len(got')] /\ Len(got') \in 1..Len(got')
        BY <4>1, <4>2
      <4> QED BY <4>2, <4>3, RangeMsgs DEF Delivered
    <3>3. CASE i # 1
      <4>1. i \in 1..n
        BY <3>1 DEF Mine
      <4>2. PICK k : k = i - 1
        OBVIOUS
      <4>3. k \in 1..n - 1 /\ k + 1 = i
        BY <2>1, <3>3, <4>1, <4>2
      <4>4. eventQueue'[k] = eventQueue[i]
        BY <2>1, <4>3
      <4>5. k \in Mine'
        BY <2>1, <3>1, <4>3, <4>4 DEF Mine
      <4> QED BY <3>1, <4>4, <4>5 DEF OnQueue
    <3> QED BY <3>2, <3>3
  <2>3. Delivered \subseteq Delivered'
    <3>1. got \in Seq(1..NumMsgs) /\ got' \in Seq(1..NumMsgs)
      BY <1>3, Places, LoopEventInv DEF IInv, ThreadTypes
    <3>2. got' = got \/ got' = Append(got, e.msg)
      BY <1>3 DEF LoopEvent
    <3>3. \A i \in 1..Len(got) : i \in 1..Len(got') /\ got'[i] = got[i]
      BY <3>1, <3>2
    <3>4. Delivered = {got[i] : i \in 1..Len(got)} /\ Delivered' = {got'[i] : i \in 1..Len(got')}
      BY <3>1, RangeMsgs DEF Delivered
    <3> QED BY <3>3, <3>4
  <2>4. InWork' = InWork /\ InParser' = InParser
    BY <1>3 DEF LoopEvent, InWork, InParser
  <2>5. All \subseteq All'
    BY <2>2, <2>3, <2>4 DEF All
  <2>6. Quiet
    BY <1>3 DEF LoopEvent
  <2> QED BY <1>1, <2>5, <2>6 DEF CInv, Whole
<1>4. CASE LoopDone \/ NoClick \/ Close \/ \E op \in Ops : Click(op)
  BY <1>2, <1>4 DEF LoopDone, NoClick, Close, Click
<1>5. CASE PushCommand
  <2>1. issued' = issued + 1 /\ commandQueue' = Append(commandQueue, pending) /\ Len(commandQueue') = Len(commandQueue) + 1
    BY <1>5, Counts DEF PushCommand
  <2>2. Count'
    BY <1>5, <2>1, Counts DEF PushCommand, CInv, Count
  <2>3. Calm' => Calm
    BY <1>5, <2>1, Counts DEF PushCommand, Calm
  <2>4. All' = All /\ base' = base /\ filePos' = filePos
    BY <1>5 DEF PushCommand, All, Delivered, OnQueue, Mine, InWork, InParser
  <2> QED BY <2>2, <2>3, <2>4 DEF CInv, Whole
<1>6. CASE Open
  <2>1. commandQueue = <<>> /\ playState = "CLOSED"
    BY <1>6 DEF Open, IInv, Control
  <2> QED BY <1>6, <2>1, NewFile DEF Open
<1>7. CASE Joined
  <2>1. CASE pending = Reopen
    BY <1>7, <2>1, NewFile DEF Joined
  <2>2. CASE pending # Reopen
    <3>1. /\ commandQueue' = <<>> /\ playState' = "CLOSED" /\ tpc' = "none"
          /\ UNCHANGED <<issued, lastOp, stepEpoch, parser, run, base, filePos, abort, got, cur, eventQueue>>
      BY <1>7, <2>2 DEF Joined
    <3>2. Len(commandQueue') = 0 /\ issued \in Nat /\ Len(commandQueue) \in Nat
      BY <3>1, Counts
    <3>3. Count' /\ (Calm' => Calm)
      BY <3>1, <3>2 DEF CInv, Count, Calm
    <3>4. All' = All
      BY <3>1 DEF All, Delivered, OnQueue, Mine, InWork, InParser
    <3> QED BY <3>1, <3>3, <3>4 DEF CInv, Whole
  <2> QED BY <2>1, <2>2
<1> QED BY <1>3, <1>4, <1>5, <1>6, <1>7 DEF Main, Restarted
-----------------------------------------------------------------------------
(* A step of the thread that sends notices, or nothing                     *)
LEMMA NoticeComplete ==
    ASSUME IInv, OInv, CInv, Count', Calm' => Calm, UNCHANGED <<run, base, filePos, got, cur, parser>>,
           eventQueue' = eventQueue \/ \E msgs \in Seq({0}) : SendEvents(msgs)
    PROVE  CInv'
<1>1. OnQueue' = OnQueue
  <2>1. CASE eventQueue' = eventQueue
    BY <2>1 DEF OnQueue, Mine
  <2>2. CASE \E msgs \in Seq({0}) : SendEvents(msgs)
    BY <2>2, Notices
  <2> QED BY <2>1, <2>2
<1>2. All' = All
  BY <1>1 DEF All, Delivered, InWork, InParser
<1> QED BY <1>2 DEF CInv, Whole

LEMMA PopCommandComplete == ASSUME IInv, OInv, CInv, PopCommand PROVE CInv'
<1> DEFINE c == Head(commandQueue)
<1>1. /\ commandQueue # <<>> /\ commandQueue' = Tail(commandQueue) /\ issued' = issued
      /\ tpc' \in {"go", "reopen", "reopenNone"}
      /\ abort' = abort /\ eventQueue' = eventQueue /\ cur' = cur
      /\ lastOp' = IF c.op = "SEEK" THEN lastOp ELSE c.op
      /\ playState' = "PLAYING" => c.op # "SEEK" \/ playState = "PLAYING"
      /\ stepEpoch' <=> stepEpoch \/ c.op = "STEP_EPOCH"
  BY DEF PopCommand, main, IInv, Control
<1>11. UNCHANGED <<filePos, run, base, got, parser>> \/ filePos' = base'
  BY DEF PopCommand, Position
<1>2. c.op \in Ops
  <2>1. c = commandQueue[1] /\ 1 \in 1..Len(commandQueue)
    BY <1>1, Counts, HeadTailProperties
  <2> QED BY <2>1 DEF IInv, Control, FromClick
<1> HIDE DEF c
<1>3. Len(commandQueue) > 0 /\ Len(commandQueue') = Len(commandQueue) - 1 /\ Len(commandQueue) \in Nat
      /\ issued \in Nat
  BY <1>1, Counts
<1>4. Len(commandQueue') < issued' /\ (lastOp # "NOOP" => issued' > 1)
  BY <1>1, <1>3 DEF CInv, Count
<1>5. stepEpoch' => lastOp' = "STEP_EPOCH" \/ issued' > 1
  BY <1>1, <1>4 DEF CInv, Count
<1>6. playState' = "PLAYING" => lastOp' # "NOOP"
  BY <1>1, <1>2 DEF CInv, Count, Ops
<1>7. Count'
  BY <1>1, <1>3, <1>4, <1>5, <1>6 DEF Count
<1>8. Calm' => Calm
  BY <1>1, <1>3, <1>4 DEF Calm
<1>9. CASE UNCHANGED <<filePos, run, base, got, parser>>
  BY <1>1, <1>7, <1>8, <1>9, NoticeComplete
<1>10. CASE filePos' = base'
  <2>1. PICK b : b = base'
    OBVIOUS
  <2>2. b \in Nat
    BY <2>1, PopCommandInv, ConstantFacts DEF IInv, ThreadTypes
  <2>3. b + 1 .. b = {}
    BY <2>2
  <2>4. Whole'
    BY <1>10, <2>1, <2>3 DEF Whole
  <2> QED BY <1>7, <2>4 DEF CInv
<1> QED BY <1>9, <1>10, <1>11

LEMMA OpenAgainComplete == ASSUME IInv, OInv, CInv, OpenAgain PROVE CInv'
<1>1. /\ UNCHANGED <<commandQueue, issued, lastOp, abort, stepEpoch>>
      /\ playState' = "STOPPED" /\ tpc' = "go" /\ filePos' = base'
  BY DEF OpenAgain, Position, main
<1>2. Count'
  BY <1>1, SameCount DEF CInv
<1>3. Whole'
  <2>1. PICK b : b = base'
    OBVIOUS
  <2>2. b \in Nat
    BY <2>1, OpenAgainInv, ConstantFacts DEF IInv, ThreadTypes
  <2>3. b + 1 .. b = {}
    BY <2>2
  <2> QED BY <1>1, <2>1, <2>3 DEF Whole
<1> QED BY <1>2, <1>3 DEF CInv

(* The first message of the parser is taken in work                        *)
LEMMA ProcessMsgComplete == ASSUME IInv, OInv, CInv, ProcessMsg PROVE CInv'
<1> DEFINE msgs == (IF Head(parser) \in EpochEnds THEN << 0 >> ELSE <<>>)
                     \o (IF Head(parser) \in Warnings THEN << 0 >> ELSE <<>>)
<1>1. /\ SendEvents(msgs) /\ parser # <<>> /\ parser' = Tail(parser) /\ cur' = Head(parser)
      /\ tpc = "process" /\ tpc' = "wait"
      /\ UNCHANGED <<run, base, filePos, got, commandQueue, issued, lastOp, abort, playState, stepEpoch>>
  BY DEF ProcessMsg, main, file, handle
<1>2. msgs \in Seq({0})
  <2>1. << 0 >> \in Seq({0}) /\ <<>> \in Seq({0})
    OBVIOUS
  <2> QED BY <2>1, ConcatProperties
<1> HIDE DEF msgs
<1>3. OnQueue' = OnQueue
  BY <1>1, <1>2, Notices
<1>4. Count' /\ (Calm' => Calm)
  BY <1>1, SameCount DEF CInv
<1>5. InParser = {Head(parser)} \cup InParser' /\ InWork = {} /\ InWork' = {Head(parser)}
  <2>1. Head(parser) \in InParser /\ InParser = {Head(parser)} \cup InParser'
    BY <1>1, ParserLess
  <2>2. Head(parser) # 0
    BY <2>1, Places, ConstantFacts
  <2> QED BY <1>1, <2>1, <2>2 DEF OInv, InHand, InWork
<1>6. Delivered' = Delivered
  BY <1>1 DEF Delivered
<1>7. All' = All
  BY <1>3, <1>5, <1>6 DEF All
<1> QED BY <1>1, <1>4, <1>7 DEF CInv, Whole

(* It is sent                                                              *)
LEMMA SendMsgComplete == ASSUME IInv, OInv, CInv, SendMsg PROVE CInv'
<1>1. /\ SendEvents(<<cur>>) /\ cur' = 0
      /\ UNCHANGED <<run, base, filePos, got, parser, commandQueue, issued, lastOp, abort, stepEpoch>>
      /\ playState' = "PLAYING" => playState = "PLAYING"
      /\ tpc' \in {"poll", "process"}
  BY DEF SendMsg, main, file, handle
<1>2. Count' /\ (Calm' => Calm)
  BY <1>1, SameCount DEF CInv
<1>3. /\ Len(eventQueue) \in Nat /\ Len(eventQueue') = Len(eventQueue) + 1
      /\ eventQueue'[Len(eventQueue) + 1] = [run |-> run, msg |-> cur]
      /\ \A i \in 1..Len(eventQueue) : eventQueue'[i] = eventQueue[i]
      /\ cur \in 0..NumMsgs
  <2>1. [i \in 1..Len(<<cur>>) |-> [run |-> run, msg |-> (<<cur>>)[i]]] = <<[run |-> run, msg |-> cur]>>
    OBVIOUS
  <2>2. eventQueue' = eventQueue \o <<[run |-> run, msg |-> cur]>>
    BY <1>1, <2>1 DEF SendEvents
  <2>3. eventQueue \in Seq(Events) /\ cur \in 0..NumMsgs /\ run \in Nat
    BY Places DEF IInv, ThreadTypes
  <2>4. [run |-> run, msg |-> cur] \in Events
    BY <2>3 DEF Events
  <2> QED BY <2>2, <2>3, <2>4
<1>4. OnQueue \subseteq OnQueue'
  <2>1. \A i \in Mine : i \in Mine' /\ eventQueue'[i] = eventQueue[i]
    BY <1>1, <1>3 DEF Mine
  <2> QED BY <2>1 DEF OnQueue
<1>5. InWork \subseteq OnQueue'
  <2> SUFFICES ASSUME cur # 0 PROVE cur \in OnQueue'
    BY DEF InWork
  <2> DEFINE k == Len(eventQueue) + 1
  <2>1. k \in 1..Len(eventQueue') /\ eventQueue'[k].run = run' /\ eventQueue'[k].msg = cur /\ cur > 0
    BY <1>1, <1>3, ConstantFacts
  <2> HIDE DEF k
  <2>2. k \in Mine'
    BY <2>1 DEF Mine
  <2> QED BY <2>1, <2>2 DEF OnQueue
<1>6. Delivered' = Delivered /\ InParser' = InParser
  BY <1>1 DEF Delivered, InParser
<1>7. All \subseteq All'
  BY <1>4, <1>5, <1>6 DEF All
<1> QED BY <1>1, <1>2, <1>7 DEF CInv, Whole

(* More is read: all of it fits the empty parser                           *)
LEMMA ReadComplete == ASSUME IInv, OInv, CInv, Read PROVE CInv'
<1> HIDE DEF Chunk
<1>1. /\ tpc \in {"read", "interrupted"} /\ tpc' = "poll"
      /\ playState' = "PLAYING" => playState = "PLAYING"
      /\ filePos' = filePos + Len(Chunk)
      /\ parser' = IF Len(parser \o Chunk) <= ParserCap THEN parser \o Chunk ELSE parser
      /\ UNCHANGED <<run, base, got, cur, eventQueue, commandQueue, issued, lastOp, abort, stepEpoch>>
  BY DEF Read, main, IInv, Control, Playing
<1>2. Count' /\ (Calm' => Calm)
  BY <1>1, SameCount DEF CInv
<1>3. ASSUME Calm PROVE Whole'
  <2>1. parser = <<>>
    BY <1>1, <1>3, Counts DEF CInv, Count, Calm
  <2>2. /\ Chunk \in Seq(1..NumMsgs) /\ Len(Chunk) \in Nat /\ Len(Chunk) <= ParserCap
        /\ \A i \in 1..Len(Chunk) : Chunk[i] = filePos + i
    BY ChunkIs
  <2>3. parser' = Chunk
    BY <1>1, <2>1, <2>2
  <2>4. InParser' = {Chunk[i] : i \in 1..Len(Chunk)}
    BY <2>2, <2>3, RangeMsgs DEF InParser
  <2>5. InParser = {}
    BY <2>1 DEF InParser, Range
  <2>6. All \subseteq All'
    BY <1>1, <2>5 DEF All, Delivered, OnQueue, Mine, InWork
  <2>7. filePos \in Nat /\ base \in Nat
    BY Places
  <2>8. ASSUME NEW m \in base + 1..filePos + Len(Chunk), ~(m <= filePos) PROVE m \in InParser'
    <3>1. PICK i : i = m - filePos
      OBVIOUS
    <3>2. i \in 1..Len(Chunk) /\ filePos + i = m
      BY <2>2, <2>7, <2>8, <3>1
    <3> QED BY <2>2, <2>4, <3>2
  <2>9. ASSUME NEW m \in base + 1..filePos + Len(Chunk), m <= filePos PROVE m \in All'
    <3>1. m \in base + 1..filePos
      BY <2>2, <2>7, <2>9
    <3> QED BY <1>3, <2>6, <3>1 DEF CInv, Whole
  <2>10. InParser' \subseteq All'
    BY DEF All
  <2> QED BY <1>1, <2>8, <2>9, <2>10 DEF Whole
<1> QED BY <1>2, <1>3 DEF CInv

LEMMA PlayerComplete == ASSUME IInv, OInv, CInv, Player PROVE CInv'
<1> USE DEF main, file, handle
<1>1. << 0 >> \in Seq({0})
  OBVIOUS
<1>2. CASE ThreadPrepare \/ ThreadCleanup \/ Poll \/ Go \/ ProcessNothing \/ WaitRoom
  <2>1. /\ UNCHANGED <<run, base, filePos, got, cur, parser, commandQueue, issued, lastOp, abort, stepEpoch>>
        /\ playState' = "PLAYING" => playState = "PLAYING"
        /\ tpc' = "interrupted" => tpc = "interrupted"
        /\ tpc' = "read" => parser' = <<>>
        /\ eventQueue' = eventQueue \/ SendEvents(<< 0 >>)
    BY <1>2 DEF ThreadPrepare, ThreadCleanup, Poll, Go, ProcessNothing, WaitRoom
  <2>2. Count' /\ (Calm' => Calm)
    BY <2>1, SameCount DEF CInv
  <2> QED BY <1>1, <2>1, <2>2, NoticeComplete
<1>3. CASE ProcessInterrupted
  <2>1. /\ UNCHANGED <<commandQueue, issued, lastOp, abort, stepEpoch, playState>>
        /\ tpc = "process" /\ tpc' = "interrupted" /\ (abort \/ commandQueue # <<>>)
    BY <1>3 DEF ProcessInterrupted
  <2>2. abort \/ issued > 1
    BY <2>1, Counts DEF IInv, Control, Playing, CInv, Count
  <2>3. Count'
    BY <2>1, <2>2, SameCount DEF CInv
  <2>4. ~Calm'
    BY <2>1, <2>2, Counts DEF Calm
  <2> QED BY <2>3, <2>4 DEF CInv
<1>4. CASE ProcessStepped
  <2>1. /\ UNCHANGED <<commandQueue, issued, lastOp, abort>> /\ stepEpoch /\ ~stepEpoch'
        /\ playState' = "PAUSED" /\ tpc' = "poll"
    BY <1>4 DEF ProcessStepped
  <2>2. Count'
    BY <2>1, SameCount DEF CInv
  <2>3. ~Calm'
    BY <2>1, Counts DEF CInv, Count, Calm
  <2> QED BY <2>2, <2>3 DEF CInv
<1> QED BY <1>2, <1>3, <1>4, PopCommandComplete, OpenAgainComplete, ProcessMsgComplete, SendMsgComplete, ReadComplete DEF Player

(* No message of the file is lost between the file and the data callback,
   however it is cut into chunks and however full the event queue gets, when
   the user only starts to play or steps to a message: all that was read of
   the file is delivered, on the queue, in work or in the parser.            *)
THEOREM NothingLost == Spec => []UndisturbedPlayComplete
<1>1. Init => CInv
  BY DEF Init, CInv, Count, Whole
<1>2. /\ IInv /\ Begun /\ InOrder /\ (IInv /\ Begun /\ InOrder)' /\ (~shared => CInv) /\ [Next]_vars
      => (~shared => CInv)'
  <2> SUFFICES ASSUME IInv, Begun, InOrder, (IInv /\ Begun /\ InOrder)', ~shared => CInv, [Next]_vars,
                      ~shared'
               PROVE  CInv'
    OBVIOUS
  <2>1. shared' = shared /\ ~OpenShared
    BY DEF Next, Main, Player, vars, main, thread, file, handle, LoopEvent, LoopDone, Click,
       PushCommand, NoClick, Open, OpenFile, OpenShared, Restarted, Close, Joined, ThreadPrepare,
       ThreadCleanup, Poll, PopCommand, OpenAgain, Go, ProcessNothing, ProcessInterrupted,
       ProcessStepped, ProcessMsg, WaitRoom, SendMsg, Read
  <2>2. CInv /\ mpc # "restart" /\ mpc' # "restart"
    BY <2>1 DEF IInv, Control
  <2>3. OInv /\ OInv'
    BY <2>2 DEF OInv, Begun, InOrder
  <2>4. CASE UNCHANGED vars
    <3>1. /\ UNCHANGED <<commandQueue, issued, lastOp, abort, stepEpoch, playState, tpc, parser>>
          /\ UNCHANGED <<run, base, filePos, got, cur, parser, eventQueue>>
      BY <2>4 DEF vars, main, thread, file
    <3>2. Count' /\ (Calm' => Calm)
      BY <2>2, <3>1, SameCount DEF CInv, Count
    <3> QED BY <2>2, <2>3, <3>1, <3>2, NoticeComplete
  <2> QED BY <2>1, <2>2, <2>3, <2>4, MainComplete, PlayerComplete DEF Next
<1>3. IInv /\ Begun /\ InOrder /\ (~shared => CInv) => UndisturbedPlayComplete
  <2> SUFFICES ASSUME IInv, Begun, InOrder, ~shared, CInv, Calm PROVE All = base + 1 .. filePos
    BY DEF UndisturbedPlayComplete, Calm, All
  <2>1. OInv
    BY DEF IInv, Control, OInv, Begun, InOrder
  <2>2. \A m \in All : m \in Nat /\ base < m /\ m <= filePos
    BY <2>1, Places DEF All, OInv, Ordered
  <2>3. base \in Nat /\ filePos \in Nat
    BY Places
  <2>4. \A m \in All : m \in base + 1 .. filePos
    BY <2>2, <2>3
  <2> QED BY <2>4 DEF CInv, Whole
<1> QED BY <1>1, <1>2, <1>3, Invariance, OrderInvariance, PTL DEF Spec
=============================================================================
