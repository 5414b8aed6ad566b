---------------------------- MODULE ConfigWindow ----------------------------
(***************************************************************************)
(* gui_win_data_config.cpp: the configuration windows of one receiver      *)
(* (GuiWinDataConfig), seen by one item of the configuration. A frame runs *)
(* the loops of the windows, hands them what came from the receiver, and   *)
(* draws them, which is when the user may click.                           *)
(***************************************************************************)
EXTENDS Naturals, Sequences

CONSTANTS
    NumWindows,
    PollLayers,     \* _dbPollLayers, a sequence
    StoreLayers,    \* the choices of _dbSetRam, _dbSetBbr and _dbSetFlash, maybe none
    Values, NoValue,    \* of the item; NoValue is none, or not valid
    Configs,        \* what a receiver may have at first
    MaxClicks       \* bound

Windows == 1 .. NumWindows
Layers == {PollLayers[i] : i \in 1 .. Len(PollLayers)}

ASSUME ConfigWindowAssumption ==
    /\ NumWindows \in Nat \ {0} /\ MaxClicks \in Nat
    /\ PollLayers \in Seq(STRING) /\ {"DEFAULT", "RAM"} \subseteq Layers
    /\ \A i, j \in 1 .. Len(PollLayers) : PollLayers[i] = PollLayers[j] => i = j
    /\ StoreLayers \subseteq SUBSET (Layers \ {"DEFAULT"})
    /\ 0 \in Values /\ NoValue \notin Values
    /\ Configs \subseteq [Layers -> Values \cup {NoValue}]

VARIABLES
    link, commands, executing, answers, getCb, setCb, silent,   \* of ReceiverService
    payload,        \* the value in the answer to GetConfig()
    config,         \* external: the item in each layer of the receiver
    thread,         \* the receiver thread: none, connecting, up, dying
    step, turn,     \* where the main thread is, and which part of the loops is next
    clicks,
    win,            \* the windows
    seen            \* history: the values of each layer since the window began to load

service == <<link, commands, executing, answers, getCb, setCb, silent>>
vars == <<service, payload, config, thread, step, turn, clicks, win, seen>>

(* A request carries what it asks for; the window for messages, number 0,  *)
(* sets other items                                                        *)
GetRequest == [win : Windows, layer : Layers]
SetRequest == [win : 0 .. NumWindows, layers : StoreLayers \cup {{}}, value : Values,
               apply : BOOLEAN]
MessageRates == [win |-> 0, layers |-> {}, value |-> 0, apply |-> FALSE]
NoRequest == [win |-> 0]
R == INSTANCE ReceiverService WITH Requests <- GetRequest \cup SetRequest

Empty == [l \in Layers |-> NoValue]

Closed ==
    [poll |-> "IDLE", layerIx |-> 1,        \* _dbPollState, _dbPollLayerIx
     avail |-> FALSE,                       \* _dbPollDataAvail
     set |-> "IDLE",                        \* _dbSetState
     ref |-> "DEFAULT",                     \* _chValueRef
     values |-> Empty,                      \* the values of the item
     chValue |-> 0, chReference |-> 0,
     changes |-> NoValue,                   \* what _cfgChangedKv says of it
     clean |-> TRUE, shown |-> NoValue]     \* history: see PollInit and Apply

Init ==
    /\ R!Init
    /\ payload = NoValue
    /\ config \in Configs
    /\ thread = "none"
    /\ step = "loop" /\ turn = 1 /\ clicks = 0
    /\ win = [w \in Windows |-> Closed]
    /\ seen = [w \in Windows |-> [l \in Layers |-> {}]]
-----------------------------------------------------------------------------
(* The functions of a window                                               *)

OrZero(value) == IF value = NoValue THEN 0 ELSE value
Reference(r) == OrZero(r.values[IF r.ref = "CURRENT" THEN "RAM" ELSE "DEFAULT"])

(* _UpdateChanges(), which also ends _DbSync(): the items that are dirty   *)
UpdateChanges(r) ==
    [r EXCEPT !.changes = IF r.chValue # r.chReference THEN r.chValue ELSE NoValue]

DbClear(r) == UpdateChanges([r EXCEPT !.values = Empty, !.avail = FALSE])

(* ChSet(IX_RAM, ...)                                                       *)
ChSet(r) == [r EXCEPT !.chValue = OrZero(r.values["RAM"]), !.chReference = Reference(r)]

(* Fault: the last layer is not polled                                     *)
DbSetFault(r, layer, value) ==
    UpdateChanges([r EXCEPT
        !.values[layer] = IF value = NoValue THEN @ ELSE value,
        !.layerIx = @ + 1,
        !.poll = IF r.layerIx + 1 < Len(PollLayers) THEN "POLL" ELSE "DONE"])

(* _DbSet(): store the values that came, and poll the next layer           *)
DbSet(r, layer, value) ==
    UpdateChanges([r EXCEPT
        !.values[layer] = IF value = NoValue THEN @ ELSE value,
        !.layerIx = @ + 1,
        !.poll = IF r.layerIx < Len(PollLayers) THEN "POLL" ELSE "DONE"])

Change(w, r) == win' = [win EXCEPT ![w] = r]
-----------------------------------------------------------------------------
(* _Loop(): first the polling, and then the setting                        *)

(* The parts of the loops in their order; those that do nothing, as the    *)
(* window is idle or waits, are passed over.                               *)
Polls(w) == 2 * w - 1
Sets(w) == 2 * w
Due(part) ==
    \E w \in Windows :
        \/ part = Polls(w) /\ win[w].poll \notin {"IDLE", "WAIT"}
        \/ part = Sets(w) /\ win[w].set \notin {"IDLE", "WAIT"}

At(part) ==
    /\ step = "loop" /\ turn <= part /\ Due(part)
    /\ \A earlier \in turn .. part - 1 : ~Due(earlier)
    /\ turn' = part + 1
    /\ UNCHANGED <<step, payload, config, thread, clicks>>

AtPoll(w) == At(Polls(w))
AtSet(w) == At(Sets(w)) /\ UNCHANGED seen

Waiting(w) == getCb # NoRequest /\ getCb.win = w

(* The load is clean if no answer to an earlier one is outstanding         *)
PollInit(w) ==
    /\ AtPoll(w) /\ win[w].poll = "INIT"
    /\ Change(w, DbClear([win[w] EXCEPT !.poll = "POLL", !.layerIx = 1, !.clean = ~Waiting(w)]))
    /\ seen' = [seen EXCEPT ![w] = [l \in Layers |-> {config[l]}]]
    /\ UNCHANGED service

(* GetConfig() does nothing while a callback is pending                    *)
PollLayer(w) ==
    /\ AtPoll(w) /\ win[w].poll = "POLL"
    /\ Change(w, [win[w] EXCEPT !.poll = "WAIT"])
    /\ \/ R!GetConfig([win |-> w, layer |-> PollLayers[win[w].layerIx]])
       \/ getCb # NoRequest /\ UNCHANGED service
    /\ UNCHANGED seen

(* Fault: no _DbSync()                                                     *)
PollDoneFault(w) ==
    /\ AtPoll(w) /\ win[w].poll = "DONE"
    /\ Change(w, ChSet([win[w] EXCEPT !.poll = "IDLE", !.avail = TRUE]))
    /\ UNCHANGED <<service, seen>>

PollDone(w) ==
    /\ AtPoll(w) /\ win[w].poll = "DONE"
    /\ Change(w, UpdateChanges(ChSet([win[w] EXCEPT !.poll = "IDLE", !.avail = TRUE])))
    /\ UNCHANGED <<service, seen>>

PollFail(w) ==
    /\ AtPoll(w) /\ win[w].poll = "FAIL"
    /\ Change(w, DbClear([win[w] EXCEPT !.poll = "IDLE", !.clean = FALSE]))
    /\ UNCHANGED <<service, seen>>

(* Neither does SetConfig(); the window waits for the answer all the same, *)
(* even if there is no layer to set, and never will be an answer           *)
SetOp(S) == IF S = {} THEN "SETNONE" ELSE "SETCONFIG"
SetStart(w) ==
    /\ AtSet(w) /\ win[w].set = "START"
    /\ link = "READY" /\ win[w].changes # NoValue
    /\ Change(w, [win[w] EXCEPT !.set = "WAIT", !.shown = NoValue])
    /\ \/ \E S \in StoreLayers, apply \in BOOLEAN :
            R!SetConfig(SetOp(S),
                        [win |-> w, layers |-> S, value |-> win[w].changes, apply |-> apply])
       \/ setCb # NoRequest /\ UNCHANGED service

SetNotPossible(w) ==
    /\ AtSet(w) /\ win[w].set = "START"
    /\ link # "READY" \/ win[w].changes = NoValue
    /\ Change(w, [win[w] EXCEPT !.set = "IDLE", !.shown = NoValue])
    /\ UNCHANGED service

SetDone(w) ==
    /\ AtSet(w) /\ win[w].set = "DONE"
    /\ Change(w, [win[w] EXCEPT !.set = "IDLE"])
    /\ UNCHANGED service

LoopDone ==
    /\ step = "loop" /\ \A part \in turn .. Sets(NumWindows) : ~Due(part)
    /\ turn' = 1 /\ step' = "pump"
    /\ UNCHANGED <<service, payload, config, thread, clicks, win, seen>>
-----------------------------------------------------------------------------
(* InputReceiver::Loop(): the answers, and the data, which tells the time  *)

AtPump == step = "pump" /\ UNCHANGED <<step, turn, config, thread, clicks, seen>>

DeliverGet ==
    /\ AtPump /\ answers # <<>> /\ Head(answers).op = "GETCONFIG"
    /\ R!Deliver
    /\ Change(getCb.win, DbSet(win[getCb.win], getCb.layer, payload))
    /\ payload' = NoValue

(* _ApplyCfgAck(), if there is a callback                                  *)
DeliverSet ==
    /\ AtPump /\ answers # <<>> /\ Head(answers).op = "SETCONFIG"
    /\ R!Deliver
    /\ IF setCb = NoRequest THEN UNCHANGED win
       ELSE Change(setCb.win, [win[setCb.win] EXCEPT !.set = "DONE"])
    /\ UNCHANGED payload

(* _ProcessData(): ten seconds have passed; a slow receiver is too late    *)
Timeout(w) ==
    /\ AtPump /\ win[w].poll = "WAIT"
    /\ Change(w, [win[w] EXCEPT !.poll = "FAIL"])
    /\ UNCHANGED <<service, payload>>

PumpDone ==
    /\ step = "pump" /\ answers = <<>>
    /\ step' = "draw"
    /\ UNCHANGED <<service, payload, config, thread, turn, clicks, win, seen>>
-----------------------------------------------------------------------------
(* _DrawContent(): one click in a frame, or none                           *)

Drawn == step' = "loop" /\ UNCHANGED <<payload, config, thread, turn>>
Click == step = "draw" /\ clicks < MaxClicks /\ clicks' = clicks + 1
ClickWindow == Click /\ Drawn /\ UNCHANGED service

NoClick == step = "draw" /\ Drawn /\ UNCHANGED <<service, clicks, win, seen>>

Load(w) ==
    /\ ClickWindow /\ link = "READY"
    /\ Change(w, [win[w] EXCEPT !.poll = "INIT"])
    /\ UNCHANGED seen

Clear(w) ==
    /\ ClickWindow /\ link = "READY" /\ win[w].avail
    /\ Change(w, DbClear(win[w]))
    /\ UNCHANGED seen

(* The reference layer                                                     *)
Refer(w) ==
    /\ ClickWindow
    /\ LET r == [win[w] EXCEPT !.ref = IF @ = "DEFAULT" THEN "CURRENT" ELSE "DEFAULT"]
       IN  Change(w, UpdateChanges([r EXCEPT !.chReference = Reference(r)]))
    /\ UNCHANGED seen

(* The changes shown are what the user wants. When a load ended in this    *)
(* very frame, they are computed anew before they are set.                 *)
Apply(w) ==
    /\ ClickWindow /\ link = "READY" /\ win[w].changes # NoValue /\ win[w].set = "IDLE"
    /\ Change(w, [win[w] EXCEPT !.set = "START",
                    !.shown = IF win[w].poll \in {"DONE", "FAIL"} THEN NoValue ELSE win[w].changes])
    /\ UNCHANGED seen

Discard(w) ==
    /\ ClickWindow /\ win[w].changes # NoValue /\ win[w].set = "IDLE"
    /\ Change(w, UpdateChanges([win[w] EXCEPT !.chValue = win[w].chReference]))
    /\ UNCHANGED seen

Edit(w) ==
    /\ ClickWindow
    /\ \E value \in Values \ {win[w].chValue} :
            Change(w, UpdateChanges([win[w] EXCEPT !.chValue = value]))
    /\ UNCHANGED seen

(* _ClearData(): the changes are not updated                               *)
Cleared(r) == [ChSet(DbClear(r)) EXCEPT !.clean = @ /\ r.poll = "IDLE"]

ClearAll(w) ==
    /\ ClickWindow /\ link = "READY"
    /\ Change(w, Cleared(win[w]))
    /\ UNCHANGED seen

(* The input window clears them all                                        *)
ClearWindows ==
    /\ ClickWindow
    /\ win' = [w \in Windows |-> Cleared(win[w])]
    /\ UNCHANGED seen

(* The tab with the items updates the changes in every frame it is shown   *)
ShowItems(w) ==
    /\ step = "draw" /\ win[w] # UpdateChanges(win[w])
    /\ Change(w, UpdateChanges(win[w]))
    /\ Drawn /\ UNCHANGED <<service, clicks, seen>>

(* The window for messages sets the rate of a message                      *)
MessageRate ==
    /\ Click /\ Drawn /\ link = "READY"
    /\ R!SetConfigSilently(MessageRates)
    /\ UNCHANGED <<win, seen>>

(* Not counted: a connection only follows one that failed or was stopped   *)
Connect ==
    /\ step = "draw" /\ R!Start
    /\ thread' = "connecting" /\ step' = "loop" /\ payload' = NoValue
    /\ UNCHANGED <<config, turn, clicks, win, seen>>

(* Stop() waits for the thread, which first ends what it executes          *)
Disconnect ==
    /\ Click /\ thread # "none"
    /\ step' = "join"
    /\ UNCHANGED <<service, payload, config, thread, turn, win, seen>>

Disconnected ==
    /\ step = "join" /\ thread = "none"
    /\ step' = "loop"
    /\ UNCHANGED <<service, payload, config, thread, turn, clicks, win, seen>>

Loop(w) ==
    \/ PollInit(w) \/ PollLayer(w) \/ PollDone(w) \/ PollFail(w)
    \/ SetStart(w) \/ SetNotPossible(w) \/ SetDone(w)

User(w) ==
    \/ Load(w) \/ Clear(w) \/ Refer(w) \/ Apply(w) \/ Discard(w) \/ Edit(w) \/ ClearAll(w)
    \/ ShowItems(w)

Main ==
    \/ \E w \in Windows : Loop(w) \/ User(w)
    \/ LoopDone \/ DeliverGet \/ DeliverSet \/ PumpDone
    \/ NoClick \/ ClearWindows \/ MessageRate \/ Connect \/ Disconnect \/ Disconnected
-----------------------------------------------------------------------------
(* The receiver thread, and the receiver                                   *)

Receiver == UNCHANGED <<step, turn, clicks, win>>

ThreadBusy ==
    /\ R!LinkChange
    /\ \/ thread = "connecting" /\ link = "IDLE" /\ link' = "BUSY" /\ UNCHANGED thread
       \/ thread = "connecting" /\ link = "BUSY" /\ link' = "READY" /\ thread' = "up"
       \/ thread = "up" /\ link # link' /\ link' # "IDLE" /\ UNCHANGED thread
    /\ Receiver /\ UNCHANGED <<payload, config, seen>>

(* It could not connect, or it was told to stop, or something was thrown   *)
ThreadEnds ==
    /\ R!LinkChange /\ link' = "IDLE"
    /\ \/ thread = "connecting" /\ link = "BUSY"
       \/ thread = "dying"
       \/ step = "join" /\ thread # "none"
    /\ thread' = "none"
    /\ Receiver /\ UNCHANGED <<payload, config, seen>>

Execute ==
    /\ thread = "up" /\ R!Execute
    /\ Receiver /\ UNCHANGED <<payload, config, thread, seen>>

(* To set no layer is more than the thread can do                          *)
ThreadThrows ==
    /\ thread = "up" /\ R!Abandon
    /\ thread' = "dying"
    /\ Receiver /\ UNCHANGED <<payload, config, seen>>

(* A poll that failed is answered without any value                        *)
CompleteGet ==
    /\ executing.op = "GETCONFIG" /\ R!Complete
    /\ LET layer == executing.id.layer
           w == executing.id.win
       IN  \/ payload' = config[layer] /\ UNCHANGED seen
           \/ payload' = NoValue /\ seen' = [seen EXCEPT ![w][layer] = @ \cup {NoValue}]
    /\ Receiver /\ UNCHANGED <<config, thread>>

(* What a receiver has after a restart: the items of its other layers      *)
Restarted(c) ==
    LET stored == {l \in Layers \ {"DEFAULT", "RAM"} : c[l] # NoValue}
        first == CHOOSE l \in stored : TRUE
    IN  [c EXCEPT !["RAM"] = IF stored = {} THEN c["DEFAULT"] ELSE c[first]]

(* The values are stored, and maybe activated; either of it may fail       *)
CompleteSet ==
    /\ executing.op = "SETCONFIG" /\ R!Complete
    /\ LET request == executing.id
           stored == [l \in Layers |-> IF l \in request.layers THEN request.value ELSE config[l]]
       IN  config' \in {config, stored} \cup IF request.apply THEN {Restarted(stored)} ELSE {}
    /\ seen' = [w \in Windows |-> [l \in Layers |->
                    IF seen[w][l] = {} THEN {} ELSE seen[w][l] \cup {config'[l]}]]
    /\ Receiver /\ UNCHANGED <<payload, thread>>

Thread == ThreadBusy \/ ThreadEnds \/ Execute \/ ThreadThrows \/ CompleteGet \/ CompleteSet

Next == Main \/ Thread \/ \E w \in Windows : Timeout(w)

Spec == Init /\ [][Next]_vars
-----------------------------------------------------------------------------
PollStates == {"IDLE", "INIT", "POLL", "WAIT", "DONE", "FAIL"}
MaybeValues == Values \cup {NoValue}
WindowType ==
    [poll : PollStates, layerIx : 1 .. Len(PollLayers) + 1, avail : BOOLEAN,
     set : {"IDLE", "START", "WAIT", "DONE"}, ref : {"DEFAULT", "CURRENT"},
     values : [Layers -> MaybeValues], chValue : Values, chReference : Values,
     changes : MaybeValues, clean : BOOLEAN, shown : MaybeValues]
Commands ==
    [op : {"GETCONFIG"}, id : GetRequest] \cup [op : R!SetOps, id : SetRequest]

(* Type invariant; a window never asks for a layer beyond the last.        *)
TypeOK ==
    /\ link \in {"IDLE", "BUSY", "READY"} /\ thread \in {"none", "connecting", "up", "dying"}
    /\ step \in {"loop", "pump", "draw", "join"} /\ turn \in 1 .. 2 * NumWindows + 1
    /\ clicks \in 0 .. MaxClicks /\ silent \in BOOLEAN
    /\ commands \in Seq(Commands) /\ answers \in Seq(Commands)
    /\ executing \in Commands \cup {R!Nothing}
    /\ payload \in MaybeValues /\ config \in [Layers -> MaybeValues]
    /\ getCb \in GetRequest \cup {NoRequest}
    /\ setCb \in {request \in SetRequest : request.win # 0} \cup {NoRequest}
    /\ win \in [Windows -> WindowType]
    /\ seen \in [Windows -> [Layers -> SUBSET MaybeValues]]
    /\ \A w \in Windows :
          win[w].poll = "POLL" \/ Waiting(w) => win[w].layerIx <= Len(PollLayers)

(* When a window says that it has data, every value that it shows was in   *)
(* that layer of the receiver at some time since it began to load; a         *)
(* layer is empty only if it was, or if the poll of it failed. That is, if *)
(* the load was a clean one: no answer to an earlier load was outstanding, *)
(* it did not time out and was not cleared meanwhile.                      *)
LoadedIsReal ==
    \A w \in Windows : win[w].avail /\ win[w].clean =>
        \A l \in Layers : win[w].values[l] \in seen[w][l]

(* With data, the list of changes has what differs from the reference      *)
(* layer. What Apply sends is what was shown when it was clicked, unless a *)
(* load ended just then.                                                   *)
ChangesShown ==
    \A w \in Windows :
        LET r == win[w]
        IN  /\ r.avail => r.changes = IF r.chValue # Reference(r) THEN r.chValue ELSE NoValue
            /\ r.set = "START" /\ r.shown # NoValue => r.changes = r.shown
=============================================================================
