------------------------ MODULE ConfigWindowProofs ------------------------
(***************************************************************************)
(* Theorems about ConfigWindow: for any number of windows, layers, values  *)
(* and clicks a clean load shows what the receiver had, the list of        *)
(* changes is right, and what is applied is what was shown.                *)
(***************************************************************************)
EXTENDS ConfigWindow, SequenceTheorems, TLAPS

IsGet(c) == c.op = "GETCONFIG"
HasGet(q) == \E i \in 1 .. Len(q) : IsGet(q[i])
OneGet(q) == \A i, j \in 1 .. Len(q) : IsGet(q[i]) /\ IsGet(q[j]) => i = j
OwnGet(q, id) == \A i \in 1 .. Len(q) : IsGet(q[i]) => q[i].id = id

(* At most one GetConfig() is queued, executed or answered, and it is the  *)
(* one whose callback is set                                               *)
OneRequest ==
    /\ OneGet(commands) /\ OneGet(answers)
    /\ HasGet(commands) => ~IsGet(executing) /\ ~HasGet(answers)
    /\ IsGet(executing) => ~HasGet(answers)
    /\ OwnGet(commands, getCb) /\ OwnGet(answers, getCb)
    /\ IsGet(executing) => executing.id = getCb

(* What a window has seen is up to date, and has the answer under way      *)
Seen ==
    /\ \A w \in Windows, l \in Layers : seen[w][l] # {} => config[l] \in seen[w][l]
    /\ \A w \in Windows : Waiting(w) \/ win[w].poll \notin {"IDLE", "INIT"} =>
            \A l \in Layers : seen[w][l] # {}
    /\ HasGet(answers) /\ win[getCb.win].clean => payload \in seen[getCb.win][getCb.layer]

(* What can be said of a window in each state of its polling               *)
PollStart(w) == win[w].poll = "INIT" => step = "loop" /\ turn <= Polls(w)
PollEnd(w) == win[w].poll = "DONE" => win[w].layerIx = Len(PollLayers) + 1 /\ ~Waiting(w)

(* With data the window is idle, and its changes are up to date            *)
Available(w) ==
    win[w].avail =>
        /\ win[w].poll \in {"IDLE", "INIT"} /\ ~Waiting(w)
        /\ win[w].chReference = Reference(win[w])
        /\ win[w].changes = UpdateChanges(win[w]).changes

(* Between the click and the setting no load can begin or end              *)
Applying(w) ==
    win[w].set = "START" =>
        /\ step = "loop" /\ turn <= Sets(w)
        /\ win[w].shown # NoValue =>
            /\ win[w].changes = win[w].shown
            /\ turn <= Polls(w) => win[w].poll \notin {"INIT", "DONE", "FAIL"}

(* A clean load waits for the layer that it is at; the layers before have  *)
(* values that the receiver had, the others are empty                      *)
Clean(w) ==
    win[w].clean =>
        /\ Waiting(w) => /\ win[w].poll \in {"INIT", "WAIT", "FAIL"}
                         /\ getCb.layer = PollLayers[win[w].layerIx]
        /\ win[w].poll \in {"POLL", "WAIT", "FAIL"} =>
             \A i \in 1 .. Len(PollLayers) :
                LET l == PollLayers[i]
                IN  IF i < win[w].layerIx THEN win[w].values[l] \in seen[w][l]
                                          ELSE win[w].values[l] = NoValue
        /\ win[w].poll = "DONE" \/ win[w].avail =>
             \A l \in Layers : win[w].values[l] \in seen[w][l]

WindowInv(w) == PollStart(w) /\ PollEnd(w) /\ Available(w) /\ Applying(w) /\ Clean(w)

(* The types of the variables that are not of the service or of a window,  *)
(* and where the loops begin                                               *)
Control ==
    /\ thread \in {"none", "connecting", "up", "dying"}
    /\ step \in {"loop", "pump", "draw", "join"} /\ turn \in 1 .. 2 * NumWindows + 1
    /\ step # "loop" => turn = 1
    /\ clicks \in 0 .. MaxClicks
    /\ payload \in MaybeValues /\ config \in [Layers -> MaybeValues]

IInv == TypeOK /\ Control /\ OneRequest /\ Seen /\ \A w \in Windows : WindowInv(w)
-----------------------------------------------------------------------------
(* What the constants and the functions of a window are                    *)

LEMMA ConstantFacts ==
    /\ NumWindows \in Nat /\ NumWindows > 0 /\ MaxClicks \in Nat
    /\ Len(PollLayers) \in Nat /\ Len(PollLayers) > 0
    /\ \A i \in 1 .. Len(PollLayers) : PollLayers[i] \in Layers
    /\ \A l \in Layers : \E i \in 1 .. Len(PollLayers) : PollLayers[i] = l
    /\ \A i, j \in 1 .. Len(PollLayers) : PollLayers[i] = PollLayers[j] => i = j
    /\ "DEFAULT" \in Layers /\ "RAM" \in Layers
    /\ 0 \in Values /\ NoValue \notin Values
    /\ Configs \subseteq [Layers -> MaybeValues]
<1>1. PollLayers \in Seq(STRING)
  BY ConfigWindowAssumption
<1>2. Len(PollLayers) \in Nat
  BY <1>1
<1>3. Len(PollLayers) > 0
  <2>1. "RAM" \in Layers
    BY ConfigWindowAssumption
  <2> QED BY <2>1, <1>2 DEF Layers
<1>4. /\ NumWindows \in Nat /\ NumWindows > 0 /\ MaxClicks \in Nat
      /\ "DEFAULT" \in Layers /\ "RAM" \in Layers /\ 0 \in Values /\ NoValue \notin Values
      /\ \A i, j \in 1 .. Len(PollLayers) : PollLayers[i] = PollLayers[j] => i = j
  BY ConfigWindowAssumption
<1>5. Configs \subseteq [Layers -> MaybeValues]
  BY ConfigWindowAssumption DEF MaybeValues
<1>6. /\ \A i \in 1 .. Len(PollLayers) : PollLayers[i] \in Layers
      /\ \A l \in Layers : \E i \in 1 .. Len(PollLayers) : PollLayers[i] = l
  BY DEF Layers
<1> QED BY <1>2, <1>3, <1>4, <1>5, <1>6

LEMMA ReferenceType ==
    ASSUME NEW r \in WindowType
    PROVE  Reference(r) \in Values /\ OrZero(r.values["RAM"]) \in Values
<1>1. r.values["RAM"] \in MaybeValues /\ r.values["DEFAULT"] \in MaybeValues
  BY ConstantFacts DEF WindowType
<1> QED BY <1>1, ConstantFacts DEF Reference, OrZero, MaybeValues

LEMMA UpdateFields ==
    ASSUME NEW r \in WindowType
    PROVE  LET u == UpdateChanges(r)
           IN  /\ u \in WindowType
               /\ u.poll = r.poll /\ u.layerIx = r.layerIx /\ u.avail = r.avail
               /\ u.set = r.set /\ u.ref = r.ref /\ u.values = r.values
               /\ u.chValue = r.chValue /\ u.chReference = r.chReference
               /\ u.clean = r.clean /\ u.shown = r.shown
               /\ u.changes = IF r.chValue # r.chReference THEN r.chValue ELSE NoValue
BY DEF UpdateChanges, WindowType, MaybeValues

LEMMA EmptyType == Empty \in [Layers -> MaybeValues] /\ \A l \in Layers : Empty[l] = NoValue
BY DEF Empty, MaybeValues

LEMMA ClearFields ==
    ASSUME NEW r \in WindowType
    PROVE  LET u == DbClear(r)
           IN  /\ u \in WindowType
               /\ u.poll = r.poll /\ u.layerIx = r.layerIx /\ u.avail = FALSE
               /\ u.set = r.set /\ u.ref = r.ref /\ u.values = Empty
               /\ u.clean = r.clean /\ u.shown = r.shown
<1> DEFINE c == [r EXCEPT !.values = Empty, !.avail = FALSE]
<1>1. /\ c \in WindowType /\ c.poll = r.poll /\ c.layerIx = r.layerIx /\ c.avail = FALSE
      /\ c.set = r.set /\ c.ref = r.ref /\ c.values = Empty
      /\ c.clean = r.clean /\ c.shown = r.shown
  BY EmptyType DEF WindowType
<1> HIDE DEF c
<1>2. DbClear(r) = UpdateChanges(c)
  BY DEF DbClear, c
<1> QED BY <1>1, <1>2, UpdateFields

LEMMA ChSetFields ==
    ASSUME NEW r \in WindowType
    PROVE  LET u == ChSet(r)
           IN  /\ u \in WindowType
               /\ u.poll = r.poll /\ u.layerIx = r.layerIx /\ u.avail = r.avail
               /\ u.set = r.set /\ u.ref = r.ref /\ u.values = r.values
               /\ u.chReference = Reference(r)
               /\ u.clean = r.clean /\ u.shown = r.shown
BY ReferenceType DEF ChSet, WindowType

LEMMA SetFields ==
    ASSUME NEW r \in WindowType, NEW layer \in Layers, NEW value \in MaybeValues,
           r.layerIx <= Len(PollLayers)
    PROVE  LET u == DbSet(r, layer, value)
           IN  /\ u \in WindowType
               /\ u.poll = IF r.layerIx < Len(PollLayers) THEN "POLL" ELSE "DONE"
               /\ u.layerIx = r.layerIx + 1 /\ u.avail = r.avail /\ u.set = r.set
               /\ u.values = [r.values EXCEPT ![layer] = IF value = NoValue THEN @ ELSE value]
               /\ u.clean = r.clean /\ u.shown = r.shown
<1> DEFINE v == [r.values EXCEPT ![layer] = IF value = NoValue THEN @ ELSE value]
           c == [r EXCEPT !.values[layer] = IF value = NoValue THEN @ ELSE value,
                          !.layerIx = @ + 1,
                          !.poll = IF r.layerIx < Len(PollLayers) THEN "POLL" ELSE "DONE"]
<1>0. r.values \in [Layers -> MaybeValues] /\ r.layerIx \in 1 .. Len(PollLayers) + 1
  BY DEF WindowType
<1>1. v \in [Layers -> MaybeValues] /\ r.layerIx + 1 \in 1 .. Len(PollLayers) + 1
  BY <1>0, ConstantFacts
<1>2. c = [r EXCEPT !.values = v, !.layerIx = r.layerIx + 1,
                    !.poll = IF r.layerIx < Len(PollLayers) THEN "POLL" ELSE "DONE"]
  BY DEF WindowType
<1> HIDE DEF v
<1>3. /\ c \in WindowType /\ c.layerIx = r.layerIx + 1 /\ c.avail = r.avail /\ c.set = r.set
      /\ c.poll = IF r.layerIx < Len(PollLayers) THEN "POLL" ELSE "DONE"
      /\ c.values = v /\ c.clean = r.clean /\ c.shown = r.shown
  <2> HIDE DEF c
  <2> QED BY <1>1, <1>2 DEF WindowType, PollStates
<1>4. DbSet(r, layer, value) = UpdateChanges(c)
  BY DEF DbSet
<1> HIDE DEF c
<1> QED BY <1>3, <1>4, UpdateFields DEF v
-----------------------------------------------------------------------------
(* The requests                                                            *)

LEMMA AppendGet ==
    ASSUME NEW q \in Seq(Commands), NEW c \in Commands
    PROVE  /\ Append(q, c) \in Seq(Commands)
           /\ HasGet(Append(q, c)) <=> HasGet(q) \/ IsGet(c)
           /\ OneGet(q) /\ (IsGet(c) => ~HasGet(q)) => OneGet(Append(q, c))
           /\ \A id : OwnGet(q, id) /\ (IsGet(c) => c.id = id) => OwnGet(Append(q, c), id)
<1> DEFINE a == Append(q, c)
<1>1. /\ a \in Seq(Commands) /\ Len(a) = Len(q) + 1 /\ Len(q) \in Nat
      /\ \A i \in 1 .. Len(q) : a[i] = q[i]
      /\ a[Len(q) + 1] = c
  BY AppendProperties
<1> HIDE DEF a
<1>2. HasGet(a) <=> HasGet(q) \/ IsGet(c)
  BY <1>1 DEF HasGet
<1>3. OneGet(q) /\ (IsGet(c) => ~HasGet(q)) => OneGet(a)
  BY <1>1 DEF OneGet, HasGet
<1>4. ASSUME NEW id PROVE OwnGet(q, id) /\ (IsGet(c) => c.id = id) => OwnGet(a, id)
  BY <1>1 DEF OwnGet
<1> QED BY <1>1, <1>2, <1>3, <1>4 DEF a

LEMMA TailGet ==
    ASSUME NEW q \in Seq(Commands), q # <<>>
    PROVE  /\ Tail(q) \in Seq(Commands) /\ Head(q) \in Commands
           /\ HasGet(Tail(q)) => HasGet(q)
           /\ IsGet(Head(q)) => HasGet(q)
           /\ OneGet(q) => OneGet(Tail(q)) /\ (IsGet(Head(q)) => ~HasGet(Tail(q)))
           /\ \A id : OwnGet(q, id) => OwnGet(Tail(q), id) /\ (IsGet(Head(q)) => Head(q).id = id)
<1> DEFINE t == Tail(q)
<1>1. /\ t \in Seq(Commands) /\ Len(t) = Len(q) - 1 /\ Len(q) \in Nat /\ Len(q) > 0
      /\ \A i \in 1 .. Len(t) : t[i] = q[i + 1]
      /\ Head(q) = q[1] /\ Head(q) \in Commands
  BY HeadTailProperties, EmptySeq
<1> HIDE DEF t
<1>2. \A i \in 1 .. Len(t) : i + 1 \in 1 .. Len(q) /\ i + 1 # 1
  BY <1>1
<1>3. 1 \in 1 .. Len(q)
  BY <1>1
<1>4. (HasGet(t) => HasGet(q)) /\ (IsGet(Head(q)) => HasGet(q))
  BY <1>1, <1>2, <1>3 DEF HasGet
<1>5. ASSUME OneGet(q)
      PROVE  OneGet(t) /\ (IsGet(Head(q)) => ~HasGet(t))
  <2>1. \A i, j \in 1 .. Len(t) : IsGet(t[i]) /\ IsGet(t[j]) => i + 1 = j + 1
    BY <1>1, <1>2, <1>5 DEF OneGet
  <2>2. OneGet(t)
    BY <2>1, <1>1 DEF OneGet
  <2>3. ASSUME NEW i \in 1 .. Len(t), IsGet(t[i]) PROVE ~IsGet(q[1])
    BY <2>3, <1>1, <1>2, <1>3, <1>5 DEF OneGet
  <2> QED BY <2>2, <2>3, <1>1 DEF HasGet
<1>6. ASSUME NEW id
      PROVE  OwnGet(q, id) => OwnGet(t, id) /\ (IsGet(Head(q)) => Head(q).id = id)
  BY <1>1, <1>2, <1>3 DEF OwnGet
<1> QED BY <1>1, <1>4, <1>5, <1>6 DEF t

ServiceTypes ==
    /\ commands \in Seq(Commands) /\ answers \in Seq(Commands)
    /\ executing \in Commands \cup {R!Nothing}
    /\ getCb \in GetRequest \cup {NoRequest}
    /\ setCb \in {request \in SetRequest : request.win # 0} \cup {NoRequest}
    /\ link \in {"IDLE", "BUSY", "READY"} /\ silent \in BOOLEAN

LEMMA NoGet ==
    /\ ~HasGet(<<>>) /\ OneGet(<<>>) /\ \A id : OwnGet(<<>>, id)
    /\ ~IsGet(R!Nothing)
    /\ NoRequest \notin GetRequest
    /\ \A c \in Commands : IsGet(c) => c.id \in GetRequest
BY DEF HasGet, OneGet, OwnGet, IsGet, R!Nothing, R!SetOps, NoRequest, GetRequest, Windows, Commands

(* Without a callback there is no request                                  *)
LEMMA NoRequestNoGet ==
    ASSUME ServiceTypes, OneRequest, getCb = NoRequest
    PROVE  ~HasGet(commands) /\ ~HasGet(answers) /\ ~IsGet(executing)
<1>1. ASSUME NEW q \in Seq(Commands), OwnGet(q, NoRequest) PROVE ~HasGet(q)
  <2>1. \A i \in 1 .. Len(q) : q[i] \in Commands
    OBVIOUS
  <2> QED BY <1>1, <2>1, NoGet DEF OwnGet, HasGet
<1> QED BY <1>1, NoGet DEF ServiceTypes, OneRequest

LEMMA GetConfigStep ==
    ASSUME ServiceTypes, OneRequest, NEW id \in GetRequest, R!GetConfig(id)
    PROVE  ServiceTypes' /\ OneRequest' /\ ~HasGet(answers) /\ answers' = answers /\ getCb' = id
<1> DEFINE c == [op |-> "GETCONFIG", id |-> id]
<1>1. c \in Commands /\ IsGet(c) /\ c.id = id
  BY DEF Commands, IsGet
<1>2. commands' = Append(commands, c) /\ getCb = NoRequest /\ getCb' = id
      /\ UNCHANGED <<link, executing, answers, setCb, silent>>
  BY DEF R!GetConfig, R!Send
<1> HIDE DEF c
<1>3. ~HasGet(commands) /\ ~HasGet(answers) /\ ~IsGet(executing)
  BY <1>2, NoRequestNoGet
<1>4. OneGet(Append(commands, c)) /\ Append(commands, c) \in Seq(Commands)
  BY <1>1, <1>3, AppendGet DEF ServiceTypes, OneRequest
<1>5. OwnGet(commands, id)
  BY <1>3 DEF HasGet, OwnGet
<1>6. OwnGet(answers, id)
  BY <1>3 DEF HasGet, OwnGet
<1>7. OwnGet(Append(commands, c), id)
  BY <1>5, <1>1, AppendGet DEF ServiceTypes
<1>8. ServiceTypes'
  BY <1>2, <1>4 DEF ServiceTypes
<1>9. OneRequest'
  BY <1>2, <1>3, <1>4, <1>6, <1>7 DEF OneRequest
<1> QED BY <1>2, <1>3, <1>8, <1>9

LEMMA SetConfigStep ==
    ASSUME ServiceTypes, OneRequest, NEW id \in SetRequest,
           NEW op \in R!SetOps,
           (id.win # 0 /\ R!SetConfig(op, id)) \/ (op = "SETCONFIG" /\ R!SetConfigSilently(id))
    PROVE  ServiceTypes' /\ OneRequest' /\ answers' = answers /\ getCb' = getCb
<1> DEFINE c == [op |-> op, id |-> id]
<1>1. c \in Commands /\ ~IsGet(c)
  BY DEF Commands, IsGet, R!SetOps
<1>2. /\ commands' = Append(commands, c)
      /\ UNCHANGED <<link, executing, answers, getCb>>
      /\ setCb' \in {request \in SetRequest : request.win # 0} \cup {NoRequest}
      /\ silent' \in BOOLEAN
  BY DEF R!SetConfig, R!SetConfigSilently, R!Send, ServiceTypes
<1> HIDE DEF c
<1>3. /\ OneGet(Append(commands, c)) /\ Append(commands, c) \in Seq(Commands)
      /\ HasGet(Append(commands, c)) <=> HasGet(commands)
      /\ OwnGet(Append(commands, c), getCb)
  BY <1>1, AppendGet DEF ServiceTypes, OneRequest
<1> QED BY <1>2, <1>3 DEF ServiceTypes, OneRequest

LEMMA ExecuteStep ==
    ASSUME ServiceTypes, OneRequest, R!Execute
    PROVE  ServiceTypes' /\ OneRequest' /\ answers' = answers /\ getCb' = getCb
<1>1. /\ commands # <<>> /\ executing = R!Nothing
      /\ executing' = Head(commands) /\ commands' = Tail(commands)
      /\ link' = "BUSY" /\ UNCHANGED <<answers, getCb, setCb, silent>>
  BY DEF R!Execute
<1>2. commands \in Seq(Commands) /\ ~IsGet(R!Nothing)
  BY NoGet DEF ServiceTypes
<1>3. ServiceTypes'
  BY <1>1, <1>2, TailGet DEF ServiceTypes
<1>4. /\ OneGet(Tail(commands)) /\ (IsGet(Head(commands)) => ~HasGet(Tail(commands)))
      /\ HasGet(Tail(commands)) => HasGet(commands)
      /\ IsGet(Head(commands)) => HasGet(commands)
      /\ OwnGet(Tail(commands), getCb) /\ (IsGet(Head(commands)) => Head(commands).id = getCb)
  BY <1>1, <1>2, TailGet DEF OneRequest
<1>5. OneRequest'
  BY <1>1, <1>4 DEF OneRequest
<1> QED BY <1>1, <1>3, <1>5

LEMMA AbandonStep ==
    ASSUME ServiceTypes, OneRequest, R!Abandon
    PROVE  ServiceTypes' /\ OneRequest' /\ answers' = answers /\ getCb' = getCb
<1>1. /\ commands # <<>> /\ commands' = Tail(commands)
      /\ link' = "BUSY" /\ UNCHANGED <<executing, answers, getCb, setCb, silent>>
  BY DEF R!Abandon
<1>2. commands \in Seq(Commands)
  BY DEF ServiceTypes
<1>3. ServiceTypes'
  BY <1>1, <1>2, TailGet DEF ServiceTypes
<1>4. /\ OneGet(Tail(commands)) /\ OwnGet(Tail(commands), getCb)
      /\ HasGet(Tail(commands)) => HasGet(commands)
  BY <1>1, <1>2, TailGet DEF OneRequest
<1>5. OneRequest'
  BY <1>1, <1>4 DEF OneRequest
<1> QED BY <1>1, <1>3, <1>5

LEMMA CompleteStep ==
    ASSUME ServiceTypes, OneRequest, R!Complete
    PROVE  /\ ServiceTypes' /\ OneRequest' /\ getCb' = getCb
           /\ HasGet(answers') <=> HasGet(answers) \/ IsGet(executing)
           /\ IsGet(executing) => executing.id = getCb /\ getCb \in GetRequest
           /\ executing \in Commands
<1>1. /\ executing # R!Nothing /\ executing' = R!Nothing
      /\ answers' = Append(answers, executing) /\ link' = "READY"
      /\ UNCHANGED <<commands, getCb, setCb, silent>>
  BY DEF R!Complete
<1>2. executing \in Commands /\ answers \in Seq(Commands) /\ ~IsGet(R!Nothing)
  BY <1>1, NoGet DEF ServiceTypes
<1>3. /\ Append(answers, executing) \in Seq(Commands)
      /\ HasGet(Append(answers, executing)) <=> HasGet(answers) \/ IsGet(executing)
      /\ OneGet(Append(answers, executing)) /\ OwnGet(Append(answers, executing), getCb)
  BY <1>2, AppendGet DEF OneRequest
<1>4. ServiceTypes' /\ OneRequest'
  BY <1>1, <1>2, <1>3 DEF ServiceTypes, OneRequest
<1>5. IsGet(executing) => executing.id = getCb /\ getCb \in GetRequest
  BY <1>2, NoGet DEF OneRequest
<1> QED BY <1>1, <1>2, <1>3, <1>4, <1>5

(* The answer to GetConfig() is the last that there is                     *)
LEMMA DeliverGetStep ==
    ASSUME ServiceTypes, OneRequest, R!Deliver, IsGet(Head(answers))
    PROVE  /\ ServiceTypes' /\ OneRequest'
           /\ HasGet(answers) /\ ~HasGet(answers') /\ getCb \in GetRequest /\ getCb' = NoRequest
<1>1. /\ answers # <<>> /\ answers' = Tail(answers) /\ getCb' = NoRequest
      /\ UNCHANGED <<link, commands, executing, setCb, silent>>
  BY DEF R!Deliver, IsGet
<1>2. answers \in Seq(Commands)
  BY DEF ServiceTypes
<1>3. /\ Tail(answers) \in Seq(Commands) /\ HasGet(answers) /\ ~HasGet(Tail(answers))
      /\ Head(answers).id = getCb /\ Head(answers) \in Commands /\ OneGet(Tail(answers))
  BY <1>1, <1>2, TailGet DEF OneRequest
<1>4. ~HasGet(commands) /\ ~IsGet(executing)
  BY <1>3 DEF OneRequest
<1>5. OwnGet(commands, NoRequest) /\ OwnGet(Tail(answers), NoRequest)
  BY <1>3, <1>4 DEF OwnGet, HasGet
<1>6. ServiceTypes' /\ OneRequest'
  BY <1>1, <1>3, <1>4, <1>5 DEF ServiceTypes, OneRequest
<1> QED BY <1>1, <1>3, <1>6, NoGet

LEMMA DeliverSetStep ==
    ASSUME ServiceTypes, OneRequest, R!Deliver, ~IsGet(Head(answers))
    PROVE  ServiceTypes' /\ OneRequest' /\ getCb' = getCb /\ (HasGet(answers') => HasGet(answers))
<1>1. /\ answers # <<>> /\ answers' = Tail(answers) /\ getCb' = getCb /\ setCb' = NoRequest
      /\ UNCHANGED <<link, commands, executing, silent>>
  BY DEF R!Deliver, IsGet
<1>2. answers \in Seq(Commands)
  BY DEF ServiceTypes
<1>3. /\ Tail(answers) \in Seq(Commands) /\ (HasGet(Tail(answers)) => HasGet(answers))
      /\ OneGet(Tail(answers)) /\ OwnGet(Tail(answers), getCb)
  BY <1>1, <1>2, TailGet DEF OneRequest
<1>4. ServiceTypes' /\ OneRequest'
  BY <1>1, <1>3 DEF ServiceTypes, OneRequest
<1> QED BY <1>1, <1>3, <1>4

LEMMA StartStep ==
    ASSUME ServiceTypes, OneRequest, R!Start
    PROVE  ServiceTypes' /\ OneRequest' /\ getCb' = getCb /\ ~HasGet(answers')
<1>1. /\ commands' = <<>> /\ answers' = <<>> /\ executing = R!Nothing
      /\ UNCHANGED <<link, executing, getCb, setCb, silent>>
  BY DEF R!Start
<1>2. ServiceTypes'
  BY <1>1 DEF ServiceTypes
<1>3. OneRequest'
  BY <1>1, NoGet DEF OneRequest
<1> QED BY <1>1, <1>2, <1>3, NoGet

LEMMA LinkStep ==
    ASSUME ServiceTypes, OneRequest, R!LinkChange
    PROVE  ServiceTypes' /\ OneRequest' /\ answers' = answers /\ getCb' = getCb
BY DEF R!LinkChange, ServiceTypes, OneRequest

LEMMA StillStep ==
    ASSUME ServiceTypes, OneRequest, UNCHANGED service
    PROVE  ServiceTypes' /\ OneRequest' /\ answers' = answers /\ getCb' = getCb
BY DEF service, ServiceTypes, OneRequest
-----------------------------------------------------------------------------
(* What a step has to show                                                 *)

Within(w) == win[w].poll = "POLL" \/ Waiting(w) => win[w].layerIx <= Len(PollLayers)

LEMMA Types ==
    TypeOK /\ Control <=>
        /\ ServiceTypes /\ Control
        /\ win \in [Windows -> WindowType] /\ seen \in [Windows -> [Layers -> SUBSET MaybeValues]]
        /\ \A w \in Windows : Within(w)
BY DEF TypeOK, Control, ServiceTypes, Within

LEMMA TypesNext ==
    ASSUME ServiceTypes', Control',
           win' \in [Windows -> WindowType], seen' \in [Windows -> [Layers -> SUBSET MaybeValues]],
           \A w \in Windows : Within(w)'
    PROVE  TypeOK'
BY DEF TypeOK, Control, ServiceTypes, Within

(* A window that does not change                                           *)
LEMMA Kept ==
    ASSUME NEW u \in Windows, WindowInv(u), Within(u), win'[u] = win[u],
           \A l \in Layers : seen[u][l] \subseteq seen'[u][l],
           Waiting(u)' => Waiting(u) /\ getCb' = getCb,
           PollStart(u)', Applying(u)'
    PROVE  WindowInv(u)' /\ Within(u)'
<1>1. PollEnd(u)' /\ Within(u)'
  BY DEF WindowInv, PollEnd, Within
<1>2. Available(u)'
  BY DEF WindowInv, Available
<1>3. Clean(u)'
  <2>1. ASSUME win[u].clean PROVE Clean(u)'
    <3>1. Waiting(u)' => /\ win[u].poll \in {"INIT", "WAIT", "FAIL"}
                         /\ getCb'.layer = PollLayers[win[u].layerIx]
      BY <2>1 DEF WindowInv, Clean
    <3>2. win[u].poll \in {"POLL", "WAIT", "FAIL"} =>
             \A i \in 1 .. Len(PollLayers) :
                IF i < win[u].layerIx THEN win[u].values[PollLayers[i]] \in seen'[u][PollLayers[i]]
                                      ELSE win[u].values[PollLayers[i]] = NoValue
      BY <2>1, ConstantFacts DEF WindowInv, Clean
    <3>3. win[u].poll = "DONE" \/ win[u].avail =>
             \A l \in Layers : win[u].values[l] \in seen'[u][l]
      BY <2>1 DEF WindowInv, Clean
    <3> QED BY <3>1, <3>2, <3>3 DEF Clean
  <2> QED BY <2>1 DEF Clean
<1> QED BY <1>1, <1>2, <1>3 DEF WindowInv

(* Outside of the loops no window begins to load or to apply               *)
LEMMA NotLoop ==
    ASSUME NEW u \in Windows, WindowInv(u), step # "loop", win'[u] = win[u]
    PROVE  PollStart(u)' /\ Applying(u)' /\ win[u].poll # "INIT" /\ win[u].set # "START"
BY DEF WindowInv, PollStart, Applying

LEMMA Parts ==
    ASSUME NEW u \in Windows
    PROVE  Polls(u) \in Nat /\ Sets(u) = Polls(u) + 1 /\ Polls(u) >= 1 /\ Sets(u) <= 2 * NumWindows
BY ConstantFacts DEF Windows, Polls, Sets

(* The loops pass over no window that begins to load or to apply           *)
LEMMA Passed ==
    ASSUME NEW u \in Windows, WindowInv(u), NEW part \in Nat, turn \in Nat,
           \A earlier \in turn .. part - 1 : ~Due(earlier)
    PROVE  /\ win[u].poll = "INIT" => step = "loop" /\ part <= Polls(u)
           /\ win[u].set = "START" => step = "loop" /\ part <= Sets(u)
<1>1. ASSUME win[u].poll = "INIT" PROVE step = "loop" /\ part <= Polls(u)
  <2>1. Due(Polls(u))
    BY <1>1 DEF Due
  <2>2. step = "loop" /\ turn <= Polls(u)
    BY <1>1 DEF WindowInv, PollStart
  <2> QED BY <2>1, <2>2, Parts
<1>2. ASSUME win[u].set = "START" PROVE step = "loop" /\ part <= Sets(u)
  <2>1. Due(Sets(u))
    BY <1>2 DEF Due
  <2>2. step = "loop" /\ turn <= Sets(u)
    BY <1>2 DEF WindowInv, Applying
  <2>3. Sets(u) \in Nat
    BY Parts
  <2> QED BY <2>1, <2>2, <2>3
<1> QED BY <1>1, <1>2

LEMMA AtOthers ==
    ASSUME NEW v \in Windows, NEW u \in Windows \ {v}, WindowInv(u), Control,
           NEW part \in {Polls(v), Sets(v)}, At(part), win'[u] = win[u]
    PROVE  PollStart(u)' /\ Applying(u)'
<1>1. /\ step' = "loop" /\ turn' = part + 1 /\ turn <= part /\ turn \in Nat /\ part \in Nat
      /\ \A earlier \in turn .. part - 1 : ~Due(earlier)
  BY Parts, ConstantFacts DEF At, Control
<1>2. part # Polls(u) /\ part # Sets(u)
  BY ConstantFacts DEF Windows, Polls, Sets
<1>3. /\ win[u].poll = "INIT" => part <= Polls(u)
      /\ win[u].set = "START" => part <= Sets(u)
  BY <1>1, Passed
<1>4. PollStart(u)'
  BY <1>1, <1>2, <1>3, Parts DEF PollStart
<1>5. Applying(u)'
  <2>1. ASSUME win[u].set = "START" PROVE turn' <= Sets(u) /\ (turn' <= Polls(u) => turn <= Polls(u))
    BY <2>1, <1>1, <1>2, <1>3, Parts
  <2> QED BY <2>1, <1>1 DEF WindowInv, Applying
<1> QED BY <1>4, <1>5

LEMMA SeenKept ==
    ASSUME IInv, UNCHANGED <<config, seen>>, win' \in [Windows -> WindowType],
           HasGet(answers') => HasGet(answers) /\ getCb' = getCb /\ payload' = payload,
           HasGet(answers) => getCb \in GetRequest,
           \A w \in Windows : /\ win'[w].clean => win[w].clean
                              /\ Waiting(w)' \/ win'[w].poll \notin {"IDLE", "INIT"} =>
                                    Waiting(w) \/ win[w].poll \notin {"IDLE", "INIT"}
    PROVE  Seen'
<1>1. ASSUME HasGet(answers'), win'[getCb'.win].clean
      PROVE  payload' \in seen'[getCb'.win][getCb'.layer]
  <2>1. HasGet(answers) /\ getCb' = getCb /\ payload' = payload /\ getCb \in GetRequest
    BY <1>1
  <2>2. getCb.win \in Windows
    BY <2>1 DEF GetRequest
  <2>3. win[getCb.win].clean
    BY <1>1, <2>1, <2>2
  <2> QED BY <2>1, <2>3 DEF IInv, Seen
<1>2. /\ \A w \in Windows, l \in Layers : seen'[w][l] # {} => config'[l] \in seen'[w][l]
      /\ \A w \in Windows : Waiting(w)' \/ win'[w].poll \notin {"IDLE", "INIT"} =>
            \A l \in Layers : seen'[w][l] # {}
  BY DEF IInv, Seen
<1> QED BY <1>1, <1>2 DEF Seen

(* A step in which no window changes                                       *)
LEMMA SameWindows ==
    ASSUME IInv, win' = win, ServiceTypes', OneRequest', Control', Seen', getCb' = getCb,
           seen' \in [Windows -> [Layers -> SUBSET MaybeValues]],
           \A w \in Windows, l \in Layers : seen[w][l] \subseteq seen'[w][l],
           \A u \in Windows : PollStart(u)' /\ Applying(u)'
    PROVE  IInv'
<1>1. win' \in [Windows -> WindowType] /\ \A w \in Windows : Within(w) /\ WindowInv(w)
  BY Types DEF IInv
<1>2. \A u \in Windows : WindowInv(u)' /\ Within(u)'
  <2> SUFFICES ASSUME NEW u \in Windows PROVE WindowInv(u)' /\ Within(u)'
    OBVIOUS
  <2>1. Waiting(u)' => Waiting(u)
    BY DEF Waiting
  <2> QED BY <1>1, <2>1, Kept
<1>3. TypeOK'
  BY <1>1, <1>2, TypesNext
<1> QED BY <1>2, <1>3 DEF IInv

(* A step in which one window changes                                      *)
LEMMA OneWindow ==
    ASSUME IInv, NEW v \in Windows, NEW r \in WindowType, Change(v, r),
           ServiceTypes', OneRequest', Control', Seen',
           seen' \in [Windows -> [Layers -> SUBSET MaybeValues]],
           \A u \in Windows \ {v} : PollStart(u)' /\ Applying(u)',
           \A u \in Windows \ {v} : seen'[u] = seen[u],
           \A u \in Windows \ {v} : Waiting(u)' => Waiting(u) /\ getCb' = getCb,
           WindowInv(v)', Within(v)'
    PROVE  IInv'
<1>1. /\ win \in [Windows -> WindowType] /\ win' = [win EXCEPT ![v] = r]
      /\ \A w \in Windows : Within(w) /\ WindowInv(w)
  BY Types DEF IInv, Change
<1>2. win' \in [Windows -> WindowType] /\ \A u \in Windows \ {v} : win'[u] = win[u]
  BY <1>1
<1>3. \A u \in Windows : WindowInv(u)' /\ Within(u)'
  <2> SUFFICES ASSUME NEW u \in Windows \ {v} PROVE WindowInv(u)' /\ Within(u)'
    OBVIOUS
  <2>1. \A l \in Layers : seen[u][l] \subseteq seen'[u][l]
    OBVIOUS
  <2> QED BY <1>1, <1>2, <2>1, Kept
<1>4. TypeOK'
  BY <1>2, <1>3, TypesNext
<1> QED BY <1>3, <1>4 DEF IInv
-----------------------------------------------------------------------------
(* The initial states                                                      *)

LEMMA InitInv == ASSUME Init PROVE IInv
<1>1. /\ link = "IDLE" /\ commands = <<>> /\ executing = R!Nothing /\ answers = <<>>
      /\ getCb = NoRequest /\ setCb = NoRequest /\ silent = FALSE
      /\ payload = NoValue /\ config \in Configs /\ thread = "none"
      /\ step = "loop" /\ turn = 1 /\ clicks = 0
      /\ win = [w \in Windows |-> Closed]
      /\ seen = [w \in Windows |-> [l \in Layers |-> {}]]
  BY DEF Init, R!Init
<1>2. ServiceTypes
  <2>1. commands \in Seq(Commands) /\ answers \in Seq(Commands)
    BY <1>1
  <2>2. executing \in Commands \cup {R!Nothing} /\ getCb \in GetRequest \cup {NoRequest}
    BY <1>1
  <2>3. /\ setCb \in {request \in SetRequest : request.win # 0} \cup {NoRequest}
        /\ link \in {"IDLE", "BUSY", "READY"} /\ silent \in BOOLEAN
    BY <1>1
  <2> QED BY <2>1, <2>2, <2>3 DEF ServiceTypes
<1>3. Control
  BY <1>1, ConstantFacts DEF Control, MaybeValues
<1>4. Closed \in WindowType
  BY ConstantFacts, EmptyType DEF Closed, WindowType, PollStates, MaybeValues
<1>5. win \in [Windows -> WindowType] /\ seen \in [Windows -> [Layers -> SUBSET MaybeValues]]
  BY <1>1, <1>4
<1>6. \A w \in Windows : win[w] = Closed /\ ~Waiting(w)
  BY <1>1 DEF Waiting
<1>7. /\ Closed.poll = "IDLE" /\ ~Closed.avail /\ Closed.set = "IDLE"
  BY DEF Closed
<1>8. \A w \in Windows : Within(w) /\ WindowInv(w)
  BY <1>6, <1>7 DEF Within, WindowInv, PollStart, PollEnd, Available, Applying, Clean
<1>9. OneRequest
  BY <1>1, NoGet DEF OneRequest
<1>10. Seen
  BY <1>1, <1>6, <1>7, NoGet DEF Seen
<1>11. TypeOK
  BY <1>2, <1>3, <1>5, <1>8, Types
<1> QED BY <1>3, <1>8, <1>9, <1>10, <1>11 DEF IInv
-----------------------------------------------------------------------------
(* The receiver thread                                                     *)

LEMMA InvFacts ==
    ASSUME IInv
    PROVE  /\ ServiceTypes /\ Control /\ OneRequest /\ Seen
           /\ win \in [Windows -> WindowType] /\ seen \in [Windows -> [Layers -> SUBSET MaybeValues]]
           /\ \A w \in Windows : win[w] \in WindowType /\ Within(w) /\ WindowInv(w)
           /\ HasGet(answers) => getCb \in GetRequest
<1>1. /\ ServiceTypes /\ Control /\ OneRequest /\ Seen
      /\ win \in [Windows -> WindowType] /\ seen \in [Windows -> [Layers -> SUBSET MaybeValues]]
      /\ \A w \in Windows : Within(w)
      /\ \A w \in Windows : WindowInv(w)
  BY Types DEF IInv
<1>2. HasGet(answers) => getCb \in GetRequest
  BY <1>1, NoRequestNoGet DEF ServiceTypes
<1> QED BY <1>1, <1>2

(* A step that leaves the windows, and what they have seen, alone          *)
LEMMA QuietStep ==
    ASSUME IInv, UNCHANGED <<win, seen, config>>, ServiceTypes', OneRequest', Control',
           getCb' = getCb, HasGet(answers') => HasGet(answers) /\ payload' = payload,
           \A u \in Windows : PollStart(u)' /\ Applying(u)'
    PROVE  IInv'
<1>1. /\ win' \in [Windows -> WindowType] /\ seen' \in [Windows -> [Layers -> SUBSET MaybeValues]]
      /\ \A w \in Windows, l \in Layers : seen[w][l] \subseteq seen'[w][l]
      /\ HasGet(answers) => getCb \in GetRequest
  BY InvFacts
<1>2. \A w \in Windows : Waiting(w)' = Waiting(w)
  BY DEF Waiting
<1>3. Seen'
  BY <1>1, <1>2, SeenKept
<1> QED BY <1>1, <1>3, SameWindows

LEMMA ThreadControl ==
    ASSUME IInv, UNCHANGED <<step, turn, win>>, NEW u \in Windows
    PROVE  PollStart(u)' /\ Applying(u)'
<1>1. PollStart(u) /\ Applying(u)
  BY InvFacts DEF WindowInv
<1>2. PollStart(u)'
  BY <1>1 DEF PollStart
<1>3. Applying(u)'
  BY <1>1 DEF Applying
<1> QED BY <1>2, <1>3

LEMMA ThreadQuiet ==
    ASSUME IInv, ThreadBusy \/ ThreadEnds \/ Execute \/ ThreadThrows
    PROVE  IInv'
<1>1. R!LinkChange \/ R!Execute \/ R!Abandon
  BY DEF ThreadBusy, ThreadEnds, Execute, ThreadThrows
<1>2. /\ UNCHANGED <<step, turn, clicks, win, payload, config, seen>>
      /\ thread' \in {"none", "connecting", "up", "dying"}
  BY InvFacts DEF ThreadBusy, ThreadEnds, Execute, ThreadThrows, Receiver, Control
<1>3. ServiceTypes' /\ OneRequest' /\ answers' = answers /\ getCb' = getCb
  BY <1>1, InvFacts, LinkStep, ExecuteStep, AbandonStep
<1>4. Control'
  BY <1>2, InvFacts DEF Control
<1>5. \A u \in Windows : PollStart(u)' /\ Applying(u)'
  BY <1>2, ThreadControl
<1>6. HasGet(answers') => HasGet(answers) /\ payload' = payload
  BY <1>2, <1>3
<1> QED BY <1>2, <1>3, <1>4, <1>5, <1>6, QuietStep

LEMMA CompleteGetInv == ASSUME IInv, CompleteGet PROVE IInv'
<1> DEFINE w == getCb.win
           l == getCb.layer
<1>1. /\ IsGet(executing) /\ R!Complete /\ UNCHANGED <<step, turn, clicks, win, config, thread>>
      /\ \/ payload' = config[executing.id.layer] /\ UNCHANGED seen
         \/ /\ payload' = NoValue
            /\ seen' = [seen EXCEPT ![executing.id.win][executing.id.layer] = @ \cup {NoValue}]
  BY DEF CompleteGet, Receiver, IsGet
<1>2. /\ ServiceTypes' /\ OneRequest' /\ getCb' = getCb
      /\ executing.id = getCb /\ getCb \in GetRequest
  BY <1>1, InvFacts, CompleteStep
<1>3. w \in Windows /\ l \in Layers /\ Waiting(w)
  BY <1>2, NoGet DEF GetRequest, Waiting
<1>4. \/ payload' = config[l] /\ UNCHANGED seen
      \/ payload' = NoValue /\ seen' = [seen EXCEPT ![w][l] = @ \cup {NoValue}]
  BY <1>1, <1>2
<1> HIDE DEF w, l
<1>5. seen \in [Windows -> [Layers -> SUBSET MaybeValues]] /\ NoValue \in MaybeValues
  BY InvFacts DEF MaybeValues
<1>6. /\ seen' \in [Windows -> [Layers -> SUBSET MaybeValues]]
      /\ \A u \in Windows, k \in Layers :
            seen'[u][k] \in {seen[u][k], seen[u][k] \cup {IF u = w /\ k = l THEN NoValue ELSE config[k]}}
            /\ seen[u][k] \subseteq seen'[u][k]
            /\ (seen[u][k] = {} => seen'[u][k] = {} \/ (u = w /\ k = l))
  BY <1>3, <1>4, <1>5
<1>7. seen[w][l] # {} /\ config[l] \in seen[w][l]
  BY <1>3, InvFacts DEF Seen
<1>8. payload' \in seen'[w][l] /\ payload' \in MaybeValues
  BY <1>3, <1>4, <1>5, <1>7, InvFacts DEF Control
<1>9. Control'
  BY <1>1, <1>8, InvFacts DEF Control
<1>10. Seen'
  <2>1. \A u \in Windows, k \in Layers : seen'[u][k] # {} => config[k] \in seen'[u][k]
    BY <1>6, <1>7, InvFacts DEF Seen
  <2>2. \A u \in Windows : Waiting(u)' = Waiting(u)
    BY <1>2 DEF Waiting
  <2>3. \A u \in Windows : Waiting(u) \/ win[u].poll \notin {"IDLE", "INIT"} =>
            \A k \in Layers : seen'[u][k] # {}
    BY <1>6, InvFacts DEF Seen
  <2> QED BY <1>1, <1>2, <1>8, <2>1, <2>2, <2>3 DEF Seen, w, l
<1>11. \A u \in Windows : PollStart(u)' /\ Applying(u)'
  BY <1>1, ThreadControl
<1>12. \A u \in Windows, k \in Layers : seen[u][k] \subseteq seen'[u][k]
  BY <1>6
<1> QED BY <1>1, <1>2, <1>6, <1>9, <1>10, <1>11, <1>12, SameWindows

LEMMA CompleteSetInv == ASSUME IInv, CompleteSet PROVE IInv'
<1>1. /\ ~IsGet(executing) /\ executing.op = "SETCONFIG" /\ R!Complete
      /\ UNCHANGED <<step, turn, clicks, win, payload, thread>>
      /\ seen' = [u \in Windows |-> [k \in Layers |->
                    IF seen[u][k] = {} THEN {} ELSE seen[u][k] \cup {config'[k]}]]
  BY DEF CompleteSet, Receiver, IsGet
<1>2. /\ ServiceTypes' /\ OneRequest' /\ getCb' = getCb /\ executing \in Commands
      /\ HasGet(answers') => HasGet(answers)
  BY <1>1, InvFacts, CompleteStep
<1>3. config' \in [Layers -> MaybeValues]
  <2> DEFINE request == executing.id
             stored == [k \in Layers |-> IF k \in request.layers THEN request.value ELSE config[k]]
  <2>1. request.value \in MaybeValues /\ config \in [Layers -> MaybeValues]
    BY <1>1, <1>2, InvFacts DEF Commands, SetRequest, MaybeValues, Control
  <2> HIDE DEF request
  <2>2. stored \in [Layers -> MaybeValues]
    BY <2>1
  <2>3. ASSUME NEW c \in [Layers -> MaybeValues] PROVE Restarted(c) \in [Layers -> MaybeValues]
    <3> DEFINE layers == {k \in Layers \ {"DEFAULT", "RAM"} : c[k] # NoValue}
               first == CHOOSE k \in layers : TRUE
    <3>1. CASE layers = {}
      <4>1. Restarted(c) = [c EXCEPT !["RAM"] = c["DEFAULT"]]
        BY <3>1 DEF Restarted
      <4> QED BY <4>1, ConstantFacts
    <3>2. CASE layers # {}
      <4>1. first \in layers
        BY <3>2
      <4>2. Restarted(c) = [c EXCEPT !["RAM"] = c[first]]
        BY <3>2 DEF Restarted
      <4> HIDE DEF first
      <4> QED BY <4>1, <4>2, ConstantFacts
    <3> QED BY <3>1, <3>2
  <2>4. config' \in {config, stored} \cup IF request.apply THEN {Restarted(stored)} ELSE {}
    BY DEF CompleteSet, request
  <2> QED BY <2>1, <2>2, <2>3, <2>4
<1>4. Control'
  BY <1>1, <1>3, InvFacts DEF Control
<1>5. /\ seen' \in [Windows -> [Layers -> SUBSET MaybeValues]]
      /\ \A u \in Windows, k \in Layers :
            /\ seen[u][k] \subseteq seen'[u][k]
            /\ seen'[u][k] # {} => config'[k] \in seen'[u][k]
  BY <1>1, <1>3, InvFacts
<1>6. Seen'
  <2>1. \A u \in Windows : Waiting(u)' = Waiting(u)
    BY <1>2 DEF Waiting
  <2>2. \A u \in Windows : Waiting(u) \/ win[u].poll \notin {"IDLE", "INIT"} =>
            \A k \in Layers : seen'[u][k] # {}
    BY <1>5, InvFacts DEF Seen
  <2>3. ASSUME HasGet(answers), win[getCb.win].clean PROVE payload \in seen'[getCb.win][getCb.layer]
    <3>1. getCb.win \in Windows /\ getCb.layer \in Layers
      BY <2>3, InvFacts DEF GetRequest
    <3> QED BY <2>3, <3>1, <1>5, InvFacts DEF Seen
  <2> QED BY <1>1, <1>2, <1>5, <2>1, <2>2, <2>3 DEF Seen
<1>7. \A u \in Windows : PollStart(u)' /\ Applying(u)'
  BY <1>1, ThreadControl
<1>8. \A u \in Windows, k \in Layers : seen[u][k] \subseteq seen'[u][k]
  BY <1>5
<1> QED BY <1>1, <1>2, <1>4, <1>5, <1>6, <1>7, <1>8, SameWindows
-----------------------------------------------------------------------------
(* The main thread, between the parts of a frame                           *)

LEMMA MessageRatesType == MessageRates \in SetRequest
BY ConstantFacts DEF MessageRates, SetRequest

LEMMA MainQuiet ==
    ASSUME IInv,
           PumpDone \/ NoClick \/ MessageRate \/ Connect \/ Disconnect \/ Disconnected
    PROVE  IInv'
<1>1. /\ UNCHANGED <<win, seen, config, turn>> /\ step # "loop"
      /\ step' \in {"loop", "draw", "join"} /\ thread' \in {thread, "connecting"}
      /\ clicks' \in {clicks, clicks + 1} /\ (clicks' = clicks \/ clicks < MaxClicks)
  BY DEF PumpDone, NoClick, Drawn, MessageRate, Click, Connect, Disconnect, Disconnected
<1>2. payload' \in {payload, NoValue}
  BY DEF PumpDone, NoClick, Drawn, MessageRate, Click, Connect, Disconnect, Disconnected
<1>3. \/ UNCHANGED <<service, payload>>
      \/ R!SetConfigSilently(MessageRates) /\ payload' = payload
      \/ R!Start
  BY DEF PumpDone, NoClick, Drawn, MessageRate, Click, Connect, Disconnect, Disconnected
<1>4. /\ ServiceTypes' /\ OneRequest' /\ getCb' = getCb
      /\ HasGet(answers') => HasGet(answers) /\ payload' = payload
  <2>1. CASE UNCHANGED <<service, payload>>
    BY <2>1, InvFacts, StillStep
  <2>2. CASE R!SetConfigSilently(MessageRates) /\ payload' = payload
    BY <2>2, InvFacts, SetConfigStep, MessageRatesType DEF R!SetOps
  <2>3. CASE R!Start
    BY <2>3, InvFacts, StartStep
  <2> QED BY <1>3, <2>1, <2>2, <2>3
<1>5. Control'
  BY <1>1, <1>2, InvFacts, ConstantFacts DEF Control, MaybeValues
<1>6. \A u \in Windows : PollStart(u)' /\ Applying(u)'
  BY <1>1, NotLoop, InvFacts
<1> QED BY <1>1, <1>4, <1>5, <1>6, QuietStep

LEMMA LoopDoneInv == ASSUME IInv, LoopDone PROVE IInv'
<1>1. /\ step = "loop" /\ turn' = 1 /\ step' = "pump"
      /\ \A part \in turn .. Sets(NumWindows) : ~Due(part)
      /\ UNCHANGED <<service, payload, config, thread, clicks, win, seen>>
  BY DEF LoopDone
<1>2. ServiceTypes' /\ OneRequest' /\ answers' = answers /\ getCb' = getCb
  BY <1>1, InvFacts, StillStep
<1>3. Control'
  BY <1>1, InvFacts, ConstantFacts DEF Control
<1>4. \A u \in Windows : PollStart(u)' /\ Applying(u)'
  <2> SUFFICES ASSUME NEW u \in Windows PROVE PollStart(u)' /\ Applying(u)'
    OBVIOUS
  <2> DEFINE end == Sets(NumWindows) + 1
  <2>1. /\ end \in Nat /\ end > Sets(u) /\ end > Polls(u) /\ turn \in Nat
        /\ end - 1 = Sets(NumWindows)
    BY InvFacts, ConstantFacts DEF Control, Sets, Polls, Windows
  <2> HIDE DEF end
  <2>2. \A earlier \in turn .. end - 1 : ~Due(earlier)
    BY <1>1, <2>1
  <2>3. win[u].poll # "INIT" /\ win[u].set # "START"
    <3>1. Polls(u) \in Nat /\ Sets(u) \in Nat
      BY Parts
    <3> QED BY <2>1, <2>2, <3>1, Passed, InvFacts
  <2> QED BY <1>1, <2>3 DEF PollStart, Applying
<1>5. HasGet(answers') => HasGet(answers) /\ payload' = payload
  BY <1>1, <1>2
<1> QED BY <1>1, <1>2, <1>3, <1>4, <1>5, QuietStep
-----------------------------------------------------------------------------
(* The loops                                                               *)

LEMMA AtFacts ==
    ASSUME IInv, NEW v \in Windows, NEW part \in {Polls(v), Sets(v)}, At(part)
    PROVE  /\ Control' /\ step = "loop" /\ step' = "loop" /\ turn <= part /\ turn' = part + 1
           /\ part \in Nat /\ turn \in Nat
           /\ UNCHANGED <<payload, config, thread, clicks>>
           /\ \A earlier \in turn .. part - 1 : ~Due(earlier)
<1>1. /\ step = "loop" /\ step' = "loop" /\ turn <= part /\ turn' = part + 1
      /\ UNCHANGED <<payload, config, thread, clicks>>
      /\ \A earlier \in turn .. part - 1 : ~Due(earlier)
  BY DEF At
<1>2. part \in Nat /\ part + 1 \in 1 .. 2 * NumWindows + 1
  BY Parts, ConstantFacts
<1>3. Control' /\ turn \in Nat
  BY <1>1, <1>2, InvFacts DEF Control
<1> QED BY <1>1, <1>2, <1>3

(* Setting: nothing that the polling needs changes                         *)
LEMMA SetPart ==
    ASSUME IInv, NEW v \in Windows, SetStart(v) \/ SetNotPossible(v) \/ SetDone(v)
    PROVE  IInv'
<1> DEFINE r == win'[v]
<1>1. At(Sets(v)) /\ UNCHANGED seen
  BY DEF SetStart, SetNotPossible, SetDone, AtSet
<1>2. win \in [Windows -> WindowType] /\ win[v] \in WindowType
  BY InvFacts
<1>3. PICK s \in {"IDLE", "WAIT"}, n \in MaybeValues :
        Change(v, [win[v] EXCEPT !.set = s, !.shown = n])
  <2>1. SetDone(v) => Change(v, [win[v] EXCEPT !.set = "IDLE", !.shown = win[v].shown])
    BY <1>2 DEF SetDone, Change, WindowType
  <2>2. NoValue \in MaybeValues /\ win[v].shown \in MaybeValues
    BY <1>2 DEF MaybeValues, WindowType
  <2>3. SetStart(v) => Change(v, [win[v] EXCEPT !.set = "WAIT", !.shown = NoValue])
    BY DEF SetStart
  <2>4. SetNotPossible(v) => Change(v, [win[v] EXCEPT !.set = "IDLE", !.shown = NoValue])
    BY DEF SetNotPossible
  <2> QED BY <2>1, <2>2, <2>3, <2>4
<1>4. /\ Change(v, r) /\ r \in WindowType /\ r.set # "START"
      /\ r.poll = win[v].poll /\ r.layerIx = win[v].layerIx /\ r.avail = win[v].avail
      /\ r.values = win[v].values /\ r.ref = win[v].ref /\ r.chValue = win[v].chValue
      /\ r.chReference = win[v].chReference /\ r.changes = win[v].changes /\ r.clean = win[v].clean
  <2> DEFINE o == [win[v] EXCEPT !.set = s, !.shown = n]
  <2>1. /\ o \in WindowType /\ o.set = s
        /\ o.poll = win[v].poll /\ o.layerIx = win[v].layerIx /\ o.avail = win[v].avail
        /\ o.values = win[v].values /\ o.ref = win[v].ref /\ o.chValue = win[v].chValue
        /\ o.chReference = win[v].chReference /\ o.changes = win[v].changes /\ o.clean = win[v].clean
    BY <1>2 DEF WindowType
  <2> HIDE DEF o
  <2>2. r = o
    BY <1>2, <1>3 DEF Change, o
  <2> QED BY <1>3, <2>1, <2>2 DEF o
<1>5. ServiceTypes' /\ OneRequest' /\ answers' = answers /\ getCb' = getCb
  <2>1. CASE UNCHANGED service
    BY <2>1, InvFacts, StillStep
  <2>2. CASE \E S \in StoreLayers, apply \in BOOLEAN :
            R!SetConfig(SetOp(S),
                [win |-> v, layers |-> S, value |-> win[v].changes, apply |-> apply])
          /\ win[v].changes # NoValue
    <3>1. PICK S \in StoreLayers, apply \in BOOLEAN :
            R!SetConfig(SetOp(S),
                [win |-> v, layers |-> S, value |-> win[v].changes, apply |-> apply])
      BY <2>2
    <3> DEFINE id == [win |-> v, layers |-> S, value |-> win[v].changes, apply |-> apply]
    <3>2. id \in SetRequest /\ id.win # 0
      BY <1>2, <2>2 DEF SetRequest, WindowType, MaybeValues, Windows
    <3> HIDE DEF id
    <3>3. R!SetConfig(SetOp(S), id) /\ SetOp(S) \in R!SetOps
      BY <3>1 DEF id, SetOp, R!SetOps
    <3> QED BY <3>2, <3>3, InvFacts, SetConfigStep
  <2> QED BY <2>1, <2>2 DEF SetStart, SetNotPossible, SetDone
<1> HIDE DEF r
<1>6. /\ Control' /\ turn' = Sets(v) + 1 /\ UNCHANGED <<payload, config>>
      /\ win[v].poll # "INIT"
  <2>1. /\ Control' /\ turn' = Sets(v) + 1 /\ UNCHANGED <<payload, config>>
        /\ turn \in Nat /\ Sets(v) \in Nat
        /\ \A earlier \in turn .. Sets(v) - 1 : ~Due(earlier)
    BY <1>1, AtFacts
  <2>2. win[v].poll # "INIT"
    BY <2>1, Passed, InvFacts, Parts
  <2> QED BY <2>1, <2>2
<1>7. win' \in [Windows -> WindowType] /\ win'[v] = r /\ \A u \in Windows \ {v} : win'[u] = win[u]
  BY <1>2, <1>4 DEF Change
<1>8. \A u \in Windows : Waiting(u)' = Waiting(u)
  BY <1>5 DEF Waiting
<1>9. Seen'
  <2>1. \A w \in Windows : win'[w].clean = win[w].clean /\ win'[w].poll = win[w].poll
    BY <1>4, <1>7
  <2>2. HasGet(answers') => HasGet(answers) /\ getCb' = getCb /\ payload' = payload
    BY <1>5, <1>6
  <2>3. HasGet(answers) => getCb \in GetRequest
    BY InvFacts
  <2> QED BY <1>1, <1>6, <1>7, <1>8, <2>1, <2>2, <2>3, SeenKept
<1>10. WindowInv(v)'
  <2>1. WindowInv(v)
    BY InvFacts
  <2>2. PollStart(v)' /\ PollEnd(v)' /\ Applying(v)'
    BY <1>4, <1>6, <1>7, <1>8, <2>1 DEF WindowInv, PollStart, PollEnd, Applying
  <2>3. Available(v)'
    <3>1. Reference(r) = Reference(win[v])
      BY <1>4 DEF Reference
    <3>2. UpdateChanges(r).changes = UpdateChanges(win[v]).changes
      BY <1>2, <1>4, UpdateFields
    <3> QED BY <1>4, <1>7, <1>8, <2>1, <3>1, <3>2 DEF WindowInv, Available
  <2>4. Clean(v)'
    BY <1>1, <1>4, <1>5, <1>7, <1>8, <2>1 DEF WindowInv, Clean
  <2> QED BY <2>2, <2>3, <2>4 DEF WindowInv
<1>11. Within(v)'
  BY <1>4, <1>7, <1>8, InvFacts DEF Within
<1>12. \A u \in Windows \ {v} : PollStart(u)' /\ Applying(u)'
  BY <1>1, <1>7, AtOthers, InvFacts
<1>13. \A u \in Windows \ {v} : Waiting(u)' => Waiting(u) /\ getCb' = getCb
  BY <1>5, <1>8
<1>14. seen' \in [Windows -> [Layers -> SUBSET MaybeValues]] /\ \A u \in Windows \ {v} : seen'[u] = seen[u]
  BY <1>1, InvFacts
<1> QED BY <1>4, <1>5, <1>6, <1>9, <1>10, <1>11, <1>12, <1>13, <1>14, OneWindow

(* Polling: the list of changes may only change when a load begins or ends *)
LEMMA PollPart ==
    ASSUME IInv, NEW v \in Windows, NEW r \in WindowType, AtPoll(v), Change(v, r),
           ServiceTypes', OneRequest', Seen',
           seen' \in [Windows -> [Layers -> SUBSET MaybeValues]],
           \A u \in Windows \ {v} : seen'[u] = seen[u],
           \A u \in Windows \ {v} : Waiting(u)' => Waiting(u) /\ getCb' = getCb,
           r.poll # "INIT", r.set = win[v].set, r.shown = win[v].shown,
           r.changes = win[v].changes \/ win[v].poll \in {"INIT", "DONE", "FAIL"},
           PollEnd(v)', Available(v)', Clean(v)', Within(v)'
    PROVE  IInv'
<1>1. At(Polls(v))
  BY DEF AtPoll
<1>2. /\ Control' /\ step = "loop" /\ step' = "loop" /\ turn <= Polls(v) /\ turn' = Polls(v) + 1
  BY <1>1, AtFacts
<1>3. win' = [win EXCEPT ![v] = r] /\ win \in [Windows -> WindowType]
  BY InvFacts DEF Change
<1>4. win'[v] = r /\ \A u \in Windows \ {v} : win'[u] = win[u]
  BY <1>3
<1>5. \A u \in Windows \ {v} : PollStart(u)' /\ Applying(u)'
  BY <1>1, <1>4, AtOthers, InvFacts
<1>6. PollStart(v)'
  BY <1>4 DEF PollStart
<1>7. Applying(v)'
  <2>1. turn' = Sets(v) /\ ~(turn' <= Polls(v)) /\ turn <= Sets(v) /\ Sets(v) \in Nat
    BY <1>2, Parts, InvFacts DEF Control
  <2>2. Applying(v)
    BY InvFacts DEF WindowInv
  <2>3. r.set = "START" /\ r.shown # NoValue => r.changes = r.shown
    BY <1>2, <2>2 DEF Applying
  <2> QED BY <1>2, <1>4, <2>1, <2>3 DEF Applying
<1>8. WindowInv(v)'
  BY <1>6, <1>7 DEF WindowInv
<1> QED BY <1>2, <1>5, <1>8, OneWindow

LEMMA PollInitInv == ASSUME IInv, NEW v \in Windows, PollInit(v) PROVE IInv'
<1> DEFINE o == [win[v] EXCEPT !.poll = "POLL", !.layerIx = 1, !.clean = ~Waiting(v)]
           r == DbClear(o)
<1>1. /\ AtPoll(v) /\ win[v].poll = "INIT" /\ Change(v, r) /\ UNCHANGED service
      /\ seen' = [seen EXCEPT ![v] = [l \in Layers |-> {config[l]}]]
  BY DEF PollInit
<1>2. win \in [Windows -> WindowType] /\ win[v] \in WindowType
  BY InvFacts
<1>3. /\ o \in WindowType /\ o.poll = "POLL" /\ o.layerIx = 1 /\ o.clean = ~Waiting(v)
      /\ o.set = win[v].set /\ o.shown = win[v].shown
  <2>1. 1 \in 1 .. Len(PollLayers) + 1
    BY ConstantFacts
  <2>2. (~Waiting(v)) \in BOOLEAN
    BY DEF Waiting
  <2> QED BY <1>2, <2>1, <2>2 DEF WindowType, PollStates
<1> HIDE DEF o
<1>4. /\ r \in WindowType /\ r.poll = "POLL" /\ r.layerIx = 1 /\ r.clean = ~Waiting(v)
      /\ r.set = win[v].set /\ r.shown = win[v].shown /\ r.avail = FALSE /\ r.values = Empty
  BY <1>3, ClearFields
<1> HIDE DEF r
<1>5. win' \in [Windows -> WindowType] /\ win'[v] = r /\ \A u \in Windows \ {v} : win'[u] = win[u]
  BY <1>1, <1>2, <1>4 DEF Change
<1>6. ServiceTypes' /\ OneRequest' /\ answers' = answers /\ getCb' = getCb
  BY <1>1, InvFacts, StillStep
<1>7. \A u \in Windows : Waiting(u)' = Waiting(u)
  BY <1>6 DEF Waiting
<1>8. config \in [Layers -> MaybeValues] /\ UNCHANGED <<config, payload>>
  BY <1>1, InvFacts DEF AtPoll, At, Control
<1>9. /\ seen' \in [Windows -> [Layers -> SUBSET MaybeValues]]
      /\ \A u \in Windows \ {v} : seen'[u] = seen[u]
      /\ seen'[v] = [l \in Layers |-> {config[l]}]
  BY <1>1, <1>8, InvFacts
<1>10. Seen'
  <2>1. ASSUME NEW w \in Windows, NEW l \in Layers, seen'[w][l] # {} PROVE config[l] \in seen'[w][l]
    <3>1. CASE w = v
      BY <1>9, <3>1
    <3>2. CASE w # v
      BY <1>9, <2>1, <3>2, InvFacts DEF Seen
    <3> QED BY <3>1, <3>2
  <2>2. ASSUME NEW w \in Windows, Waiting(w) \/ win'[w].poll \notin {"IDLE", "INIT"}, NEW l \in Layers
        PROVE  seen'[w][l] # {}
    <3>1. CASE w = v
      BY <1>9, <3>1
    <3>2. CASE w # v
      BY <1>5, <1>9, <2>2, <3>2, InvFacts DEF Seen
    <3> QED BY <3>1, <3>2
  <2>3. ASSUME HasGet(answers), win'[getCb.win].clean PROVE payload \in seen'[getCb.win][getCb.layer]
    <3>1. getCb \in GetRequest /\ getCb.win \in Windows /\ Waiting(getCb.win)
      BY <2>3, InvFacts, NoGet DEF GetRequest, Waiting
    <3>2. getCb.win # v
      BY <1>4, <1>5, <2>3, <3>1
    <3> QED BY <1>5, <1>9, <2>3, <3>1, <3>2, InvFacts DEF Seen
  <2> QED BY <1>6, <1>7, <1>8, <2>1, <2>2, <2>3 DEF Seen
<1>11. PollEnd(v)' /\ Available(v)' /\ Within(v)'
  BY <1>4, <1>5, ConstantFacts DEF PollEnd, Available, Within
<1>12. Clean(v)'
  <2> SUFFICES ASSUME ~Waiting(v) PROVE Clean(v)'
    BY <1>4, <1>5 DEF Clean
  <2>1. ~Waiting(v)' /\ win'[v].poll = "POLL" /\ win'[v].avail = FALSE
    BY <1>4, <1>5, <1>7
  <2>2. \A i \in 1 .. Len(PollLayers) : ~(i < 1) /\ win'[v].values[PollLayers[i]] = NoValue
    BY <1>4, <1>5, ConstantFacts, EmptyType
  <2> QED BY <1>4, <1>5, <2>1, <2>2 DEF Clean
<1>13. \A u \in Windows \ {v} : Waiting(u)' => Waiting(u) /\ getCb' = getCb
  BY <1>6, <1>7
<1> QED BY <1>1, <1>4, <1>6, <1>9, <1>10, <1>11, <1>12, <1>13, PollPart

LEMMA PollLayerInv == ASSUME IInv, NEW v \in Windows, PollLayer(v) PROVE IInv'
<1> DEFINE r == [win[v] EXCEPT !.poll = "WAIT"]
           id == [win |-> v, layer |-> PollLayers[win[v].layerIx]]
<1>1. /\ AtPoll(v) /\ win[v].poll = "POLL" /\ Change(v, r) /\ UNCHANGED seen
      /\ R!GetConfig(id) \/ (getCb # NoRequest /\ UNCHANGED service)
  BY DEF PollLayer
<1>2. win \in [Windows -> WindowType] /\ win[v] \in WindowType
  BY InvFacts
<1>3. /\ r \in WindowType /\ r.poll = "WAIT" /\ r.layerIx = win[v].layerIx
      /\ r.clean = win[v].clean /\ r.avail = win[v].avail /\ r.values = win[v].values
      /\ r.set = win[v].set /\ r.shown = win[v].shown /\ r.changes = win[v].changes
  BY <1>2 DEF WindowType, PollStates
<1> HIDE DEF r
<1>4. win' \in [Windows -> WindowType] /\ win'[v] = r /\ \A u \in Windows \ {v} : win'[u] = win[u]
  BY <1>1, <1>2, <1>3 DEF Change
<1>5. win[v].layerIx \in 1 .. Len(PollLayers)
  BY <1>1, <1>2, InvFacts, ConstantFacts DEF Within, WindowType
<1>6. id \in GetRequest /\ id.win = v /\ id.layer = PollLayers[win[v].layerIx]
  BY <1>5, ConstantFacts DEF GetRequest
<1> HIDE DEF id
<1>7. /\ ServiceTypes' /\ OneRequest' /\ answers' = answers
      /\ getCb' = getCb \/ (getCb' = id /\ ~HasGet(answers))
  BY <1>1, <1>6, InvFacts, StillStep, GetConfigStep
<1>8. UNCHANGED <<config, payload>>
  BY <1>1 DEF AtPoll, At
<1>9. \A u \in Windows \ {v} : Waiting(u)' => Waiting(u) /\ getCb' = getCb
  BY <1>6, <1>7 DEF Waiting
<1>10. WindowInv(v)
  BY InvFacts
<1>11. ~win[v].avail
  BY <1>1, <1>10 DEF WindowInv, Available
<1>12. Seen'
  <2>1. \A w \in Windows : win'[w].clean => win[w].clean
    BY <1>3, <1>4
  <2>2. \A w \in Windows : Waiting(w)' \/ win'[w].poll \notin {"IDLE", "INIT"} =>
                              Waiting(w) \/ win[w].poll \notin {"IDLE", "INIT"}
    BY <1>1, <1>4, <1>9
  <2>3. HasGet(answers') => HasGet(answers) /\ getCb' = getCb /\ payload' = payload
    BY <1>7, <1>8
  <2> QED BY <1>1, <1>4, <1>8, <2>1, <2>2, <2>3, InvFacts, SeenKept
<1>13. PollEnd(v)' /\ Available(v)' /\ Within(v)'
  BY <1>3, <1>4, <1>5, <1>11 DEF PollEnd, Available, Within
<1>14. Clean(v)'
  <2> SUFFICES ASSUME win[v].clean PROVE Clean(v)'
    BY <1>3, <1>4 DEF Clean
  <2>1. Waiting(v)' => getCb'.layer = PollLayers[win[v].layerIx]
    <3>1. ~Waiting(v)
      BY <1>1, <1>10 DEF WindowInv, Clean
    <3> QED BY <1>6, <1>7, <3>1 DEF Waiting
  <2> QED BY <1>1, <1>3, <1>4, <1>10, <1>11, <2>1 DEF WindowInv, Clean
<1>15. seen' \in [Windows -> [Layers -> SUBSET MaybeValues]] /\ \A u \in Windows \ {v} : seen'[u] = seen[u]
  BY <1>1, InvFacts
<1> QED BY <1>1, <1>3, <1>7, <1>9, <1>12, <1>13, <1>14, <1>15, PollPart

(* A load ends                                                             *)
LEMMA PollEndInv == ASSUME IInv, NEW v \in Windows, PollDone(v) \/ PollFail(v) PROVE IInv'
<1> DEFINE r == win'[v]
<1>1. /\ AtPoll(v) /\ win[v].poll \in {"DONE", "FAIL"} /\ UNCHANGED <<service, seen>>
  BY DEF PollDone, PollFail
<1>2. win \in [Windows -> WindowType] /\ win[v] \in WindowType /\ WindowInv(v)
  BY InvFacts
<1>3. /\ Change(v, r) /\ r \in WindowType /\ r.poll = "IDLE" /\ r.layerIx = win[v].layerIx
      /\ r.set = win[v].set /\ r.shown = win[v].shown /\ (r.clean => win[v].clean)
      /\ ~r.avail \/ /\ win[v].poll = "DONE" /\ r.values = win[v].values
                     /\ r.chReference = Reference(r)
                     /\ r.changes = UpdateChanges(r).changes
      /\ r.clean => win[v].poll = "DONE" /\ r.values = win[v].values
  <2>1. CASE PollDone(v)
    <3> DEFINE o == [win[v] EXCEPT !.poll = "IDLE", !.avail = TRUE]
    <3>1. /\ o \in WindowType /\ o.poll = "IDLE" /\ o.layerIx = win[v].layerIx
          /\ o.set = win[v].set /\ o.shown = win[v].shown /\ o.clean = win[v].clean
          /\ o.values = win[v].values
      BY <1>2 DEF WindowType, PollStates
    <3> HIDE DEF o
    <3> DEFINE c == ChSet(o)
    <3>2. /\ c \in WindowType /\ c.poll = "IDLE" /\ c.layerIx = win[v].layerIx
          /\ c.set = win[v].set /\ c.shown = win[v].shown /\ c.clean = win[v].clean
          /\ c.values = win[v].values /\ c.chReference = Reference(o)
          /\ c.ref = o.ref /\ c.values = o.values
      BY <3>1, ChSetFields
    <3> HIDE DEF c
    <3> DEFINE n == UpdateChanges(c)
    <3>3. /\ n \in WindowType /\ n.poll = "IDLE" /\ n.layerIx = win[v].layerIx
          /\ n.set = win[v].set /\ n.shown = win[v].shown /\ n.clean = win[v].clean
          /\ n.values = win[v].values /\ n.chReference = Reference(o)
          /\ n.ref = o.ref /\ n.values = o.values
          /\ n.changes = IF n.chValue # n.chReference THEN n.chValue ELSE NoValue
      BY <3>2, UpdateFields
    <3> HIDE DEF n
    <3>4. n.changes = UpdateChanges(n).changes
      BY <3>3, UpdateFields
    <3>5. n.chReference = Reference(n)
      BY <3>3 DEF Reference
    <3>6. Change(v, n) /\ win[v].poll = "DONE"
      BY <2>1 DEF PollDone, n, c, o
    <3>7. r = n
      BY <1>2, <3>6 DEF Change
    <3> QED BY <3>3, <3>4, <3>5, <3>6, <3>7
  <2>2. CASE PollFail(v)
    <3> DEFINE o == [win[v] EXCEPT !.poll = "IDLE", !.clean = FALSE]
               n == DbClear(o)
    <3>1. /\ o \in WindowType /\ o.poll = "IDLE" /\ o.layerIx = win[v].layerIx
          /\ o.set = win[v].set /\ o.shown = win[v].shown /\ o.clean = FALSE
      BY <1>2 DEF WindowType, PollStates
    <3> HIDE DEF o
    <3>2. /\ n \in WindowType /\ n.poll = "IDLE" /\ n.layerIx = win[v].layerIx
          /\ n.set = win[v].set /\ n.shown = win[v].shown /\ n.clean = FALSE /\ n.avail = FALSE
      BY <3>1, ClearFields
    <3> HIDE DEF n
    <3>3. Change(v, n)
      BY <2>2 DEF PollFail, n, o
    <3>4. r = n
      BY <1>2, <3>3 DEF Change
    <3> QED BY <3>2, <3>3, <3>4
  <2> QED BY <2>1, <2>2
<1> HIDE DEF r
<1>4. win' \in [Windows -> WindowType] /\ win'[v] = r /\ \A u \in Windows \ {v} : win'[u] = win[u]
  BY <1>2, <1>3 DEF Change
<1>5. ServiceTypes' /\ OneRequest' /\ answers' = answers /\ getCb' = getCb
  BY <1>1, InvFacts, StillStep
<1>6. \A u \in Windows : Waiting(u)' = Waiting(u)
  BY <1>5 DEF Waiting
<1>7. UNCHANGED <<config, payload>>
  BY <1>1 DEF AtPoll, At
<1>8. Seen'
  <2>1. \A w \in Windows : win'[w].clean => win[w].clean
    BY <1>3, <1>4
  <2>2. \A w \in Windows : Waiting(w)' \/ win'[w].poll \notin {"IDLE", "INIT"} =>
                              Waiting(w) \/ win[w].poll \notin {"IDLE", "INIT"}
    BY <1>3, <1>4, <1>6
  <2>3. HasGet(answers') => HasGet(answers) /\ getCb' = getCb /\ payload' = payload
    BY <1>5, <1>7
  <2> QED BY <1>1, <1>4, <1>7, <2>1, <2>2, <2>3, InvFacts, SeenKept
<1>9. PollEnd(v)' /\ Within(v)'
  BY <1>3, <1>4, <1>6, InvFacts DEF PollEnd, Within
<1>10. win[v].poll = "DONE" => ~Waiting(v)
  BY <1>2 DEF WindowInv, PollEnd
<1>11. Available(v)'
  BY <1>3, <1>4, <1>6, <1>10 DEF Available
<1>12. Clean(v)'
  BY <1>1, <1>2, <1>3, <1>4, <1>6, <1>10 DEF WindowInv, Clean
<1>13. seen' \in [Windows -> [Layers -> SUBSET MaybeValues]] /\ \A u \in Windows \ {v} : seen'[u] = seen[u]
  BY <1>1, InvFacts
<1>14. \A u \in Windows \ {v} : Waiting(u)' => Waiting(u) /\ getCb' = getCb
  BY <1>5, <1>6
<1>15. r.poll # "INIT"
  BY <1>3
<1> QED BY <1>1, <1>3, <1>5, <1>8, <1>9, <1>11, <1>12, <1>13, <1>14, <1>15, PollPart
-----------------------------------------------------------------------------
(* The answers                                                             *)

(* Outside of the loops only the window that changes matters               *)
LEMMA Outside ==
    ASSUME IInv, step # "loop", NEW v \in Windows, NEW r \in WindowType, Change(v, r),
           ServiceTypes', OneRequest', Control', UNCHANGED <<config, seen>>,
           HasGet(answers') => HasGet(answers) /\ getCb' = getCb /\ payload' = payload,
           getCb' = getCb \/ getCb' = NoRequest,
           r.clean => win[v].clean,
           r.poll \in {"IDLE", "INIT"} \/ win[v].poll \notin {"IDLE", "INIT"} \/ Waiting(v),
           WindowInv(v)', Within(v)'
    PROVE  IInv'
<1>1. win' = [win EXCEPT ![v] = r] /\ win \in [Windows -> WindowType]
  BY InvFacts DEF Change
<1>2. win' \in [Windows -> WindowType] /\ win'[v] = r /\ \A u \in Windows \ {v} : win'[u] = win[u]
  BY <1>1
<1>3. \A u \in Windows : Waiting(u)' => Waiting(u) /\ getCb' = getCb
  BY DEF Waiting
<1>4. Seen'
  <2>1. \A w \in Windows : win'[w].clean => win[w].clean
    BY <1>2
  <2>2. \A w \in Windows : Waiting(w)' \/ win'[w].poll \notin {"IDLE", "INIT"} =>
                              Waiting(w) \/ win[w].poll \notin {"IDLE", "INIT"}
    BY <1>2, <1>3
  <2> QED BY <1>2, <2>1, <2>2, InvFacts, SeenKept
<1>5. \A u \in Windows \ {v} : PollStart(u)' /\ Applying(u)'
  BY <1>2, NotLoop, InvFacts
<1>6. seen' \in [Windows -> [Layers -> SUBSET MaybeValues]] /\ \A u \in Windows \ {v} : seen'[u] = seen[u]
  BY InvFacts
<1>7. \A u \in Windows \ {v} : Waiting(u)' => Waiting(u) /\ getCb' = getCb
  BY <1>3
<1> QED BY <1>4, <1>5, <1>6, <1>7, OneWindow

LEMMA DeliverGetInv == ASSUME IInv, DeliverGet PROVE IInv'
<1> DEFINE r == DbSet(win[getCb.win], getCb.layer, payload)
<1>1. /\ step = "pump" /\ UNCHANGED <<step, turn, config, thread, clicks, seen>>
      /\ IsGet(Head(answers)) /\ R!Deliver /\ Change(getCb.win, r) /\ payload' = NoValue
  BY DEF DeliverGet, AtPump, IsGet
<1>2. /\ ServiceTypes' /\ OneRequest' /\ HasGet(answers) /\ ~HasGet(answers')
      /\ getCb \in GetRequest /\ getCb' = NoRequest
  BY <1>1, InvFacts, DeliverGetStep
<1>3. PICK v \in Windows, l \in Layers :
        v = getCb.win /\ l = getCb.layer /\ Waiting(v) /\ Change(v, r) /\ r = DbSet(win[v], l, payload)
  BY <1>1, <1>2, NoGet DEF GetRequest, Waiting
<1> HIDE DEF r
<1>4. win[v].clean => payload \in seen[v][l]
  BY <1>2, <1>3, InvFacts DEF Seen
<1>5. \A u \in Windows : ~Waiting(u)'
  BY <1>2 DEF Waiting
<1>6. win[v].clean => l = PollLayers[win[v].layerIx]
  BY <1>3, InvFacts DEF WindowInv, Clean
<1>7. payload \in MaybeValues
  BY InvFacts DEF Control
<1>8. /\ win \in [Windows -> WindowType] /\ win[v] \in WindowType /\ WindowInv(v)
      /\ win[v].layerIx <= Len(PollLayers)
  BY <1>3, InvFacts DEF Within
<1>9. win[v].layerIx \in 1 .. Len(PollLayers) /\ win[v].values \in [Layers -> MaybeValues]
  BY <1>8, ConstantFacts DEF WindowType
<1>10. ~win[v].avail /\ win[v].poll # "INIT" /\ win[v].set # "START"
  BY <1>1, <1>3, <1>8 DEF WindowInv, Available, PollStart, Applying
<1>11. win[v].clean => win[v].poll \in {"WAIT", "FAIL"}
  BY <1>3, <1>8, <1>10 DEF WindowInv, Clean
<1>12. /\ r \in WindowType
       /\ r.poll = IF win[v].layerIx < Len(PollLayers) THEN "POLL" ELSE "DONE"
       /\ r.layerIx = win[v].layerIx + 1 /\ r.avail = win[v].avail /\ r.set = win[v].set
       /\ r.values = [win[v].values EXCEPT ![l] = IF payload = NoValue THEN @ ELSE payload]
       /\ r.clean = win[v].clean
  BY <1>3, <1>7, <1>8, SetFields
<1>13. win'[v] = r
  BY <1>1, <1>3, <1>8 DEF Change
<1>14. Control'
  BY <1>1, InvFacts DEF Control, MaybeValues
<1>15. Within(v)' /\ PollEnd(v)' /\ PollStart(v)' /\ Available(v)' /\ Applying(v)'
  <2>1. /\ win'[v].poll = "POLL" => win'[v].layerIx <= Len(PollLayers)
        /\ win'[v].poll = "DONE" => win'[v].layerIx = Len(PollLayers) + 1
        /\ win'[v].poll # "INIT" /\ ~win'[v].avail /\ win'[v].set # "START"
    BY <1>9, <1>10, <1>12, <1>13, ConstantFacts
  <2>2. ~Waiting(v)'
    BY <1>3, <1>5
  <2>3. Within(v)' /\ PollEnd(v)'
    BY <2>1, <2>2 DEF Within, PollEnd
  <2>4. PollStart(v)' /\ Available(v)' /\ Applying(v)'
    BY <2>1 DEF PollStart, Available, Applying
  <2> QED BY <2>3, <2>4
<1>16. Clean(v)'
  <2>0. win'[v].clean = win[v].clean
    BY <1>12, <1>13
  <2> SUFFICES ASSUME win[v].clean PROVE Clean(v)'
    BY <2>0 DEF Clean
  <2>1. \A i \in 1 .. Len(PollLayers) :
            IF i < win[v].layerIx THEN win[v].values[PollLayers[i]] \in seen[v][PollLayers[i]]
                                  ELSE win[v].values[PollLayers[i]] = NoValue
    BY <1>8, <1>11 DEF WindowInv, Clean
  <2>2. \A i \in 1 .. Len(PollLayers) :
            IF i < r.layerIx THEN r.values[PollLayers[i]] \in seen[v][PollLayers[i]]
                             ELSE r.values[PollLayers[i]] = NoValue
    <3> SUFFICES ASSUME NEW i \in 1 .. Len(PollLayers)
                 PROVE  IF i < r.layerIx THEN r.values[PollLayers[i]] \in seen[v][PollLayers[i]]
                                         ELSE r.values[PollLayers[i]] = NoValue
      OBVIOUS
    <3>1. PollLayers[i] \in Layers
      BY ConstantFacts
    <3>2. CASE i = win[v].layerIx
      <4>1. PollLayers[i] = l /\ win[v].values[l] = NoValue
        BY <1>6, <2>1, <3>2
      <4>2. r.values[l] = payload
        BY <1>3, <1>9, <1>12, <4>1
      <4> QED BY <1>4, <1>9, <1>12, <3>2, <4>1, <4>2
    <3>3. CASE i # win[v].layerIx
      <4>1. PollLayers[i] # l
        BY <1>6, <1>9, <3>3, ConstantFacts
      <4>2. r.values[PollLayers[i]] = win[v].values[PollLayers[i]]
        BY <1>9, <1>12, <3>1, <4>1
      <4>3. i < r.layerIx <=> i < win[v].layerIx
        BY <1>9, <1>12, <3>3
      <4> QED BY <2>1, <4>2, <4>3
    <3> QED BY <3>2, <3>3
  <2>3. ASSUME r.poll = "DONE", NEW k \in Layers PROVE r.values[k] \in seen[v][k]
    <3>1. PICK i \in 1 .. Len(PollLayers) : PollLayers[i] = k
      BY ConstantFacts
    <3>2. i < r.layerIx
      BY <1>9, <1>12, <2>3, ConstantFacts
    <3> QED BY <2>2, <3>1, <3>2
  <2>4. ~Waiting(v)' /\ win'[v].poll \in {"POLL", "DONE"} /\ ~win'[v].avail /\ seen'[v] = seen[v]
    BY <1>1, <1>3, <1>5, <1>10, <1>12, <1>13
  <2>5. win'[v].poll # "DONE" => \A i \in 1 .. Len(PollLayers) :
            IF i < win'[v].layerIx THEN win'[v].values[PollLayers[i]] \in seen'[v][PollLayers[i]]
                                   ELSE win'[v].values[PollLayers[i]] = NoValue
    BY <1>13, <2>2, <2>4
  <2>6. win'[v].poll = "DONE" => \A k \in Layers : win'[v].values[k] \in seen'[v][k]
    BY <1>13, <2>3, <2>4
  <2> QED BY <2>4, <2>5, <2>6 DEF Clean
<1>17. WindowInv(v)'
  BY <1>15, <1>16 DEF WindowInv
<1> QED BY <1>1, <1>2, <1>3, <1>12, <1>14, <1>15, <1>17, Outside

(* A window whose polling goes on, begins anew, or has timed out           *)
LEMMA TouchedWindow ==
    ASSUME IInv, step # "loop", NEW v \in Windows, NEW r \in WindowType, win'[v] = r,
           UNCHANGED <<seen, turn>>, getCb' = getCb,
           r.layerIx = win[v].layerIx,
           r.clean => win[v].clean,
           \/ r.poll = win[v].poll
           \/ r.poll = "INIT" /\ step' = "loop"
           \/ r.poll = "FAIL" /\ win[v].poll = "WAIT",
           \/ r.values = win[v].values
           \/ ~r.avail /\ (r.clean => r.poll = "IDLE" /\ win[v].poll = "IDLE"),
           r.avail => /\ win[v].avail /\ r.chReference = Reference(r)
                      /\ r.changes = UpdateChanges(r).changes,
           r.set = "START" => /\ step' = "loop"
                              /\ r.shown # NoValue => /\ r.changes = r.shown
                                                      /\ r.poll \notin {"INIT", "DONE", "FAIL"}
    PROVE  WindowInv(v)' /\ Within(v)' /\ win[v].poll # "INIT"
<1>1. win[v] \in WindowType /\ WindowInv(v) /\ Within(v)
  BY InvFacts
<1>2. turn' = 1 /\ Polls(v) \in Nat /\ Polls(v) >= 1 /\ Sets(v) \in Nat /\ Sets(v) >= 1
  BY InvFacts, Parts DEF Control
<1>3. Waiting(v)' = Waiting(v) /\ seen'[v] = seen[v]
  BY DEF Waiting
<1>4. win[v].poll # "INIT"
  BY <1>1 DEF WindowInv, PollStart
<1>5. PollStart(v)'
  BY <1>1, <1>2, <1>4 DEF PollStart
<1>6. PollEnd(v)' /\ Within(v)'
  BY <1>1, <1>3 DEF WindowInv, PollEnd, Within
<1>7. Applying(v)'
  BY <1>1, <1>2 DEF Applying
<1>8. Available(v)'
  <2>1. win[v].avail => win[v].poll = "IDLE" /\ ~Waiting(v)
    BY <1>1, <1>4 DEF WindowInv, Available
  <2> QED BY <1>1, <1>3, <2>1 DEF Available
<1>9. Clean(v)'
  <2> SUFFICES ASSUME r.clean PROVE Clean(v)'
    BY <1>1 DEF Clean
  <2>1. win[v].clean
    OBVIOUS
  <2>2. Waiting(v)' => /\ r.poll \in {"INIT", "WAIT", "FAIL"}
                       /\ getCb'.layer = PollLayers[r.layerIx]
    BY <1>1, <1>3, <2>1 DEF WindowInv, Clean
  <2>3. r.poll \in {"POLL", "WAIT", "FAIL"} =>
             \A i \in 1 .. Len(PollLayers) :
                LET l == PollLayers[i]
                IN  IF i < r.layerIx THEN r.values[l] \in seen'[v][l] ELSE r.values[l] = NoValue
    BY <1>1, <1>3, <2>1 DEF WindowInv, Clean
  <2>4. r.poll = "DONE" \/ r.avail => \A l \in Layers : r.values[l] \in seen'[v][l]
    BY <1>1, <1>3, <2>1 DEF WindowInv, Clean
  <2> QED BY <1>1, <2>2, <2>3, <2>4 DEF Clean
<1>10. WindowInv(v)'
  BY <1>5, <1>6, <1>7, <1>8, <1>9 DEF WindowInv
<1> QED BY <1>4, <1>6, <1>10

LEMMA Touched ==
    ASSUME IInv, step # "loop", NEW v \in Windows, NEW r \in WindowType, Change(v, r),
           ServiceTypes', OneRequest', Control', UNCHANGED <<config, seen, turn>>,
           getCb' = getCb, HasGet(answers') => HasGet(answers) /\ payload' = payload,
           r.layerIx = win[v].layerIx,
           r.clean => win[v].clean,
           \/ r.poll = win[v].poll
           \/ r.poll = "INIT" /\ step' = "loop"
           \/ r.poll = "FAIL" /\ win[v].poll = "WAIT",
           \/ r.values = win[v].values
           \/ ~r.avail /\ (r.clean => r.poll = "IDLE" /\ win[v].poll = "IDLE"),
           r.avail => /\ win[v].avail /\ r.chReference = Reference(r)
                      /\ r.changes = UpdateChanges(r).changes,
           r.set = "START" => /\ step' = "loop"
                              /\ r.shown # NoValue => /\ r.changes = r.shown
                                                      /\ r.poll \notin {"INIT", "DONE", "FAIL"}
    PROVE  IInv'
<1>1. win'[v] = r
  BY InvFacts DEF Change
<1>2. WindowInv(v)' /\ Within(v)' /\ win[v].poll # "INIT"
  BY <1>1, TouchedWindow
<1>3. r.poll \in {"IDLE", "INIT"} \/ win[v].poll \notin {"IDLE", "INIT"} \/ Waiting(v)
  BY <1>2
<1> QED BY <1>2, <1>3, Outside

(* As long as the data does not change, the list of changes stays right    *)
LEMMA SameData ==
    ASSUME IInv, NEW v \in Windows, NEW r \in WindowType,
           r.values = win[v].values, r.ref = win[v].ref, r.chValue = win[v].chValue,
           r.chReference = win[v].chReference, r.changes = win[v].changes, r.avail = win[v].avail
    PROVE  r.avail => /\ win[v].avail /\ r.chReference = Reference(r)
                      /\ r.changes = UpdateChanges(r).changes
<1>1. WindowInv(v) /\ win[v] \in WindowType
  BY InvFacts
<1>2. Reference(r) = Reference(win[v])
  BY DEF Reference
<1>3. UpdateChanges(r).changes = UpdateChanges(win[v]).changes
  BY <1>1, UpdateFields
<1> QED BY <1>1, <1>2, <1>3 DEF WindowInv, Available

LEMMA DeliverSetInv == ASSUME IInv, DeliverSet PROVE IInv'
<1>1. /\ step = "pump" /\ UNCHANGED <<step, turn, config, thread, clicks, seen, payload>>
      /\ ~IsGet(Head(answers)) /\ R!Deliver
  BY DEF DeliverSet, AtPump, IsGet
<1>2. ServiceTypes' /\ OneRequest' /\ getCb' = getCb /\ (HasGet(answers') => HasGet(answers))
  BY <1>1, InvFacts, DeliverSetStep
<1>3. Control'
  BY <1>1, InvFacts DEF Control
<1>4. CASE setCb = NoRequest
  <2>1. UNCHANGED win
    BY <1>4 DEF DeliverSet
  <2>2. \A u \in Windows : PollStart(u)' /\ Applying(u)'
    BY <1>1, <2>1, NotLoop, InvFacts
  <2> QED BY <1>1, <1>2, <1>3, <2>1, <2>2, QuietStep
<1>5. CASE setCb # NoRequest
  <2>1. PICK v \in Windows : v = setCb.win
    BY <1>5, InvFacts DEF ServiceTypes, SetRequest, Windows
  <2> DEFINE r == [win[v] EXCEPT !.set = "DONE"]
  <2>2. Change(v, r) /\ win[v] \in WindowType
    BY <1>5, <2>1, InvFacts DEF DeliverSet
  <2>3. /\ r \in WindowType /\ r.layerIx = win[v].layerIx /\ r.clean = win[v].clean
        /\ r.poll = win[v].poll /\ r.values = win[v].values /\ r.ref = win[v].ref
        /\ r.chValue = win[v].chValue /\ r.chReference = win[v].chReference
        /\ r.changes = win[v].changes /\ r.avail = win[v].avail /\ r.set # "START"
    BY <2>2 DEF WindowType
  <2> HIDE DEF r
  <2>4. r.avail => /\ win[v].avail /\ r.chReference = Reference(r)
                   /\ r.changes = UpdateChanges(r).changes
    BY <2>3, SameData
  <2> QED BY <1>1, <1>2, <1>3, <2>2, <2>3, <2>4, Touched
<1> QED BY <1>4, <1>5

LEMMA TimeoutInv == ASSUME IInv, NEW v \in Windows, Timeout(v) PROVE IInv'
<1> DEFINE r == [win[v] EXCEPT !.poll = "FAIL"]
<1>1. /\ step = "pump" /\ UNCHANGED <<step, turn, config, thread, clicks, seen, service, payload>>
      /\ win[v].poll = "WAIT" /\ Change(v, r)
  BY DEF Timeout, AtPump
<1>2. ServiceTypes' /\ OneRequest' /\ answers' = answers /\ getCb' = getCb
  BY <1>1, InvFacts, StillStep
<1>3. Control'
  BY <1>1, InvFacts DEF Control
<1>4. win[v] \in WindowType /\ win[v].set # "START"
  BY <1>1, InvFacts DEF WindowInv, Applying
<1>5. /\ r \in WindowType /\ r.layerIx = win[v].layerIx /\ r.clean = win[v].clean
      /\ r.poll = "FAIL" /\ r.values = win[v].values /\ r.ref = win[v].ref
      /\ r.chValue = win[v].chValue /\ r.chReference = win[v].chReference
      /\ r.changes = win[v].changes /\ r.avail = win[v].avail /\ r.set # "START"
  BY <1>4 DEF WindowType, PollStates
<1> HIDE DEF r
<1>6. r.avail => /\ win[v].avail /\ r.chReference = Reference(r)
                 /\ r.changes = UpdateChanges(r).changes
  BY <1>5, SameData
<1> QED BY <1>1, <1>2, <1>3, <1>5, <1>6, Touched
-----------------------------------------------------------------------------
(* The user                                                                *)

LEMMA UserStep ==
    ASSUME IInv, NEW v \in Windows, NEW r \in WindowType, Change(v, r), UNCHANGED seen,
           ClickWindow \/ (step = "draw" /\ Drawn /\ UNCHANGED <<service, clicks>>),
           r.layerIx = win[v].layerIx,
           r.clean => win[v].clean,
           r.poll = win[v].poll \/ r.poll = "INIT",
           \/ r.values = win[v].values
           \/ ~r.avail /\ (r.clean => r.poll = "IDLE" /\ win[v].poll = "IDLE"),
           r.avail => /\ win[v].avail /\ r.chReference = Reference(r)
                      /\ r.changes = UpdateChanges(r).changes,
           r.set # win[v].set /\ r.shown # NoValue =>
                /\ r.changes = r.shown
                /\ r.poll \notin {"INIT", "DONE", "FAIL"}
    PROVE  IInv'
<1>1. /\ step = "draw" /\ step' = "loop" /\ UNCHANGED <<service, payload, config, thread, turn>>
      /\ clicks' = clicks \/ (clicks < MaxClicks /\ clicks' = clicks + 1)
  BY DEF ClickWindow, Click, Drawn
<1>2. ServiceTypes' /\ OneRequest' /\ answers' = answers /\ getCb' = getCb
  BY <1>1, InvFacts, StillStep
<1>3. Control'
  BY <1>1, InvFacts, ConstantFacts DEF Control
<1>4. win[v].set # "START"
  BY <1>1, InvFacts DEF WindowInv, Applying
<1>5. r.set = "START" => /\ step' = "loop"
                         /\ r.shown # NoValue => /\ r.changes = r.shown
                                                 /\ r.poll \notin {"INIT", "DONE", "FAIL"}
  BY <1>1, <1>4
<1> QED BY <1>1, <1>2, <1>3, <1>5, Touched

LEMMA LoadInv == ASSUME IInv, NEW v \in Windows, Load(v) PROVE IInv'
<1> DEFINE r == [win[v] EXCEPT !.poll = "INIT"]
<1>1. ClickWindow /\ Change(v, r) /\ UNCHANGED seen
  BY DEF Load
<1>2. /\ r \in WindowType /\ r.layerIx = win[v].layerIx /\ r.clean = win[v].clean
      /\ r.poll = "INIT" /\ r.values = win[v].values /\ r.ref = win[v].ref
      /\ r.chValue = win[v].chValue /\ r.chReference = win[v].chReference
      /\ r.changes = win[v].changes /\ r.avail = win[v].avail /\ r.set = win[v].set
  BY InvFacts DEF WindowType, PollStates
<1> HIDE DEF r
<1>3. r.avail => /\ win[v].avail /\ r.chReference = Reference(r)
                 /\ r.changes = UpdateChanges(r).changes
  BY <1>2, SameData
<1> QED BY <1>1, <1>2, <1>3, UserStep

LEMMA ClearInv == ASSUME IInv, NEW v \in Windows, Clear(v) PROVE IInv'
<1> DEFINE r == DbClear(win[v])
<1>1. ClickWindow /\ Change(v, r) /\ UNCHANGED seen /\ win[v].avail /\ step = "draw"
  BY DEF Clear, ClickWindow, Click
<1>2. win[v].poll = "IDLE"
  BY <1>1, InvFacts DEF WindowInv, Available, PollStart
<1>3. /\ r \in WindowType /\ r.layerIx = win[v].layerIx /\ r.clean = win[v].clean
      /\ r.poll = win[v].poll /\ r.avail = FALSE /\ r.set = win[v].set
  BY InvFacts, ClearFields
<1> HIDE DEF r
<1> QED BY <1>1, <1>2, <1>3, UserStep

LEMMA UpdatedData ==
    ASSUME NEW r \in WindowType
    PROVE  UpdateChanges(r).changes = UpdateChanges(UpdateChanges(r)).changes
<1>1. UpdateChanges(r) \in WindowType
  BY UpdateFields
<1> QED BY <1>1, UpdateFields

(* The value, the reference layer or the list is changed                   *)
LEMMA EditInv ==
    ASSUME IInv, NEW v \in Windows, Refer(v) \/ Discard(v) \/ Edit(v) \/ ShowItems(v)
    PROVE  IInv'
<1>1. win[v] \in WindowType
  BY InvFacts
<1>2. win[v].avail => win[v].chReference = Reference(win[v])
  BY InvFacts DEF WindowInv, Available
<1>3. PICK o \in WindowType :
        /\ Change(v, UpdateChanges(o))
        /\ o.layerIx = win[v].layerIx /\ o.clean = win[v].clean /\ o.poll = win[v].poll
        /\ o.values = win[v].values /\ o.avail = win[v].avail /\ o.set = win[v].set
        /\ o.avail => o.chReference = Reference(o)
  <2>1. CASE Refer(v)
    <3> DEFINE s == [win[v] EXCEPT !.ref = IF @ = "DEFAULT" THEN "CURRENT" ELSE "DEFAULT"]
               o == [s EXCEPT !.chReference = Reference(s)]
    <3>1. /\ s \in WindowType
          /\ s.layerIx = win[v].layerIx /\ s.clean = win[v].clean /\ s.poll = win[v].poll
          /\ s.values = win[v].values /\ s.avail = win[v].avail /\ s.set = win[v].set
      BY <1>1 DEF WindowType
    <3>2. Change(v, UpdateChanges(o))
      BY <2>1 DEF Refer
    <3> HIDE DEF s
    <3>3. Reference(s) \in Values
      BY <3>1, ReferenceType
    <3>4. /\ o \in WindowType /\ o.ref = s.ref /\ o.chReference = Reference(s)
          /\ o.layerIx = s.layerIx /\ o.clean = s.clean /\ o.poll = s.poll
          /\ o.values = s.values /\ o.avail = s.avail /\ o.set = s.set
      BY <3>1, <3>3 DEF WindowType
    <3> HIDE DEF o
    <3>5. Reference(o) = Reference(s)
      BY <3>4 DEF Reference
    <3> QED BY <3>1, <3>2, <3>4, <3>5
  <2>2. ASSUME NEW value \in Values, Change(v, UpdateChanges([win[v] EXCEPT !.chValue = value]))
        PROVE  \E o \in WindowType :
                  /\ Change(v, UpdateChanges(o))
                  /\ o.layerIx = win[v].layerIx /\ o.clean = win[v].clean /\ o.poll = win[v].poll
                  /\ o.values = win[v].values /\ o.avail = win[v].avail /\ o.set = win[v].set
                  /\ o.avail => o.chReference = Reference(o)
    <3> DEFINE o == [win[v] EXCEPT !.chValue = value]
    <3>1. /\ o \in WindowType /\ o.ref = win[v].ref /\ o.chReference = win[v].chReference
          /\ o.layerIx = win[v].layerIx /\ o.clean = win[v].clean /\ o.poll = win[v].poll
          /\ o.values = win[v].values /\ o.avail = win[v].avail /\ o.set = win[v].set
      BY <1>1 DEF WindowType
    <3>2. Change(v, UpdateChanges(o))
      BY <2>2
    <3> HIDE DEF o
    <3>3. Reference(o) = Reference(win[v])
      BY <3>1 DEF Reference
    <3> QED BY <1>2, <3>1, <3>2, <3>3
  <2>3. CASE Discard(v)
    <3>1. /\ win[v].chReference \in Values
          /\ Change(v, UpdateChanges([win[v] EXCEPT !.chValue = win[v].chReference]))
      BY <1>1, <2>3 DEF Discard, WindowType
    <3> QED BY <2>2, <3>1
  <2>4. CASE Edit(v)
    <3>1. PICK value \in Values : Change(v, UpdateChanges([win[v] EXCEPT !.chValue = value]))
      BY <2>4 DEF Edit
    <3> QED BY <2>2, <3>1
  <2>5. CASE ShowItems(v)
    <3>1. Change(v, UpdateChanges(win[v]))
      BY <2>5 DEF ShowItems
    <3> QED BY <1>1, <1>2, <3>1
  <2> QED BY <2>1, <2>3, <2>4, <2>5
<1> DEFINE r == UpdateChanges(o)
<1>4. /\ r \in WindowType /\ Change(v, r)
      /\ r.layerIx = win[v].layerIx /\ r.clean = win[v].clean /\ r.poll = win[v].poll
      /\ r.values = win[v].values /\ r.avail = win[v].avail /\ r.set = win[v].set
      /\ r.chReference = o.chReference /\ r.ref = o.ref /\ r.values = o.values
  BY <1>3, UpdateFields
<1>5. r.changes = UpdateChanges(r).changes
  BY UpdatedData
<1> HIDE DEF r
<1>6. Reference(r) = Reference(o)
  BY <1>4 DEF Reference
<1>7. UNCHANGED seen /\ (ClickWindow \/ (step = "draw" /\ Drawn /\ UNCHANGED <<service, clicks>>))
  BY DEF Refer, Discard, Edit, ShowItems
<1>8. r.avail => /\ win[v].avail /\ r.chReference = Reference(r)
                 /\ r.changes = UpdateChanges(r).changes
  BY <1>3, <1>4, <1>5, <1>6
<1> QED BY <1>4, <1>7, <1>8, UserStep

LEMMA ApplyInv == ASSUME IInv, NEW v \in Windows, Apply(v) PROVE IInv'
<1> DEFINE n == IF win[v].poll \in {"DONE", "FAIL"} THEN NoValue ELSE win[v].changes
           r == [win[v] EXCEPT !.set = "START", !.shown = n]
<1>1. ClickWindow /\ Change(v, r) /\ UNCHANGED seen /\ step = "draw"
  BY DEF Apply, ClickWindow, Click
<1>2. win[v] \in WindowType /\ win[v].poll # "INIT"
  BY <1>1, InvFacts DEF WindowInv, PollStart
<1>3. n \in MaybeValues
  BY <1>2 DEF WindowType, MaybeValues
<1>4. n # NoValue => n = win[v].changes /\ win[v].poll \notin {"DONE", "FAIL"}
  OBVIOUS
<1> HIDE DEF n
<1>5. /\ r \in WindowType /\ r.layerIx = win[v].layerIx /\ r.clean = win[v].clean
      /\ r.poll = win[v].poll /\ r.values = win[v].values /\ r.ref = win[v].ref
      /\ r.chValue = win[v].chValue /\ r.chReference = win[v].chReference
      /\ r.changes = win[v].changes /\ r.avail = win[v].avail /\ r.shown = n
  BY <1>2, <1>3 DEF WindowType
<1> HIDE DEF r
<1>6. r.avail => /\ win[v].avail /\ r.chReference = Reference(r)
                 /\ r.changes = UpdateChanges(r).changes
  BY <1>5, SameData
<1> QED BY <1>1, <1>2, <1>4, <1>5, <1>6, UserStep

LEMMA ClearedFields ==
    ASSUME NEW o \in WindowType
    PROVE  LET r == Cleared(o)
           IN  /\ r \in WindowType /\ r.layerIx = o.layerIx
               /\ r.poll = o.poll /\ r.avail = FALSE /\ r.set = o.set
               /\ r.clean => o.clean /\ o.poll = "IDLE"
<1> DEFINE c == DbClear(o)
           s == ChSet(c)
           r == [s EXCEPT !.clean = @ /\ o.poll = "IDLE"]
<1>1. /\ c \in WindowType /\ c.layerIx = o.layerIx /\ c.clean = o.clean
      /\ c.poll = o.poll /\ c.avail = FALSE /\ c.set = o.set
  BY ClearFields
<1>2. Cleared(o) = r
  BY DEF Cleared
<1> HIDE DEF c
<1>3. /\ s \in WindowType /\ s.layerIx = o.layerIx /\ s.clean = o.clean
      /\ s.poll = o.poll /\ s.avail = FALSE /\ s.set = o.set
  BY <1>1, ChSetFields
<1> HIDE DEF s
<1>4. /\ r \in WindowType /\ r.layerIx = o.layerIx
      /\ r.poll = o.poll /\ r.avail = FALSE /\ r.set = o.set
      /\ r.clean => o.clean /\ o.poll = "IDLE"
  BY <1>3 DEF WindowType
<1> QED BY <1>2, <1>4

LEMMA ClearAllInv == ASSUME IInv, NEW v \in Windows, ClearAll(v) PROVE IInv'
<1> DEFINE r == Cleared(win[v])
<1>1. ClickWindow /\ Change(v, r) /\ UNCHANGED seen
  BY DEF ClearAll
<1>2. /\ r \in WindowType /\ r.layerIx = win[v].layerIx
      /\ r.poll = win[v].poll /\ r.avail = FALSE /\ r.set = win[v].set
      /\ r.clean => win[v].clean /\ win[v].poll = "IDLE"
  BY InvFacts, ClearedFields
<1> HIDE DEF r
<1> QED BY <1>1, <1>2, UserStep

(* Every window changes in this step                                       *)
LEMMA ClearWindowsInv == ASSUME IInv, ClearWindows PROVE IInv'
<1>1. /\ step = "draw" /\ step' = "loop"
      /\ UNCHANGED <<service, payload, config, thread, turn, seen>>
      /\ clicks < MaxClicks /\ clicks' = clicks + 1
      /\ win' = [w \in Windows |-> Cleared(win[w])]
  BY DEF ClearWindows, ClickWindow, Click, Drawn
<1>2. ServiceTypes' /\ OneRequest' /\ answers' = answers /\ getCb' = getCb
  BY <1>1, InvFacts, StillStep
<1>3. Control'
  BY <1>1, InvFacts, ConstantFacts DEF Control
<1>4. ASSUME NEW v \in Windows
      PROVE  /\ win'[v] \in WindowType /\ win'[v].poll = win[v].poll /\ (win'[v].clean => win[v].clean)
             /\ WindowInv(v)' /\ Within(v)'
  <2> DEFINE r == Cleared(win[v])
  <2>1. /\ r \in WindowType /\ r.layerIx = win[v].layerIx
        /\ r.poll = win[v].poll /\ r.avail = FALSE /\ r.set = win[v].set
        /\ r.clean => win[v].clean /\ win[v].poll = "IDLE"
    BY InvFacts, ClearedFields
  <2>2. win'[v] = r
    BY <1>1
  <2> HIDE DEF r
  <2>3. r.set # "START"
    BY <1>1, <2>1, InvFacts DEF WindowInv, Applying
  <2>4. WindowInv(v)' /\ Within(v)'
    BY <1>1, <1>2, <2>1, <2>2, <2>3, TouchedWindow
  <2> QED BY <2>1, <2>2, <2>4
<1>5. win' \in [Windows -> WindowType] /\ seen' \in [Windows -> [Layers -> SUBSET MaybeValues]]
  <2>1. \A w \in Windows : Cleared(win[w]) \in WindowType
    BY <1>1, <1>4
  <2> QED BY <1>1, <2>1, InvFacts
<1>6. \A w \in Windows : Waiting(w)' = Waiting(w)
  BY <1>2 DEF Waiting
<1>7. Seen'
  <2>1. \A w \in Windows : win'[w].clean => win[w].clean
    BY <1>4
  <2>2. \A w \in Windows : Waiting(w)' \/ win'[w].poll \notin {"IDLE", "INIT"} =>
                              Waiting(w) \/ win[w].poll \notin {"IDLE", "INIT"}
    BY <1>4, <1>6
  <2>3. HasGet(answers') => HasGet(answers) /\ getCb' = getCb /\ payload' = payload
    BY <1>1, <1>2
  <2> QED BY <1>1, <1>5, <2>1, <2>2, <2>3, InvFacts, SeenKept
<1>8. \A w \in Windows : WindowInv(w)' /\ Within(w)'
  BY <1>4
<1>9. TypeOK'
  BY <1>2, <1>3, <1>5, <1>8, TypesNext
<1> QED BY <1>2, <1>3, <1>7, <1>8, <1>9 DEF IInv
-----------------------------------------------------------------------------
(* The theorems                                                            *)

LEMMA NextInv == ASSUME IInv, Next PROVE IInv'
<1>1. ASSUME NEW w \in Windows, Loop(w) PROVE IInv'
  BY <1>1, PollInitInv, PollLayerInv, PollEndInv, SetPart DEF Loop
<1>2. ASSUME NEW w \in Windows, User(w) PROVE IInv'
  BY <1>2, LoadInv, ClearInv, EditInv, ApplyInv, ClearAllInv DEF User
<1>3. CASE Main
  BY <1>1, <1>2, <1>3, LoopDoneInv, DeliverGetInv, DeliverSetInv, ClearWindowsInv, MainQuiet DEF Main
<1>4. CASE Thread
  BY <1>4, ThreadQuiet, CompleteGetInv, CompleteSetInv DEF Thread
<1>5. CASE \E w \in Windows : Timeout(w)
  BY <1>5, TimeoutInv
<1> QED BY <1>3, <1>4, <1>5 DEF Next

LEMMA StutterInv == ASSUME IInv, UNCHANGED vars PROVE IInv'
<1>1. UNCHANGED <<service, payload, config, thread, step, turn, clicks, win, seen>>
  BY DEF vars
<1>2. ServiceTypes' /\ OneRequest' /\ answers' = answers /\ getCb' = getCb
  BY <1>1, InvFacts, StillStep
<1>3. Control'
  BY <1>1, InvFacts DEF Control
<1>4. \A u \in Windows : PollStart(u)' /\ Applying(u)'
  BY <1>1, ThreadControl
<1>5. HasGet(answers') => HasGet(answers) /\ payload' = payload
  BY <1>1, <1>2
<1> QED BY <1>1, <1>2, <1>3, <1>4, <1>5, QuietStep

LEMMA Inductive == Spec => []IInv
<1>1. IInv /\ [Next]_vars => IInv'
  BY NextInv, StutterInv
<1> QED BY InitInv, <1>1, PTL DEF Spec

(* The variables have their types, and a window never asks for a layer     *)
(* beyond the last one.                                                    *)
THEOREM TypeCorrect == Spec => []TypeOK
<1>1. IInv => TypeOK
  BY DEF IInv
<1> QED BY <1>1, Inductive, PTL

(* With a clean load the values that a window shows were in the receiver.  *)
THEOREM LoadedValuesReal == Spec => []LoadedIsReal
<1>1. IInv => LoadedIsReal
  BY DEF IInv, WindowInv, Clean, LoadedIsReal
<1> QED BY <1>1, Inductive, PTL

(* The list of changes is right whenever there is data, and what is        *)
(* applied is what was shown.                                              *)
THEOREM ChangesAlwaysShown == Spec => []ChangesShown
<1>1. ASSUME IInv, NEW w \in Windows
      PROVE  LET r == win[w]
             IN  /\ r.avail => r.changes = IF r.chValue # Reference(r) THEN r.chValue ELSE NoValue
                 /\ r.set = "START" /\ r.shown # NoValue => r.changes = r.shown
  <2>1. WindowInv(w) /\ win[w] \in WindowType
    BY <1>1, InvFacts
  <2>2. UpdateChanges(win[w]).changes =
            IF win[w].chValue # win[w].chReference THEN win[w].chValue ELSE NoValue
    BY <2>1, UpdateFields
  <2> QED BY <2>1, <2>2 DEF WindowInv, Available, Applying
<1>2. IInv => ChangesShown
  BY <1>1 DEF ChangesShown
<1> QED BY <1>2, Inductive, PTL
=============================================================================
