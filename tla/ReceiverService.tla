-------------------------- MODULE ReceiverService --------------------------
(***************************************************************************)
(* What InputReceiver promises to the windows that get and set the         *)
(* configuration: one request of each kind at a time, executed in order by *)
(* a thread, and an answer for the callback of the request it belongs to.  *)
(* But a SetConfig() that names no layer, here SETNONE, is never answered:  *)
(* the thread dies of it. InputReceiver implements this service, and       *)
(* ConfigWindow is built on it.                                            *)
(***************************************************************************)
EXTENDS Sequences

CONSTANTS Requests, NoRequest

VARIABLES
    link,           \* _state: IDLE, BUSY, READY
    commands,       \* the requests in the command queue
    executing,      \* the one the thread executes
    answers,        \* the answers in the event queue
    getCb, setCb,   \* the request whose callback is set
    silent          \* there was a SetConfig() without a callback

service == <<link, commands, executing, answers, getCb, setCb, silent>>

Nothing == [op |-> "NOOP", id |-> NoRequest]
SetOps == {"SETCONFIG", "SETNONE"}

Init ==
    /\ link = "IDLE" /\ commands = <<>> /\ executing = Nothing /\ answers = <<>>
    /\ getCb = NoRequest /\ setCb = NoRequest /\ silent = FALSE

Send(op, id) ==
    /\ commands' = Append(commands, [op |-> op, id |-> id])
    /\ UNCHANGED <<link, executing, answers>>

(* GetConfig(), SetConfig() when there is no callback yet; else they do nothing *)
GetConfig(id) ==
    /\ getCb = NoRequest /\ getCb' = id
    /\ Send("GETCONFIG", id)
    /\ UNCHANGED <<setCb, silent>>

SetConfig(op, id) ==
    /\ setCb = NoRequest /\ setCb' = id
    /\ Send(op, id)
    /\ UNCHANGED <<getCb, silent>>

SetConfigSilently(id) ==
    /\ setCb = NoRequest /\ silent' = TRUE
    /\ Send("SETCONFIG", id)
    /\ UNCHANGED <<getCb, setCb>>

(* The thread                                                              *)
Execute ==
    /\ link # "IDLE" /\ executing = Nothing
    /\ commands # <<>> /\ Head(commands).op # "SETNONE"
    /\ executing' = Head(commands) /\ commands' = Tail(commands)
    /\ link' = "BUSY"
    /\ UNCHANGED <<answers, getCb, setCb, silent>>

(* It throws: the request is lost, while its callback remains set          *)
Abandon ==
    /\ link # "IDLE" /\ executing = Nothing
    /\ commands # <<>> /\ Head(commands).op = "SETNONE"
    /\ commands' = Tail(commands)
    /\ link' = "BUSY"
    /\ UNCHANGED <<executing, answers, getCb, setCb, silent>>

Complete ==
    /\ executing # Nothing
    /\ answers' = Append(answers, executing) /\ executing' = Nothing
    /\ link' = "READY"
    /\ UNCHANGED <<commands, getCb, setCb, silent>>

(* The answer to GetConfig() finds the callback of its own request; so does *)
(* that to SetConfig(), or none, unless a call came without a callback.    *)
Deliver ==
    /\ answers # <<>> /\ answers' = Tail(answers)
    /\ LET answer == Head(answers)
       IN  \/ /\ answer.op = "GETCONFIG" /\ getCb = answer.id
              /\ getCb' = NoRequest /\ UNCHANGED setCb
           \/ /\ answer.op = "SETCONFIG" /\ (setCb \in {answer.id, NoRequest} \/ silent)
              /\ setCb' = NoRequest /\ UNCHANGED getCb
    /\ UNCHANGED <<link, commands, executing, silent>>

(* Start(): what was queued is forgotten, the callbacks are not            *)
Start ==
    /\ link = "IDLE" /\ executing = Nothing
    /\ commands' = <<>> /\ answers' = <<>>
    /\ UNCHANGED <<link, executing, getCb, setCb, silent>>

(* Connecting, disconnecting, and the other commands                       *)
LinkChange ==
    /\ executing = Nothing
    /\ link' \in {"IDLE", "BUSY", "READY"}
    /\ UNCHANGED <<commands, executing, answers, getCb, setCb, silent>>

Next ==
    \/ \E id \in Requests :
          GetConfig(id) \/ SetConfigSilently(id) \/ \E op \in SetOps : SetConfig(op, id)
    \/ Execute \/ Abandon \/ Complete \/ Deliver \/ Start \/ LinkChange

Spec == Init /\ [][Next]_service
=============================================================================
