---------------------------- MODULE RxSetConfig ----------------------------
(***************************************************************************)
(* ff_rx.c: rxSetConfig() splits a list of key-value pairs into            *)
(* UBX-CFG-VALSET messages, with ubxKeyValToUbxCfgValset(), and sends one   *)
(* after the other with rxSendUbxCfg(), each when the last has been        *)
(* acknowledged. A caller makes several such calls over a link that delays *)
(* and loses messages. The link and the receiver are not in src/: they are *)
(* what this code expects of them.                                         *)
(***************************************************************************)
EXTENDS Naturals, Sequences, FiniteSets, SequencesExt

CONSTANTS
    Keys,
    Calls,      \* for each call the sequence of keys that it sets
    UBX_CFG_VALSET_V1_MAX_KV, UBX_CFG_VALSET_MSG_MAX

ASSUME SetConfigAssumption ==
    /\ Calls \in Seq(Seq(Keys))
    /\ \A c \in 1 .. Len(Calls) : IsInjective(Calls[c])
    /\ UBX_CFG_VALSET_V1_MAX_KV \in Nat \ {0}
    /\ UBX_CFG_VALSET_MSG_MAX \in Nat \ {0}

VARIABLES
    pc,         \* in rxSetConfig(): before a message, or waiting for the answer
    call,       \* the current (or the last) call; also the value that it sets
    ix,         \* the current message of it
    requests, answers,      \* the link: on the way to the receiver, and from it
    config,     \* the receiver: for each key the call that set it, or 0
    staged,     \* the receiver: what the open transaction sets
    results,    \* history: what the calls returned
    misled      \* history: the calls that took the answer to an earlier message

NoTransaction == [k \in {} |-> 0]

host == <<pc, call, ix, results, misled>>
receiver == <<config, staged>>
vars == <<host, receiver, requests, answers>>
-----------------------------------------------------------------------------
(* ubxKeyValToUbxCfgValset()                                               *)

NumMsgs(nKv) ==
    nKv \div UBX_CFG_VALSET_V1_MAX_KV + (IF nKv % UBX_CFG_VALSET_V1_MAX_KV # 0 THEN 1 ELSE 0)

Items(kv, msgIx) ==
    SubSeq(kv, (msgIx - 1) * UBX_CFG_VALSET_V1_MAX_KV + 1,
               Min({msgIx * UBX_CFG_VALSET_V1_MAX_KV, Len(kv)}))

(* Fault: each message on its own                                          *)
TransactionFault(msgIx, nMsgs) == "NONE"

Transaction(msgIx, nMsgs) ==
    CASE nMsgs = 1              -> "NONE"
      [] nMsgs > 1 /\ msgIx = 1 -> "BEGIN"
      [] OTHER                  -> "CONTINUE"

(* Fault: no message that ends the transaction                             *)
ValsetFault(kv) ==
    LET nMsgs == NumMsgs(Len(kv))
    IN  [i \in 1 .. nMsgs |->
            [kv |-> Items(kv, i), transaction |-> Transaction(i, nMsgs)]]

(* The messages, with an empty one to end a transaction                    *)
Valset(kv) ==
    LET nMsgs == NumMsgs(Len(kv))
        end == [kv |-> <<>>, transaction |-> "END"]
    IN  [i \in 1 .. nMsgs |->
            [kv |-> Items(kv, i), transaction |-> Transaction(i, nMsgs)]]
        \o (IF nMsgs > 1 THEN <<end>> ELSE <<>>)

TooMany(kv) == NumMsgs(Len(kv)) > UBX_CFG_VALSET_MSG_MAX - 1

Msgs == Valset(Calls[call])
-----------------------------------------------------------------------------
Init ==
    /\ pc = "idle" /\ call = 0 /\ ix = 0
    /\ requests = <<>> /\ answers = <<>>
    /\ config = [k \in Keys |-> 0] /\ staged = NoTransaction
    /\ results = <<>> /\ misled = {}

(* The receiver applies a message, or rejects it and the transaction. The  *)
(* pairs in the last message of a transaction are ignored.                 *)
Answer(q, ack) == answers' = Append(answers, [ack |-> ack, call |-> q.call, ix |-> q.ix])

Values(q) == [k \in Range(q.kv) |-> q.call]

(* f, and g where f is not defined                                         *)
Over(f, g) == [k \in DOMAIN f \cup DOMAIN g |-> IF k \in DOMAIN f THEN f[k] ELSE g[k]]

Apply ==
    /\ requests # <<>> /\ requests' = Tail(requests)
    /\ LET q == Head(requests)
       IN  /\ Answer(q, TRUE)
           /\ \/ /\ q.transaction = "NONE"
                 /\ config' = Over(Values(q), config) /\ staged' = NoTransaction
              \/ /\ q.transaction = "BEGIN"
                 /\ staged' = Values(q) /\ UNCHANGED config
              \/ /\ q.transaction = "CONTINUE" /\ staged # NoTransaction
                 /\ staged' = Over(Values(q), staged) /\ UNCHANGED config
              \/ /\ q.transaction = "END" /\ staged # NoTransaction
                 /\ config' = Over(staged, config) /\ staged' = NoTransaction
    /\ UNCHANGED host

Reject ==
    /\ requests # <<>> /\ requests' = Tail(requests)
    /\ Answer(Head(requests), FALSE)
    /\ staged' = NoTransaction
    /\ UNCHANGED <<host, config>>

LoseRequest ==
    /\ requests # <<>> /\ requests' = Tail(requests)
    /\ UNCHANGED <<host, receiver, answers>>

LoseAnswer ==
    /\ answers # <<>> /\ answers' = Tail(answers)
    /\ UNCHANGED <<host, receiver, requests>>
-----------------------------------------------------------------------------
Return(ok) == pc' = "idle" /\ results' = Append(results, ok)

(* rxSetConfig() begins; it fails if there are too many pairs. Without a   *)
(* pair it has nothing to do and succeeds.                                 *)
Begin ==
    /\ pc = "idle" /\ call < Len(Calls)
    /\ call' = call + 1 /\ ix' = 1
    /\ LET kv == Calls[call']
       IN  IF TooMany(kv) \/ kv = <<>>
           THEN Return(~TooMany(kv))
           ELSE pc' = "send" /\ UNCHANGED results
    /\ UNCHANGED <<receiver, requests, answers, misled>>

(* Between two calls the caller reads, and drops, what comes in             *)
Pump ==
    /\ pc = "idle" /\ answers # <<>> /\ answers' = Tail(answers)
    /\ UNCHANGED <<host, receiver, requests>>

(* rxSendUbxCfg() sends the message; the port may fail                      *)
Send ==
    /\ pc = "send"
    /\ \/ /\ requests' = Append(requests, [kv |-> Msgs[ix].kv, call |-> call, ix |-> ix,
                                           transaction |-> Msgs[ix].transaction])
          /\ pc' = "wait" /\ UNCHANGED results
       \/ Return(FALSE) /\ UNCHANGED requests
    /\ UNCHANGED <<receiver, call, ix, answers, misled>>

(* No answer in time                                                        *)
Timeout ==
    /\ pc = "wait"
    /\ Return(FALSE)
    /\ UNCHANGED <<receiver, call, ix, requests, answers, misled>>

(* UBX-ACK-ACK or UBX-ACK-NAK: it has the class and id of the message that  *)
(* it answers, and those are the same for all of these messages.            *)
Recv ==
    /\ pc = "wait" /\ answers # <<>> /\ answers' = Tail(answers)
    /\ LET a == Head(answers)
       IN  /\ misled' = IF a.call # call \/ a.ix # ix THEN misled \cup {call} ELSE misled
           /\ IF a.ack /\ ix < Len(Msgs)
              THEN pc' = "send" /\ ix' = ix + 1 /\ UNCHANGED results
              ELSE Return(a.ack) /\ UNCHANGED ix
    /\ UNCHANGED <<receiver, call, requests>>

Host == Begin \/ Send \/ Timeout \/ Recv

Next == Host \/ Pump \/ Apply \/ Reject \/ LoseRequest \/ LoseAnswer

Spec == Init /\ [][Next]_vars
-----------------------------------------------------------------------------
(* Type invariant; a call never has more messages than there is room for.  *)
TypeOK ==
    /\ pc \in {"idle", "send", "wait"}
    /\ call \in 0 .. Len(Calls) /\ ix \in 0 .. UBX_CFG_VALSET_MSG_MAX
    /\ requests \in Seq([kv : Seq(Keys), call : 1 .. Len(Calls), ix : Nat \ {0},
                         transaction : {"NONE", "BEGIN", "CONTINUE", "END"}])
    /\ answers \in Seq([ack : BOOLEAN, call : 1 .. Len(Calls), ix : Nat \ {0}])
    /\ config \in [Keys -> 0 .. Len(Calls)]
    /\ \E K \in SUBSET Keys : staged \in [K -> 1 .. Len(Calls)]
    /\ results \in Seq(BOOLEAN) /\ misled \subseteq 1 .. Len(Calls)

(* When rxSetConfig() has returned true the receiver has all its values,    *)
(* unless the call took a late answer to an earlier message for its own.    *)
SetConfigExact ==
    LET c == Len(results)
    IN  pc = "idle" /\ c > 0 /\ c \notin misled =>
            (results[c] => \A k \in Range(Calls[c]) : config[k] = c)

(* Lost messages, rejected messages, abandoned calls: the receiver never    *)
(* has some of a call's values but not all, as long as no call was misled.  *)
AllOrNothing ==
    misled = {} =>
        \A k \in Keys : config[k] # 0 =>
            \A other \in Range(Calls[config[k]]) : config[other] >= config[k]
=============================================================================
