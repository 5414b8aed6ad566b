---------------------------- MODULE RxGetConfig ----------------------------
(***************************************************************************)
(* ff_rx.c: rxGetConfig() polls one page of a configuration layer after    *)
(* the other with rxPollUbx(), over a link that delays and loses messages. *)
(* A caller polls several layers in turn. The link and the receiver are    *)
(* not in src/: they are what this code expects of them.                   *)
(***************************************************************************)
EXTENDS Naturals, Sequences, FiniteSets, SequencesExt

CONSTANTS
    Calls,      \* the layers that the caller polls, in this order
    Config,     \* what the receiver has: for each layer a sequence of items
    UBX_CFG_VALGET_V1_MAX_KV,
    Retries, MaxKv

Layers == {"RAM", "BBR", "FLASH", "DEFAULT"}
MayBeEmpty == {"BBR", "FLASH"}

ASSUME GetConfigAssumption ==
    /\ Calls \in Seq(Layers)
    /\ \A l \in Layers : Config[l] \in Seq(Range(Config[l])) /\ IsInjective(Config[l])
    /\ \A l \in Layers \ MayBeEmpty : Config[l] # <<>>
    /\ UBX_CFG_VALGET_V1_MAX_KV \in Nat \ {0}
    /\ Retries \in Nat \ {0} /\ MaxKv \in Nat \ {0}

VARIABLES
    pc,         \* in rxGetConfig(): before a poll, or waiting for its answer
    call,       \* the current (or the last) call
    position, attempt, kv,
    requests, answers,      \* the link: on the way to the receiver, and from it
    results,    \* history: what the calls returned
    noData      \* history: the calls that got a NAK or an empty page for an answer

host == <<pc, call, position, attempt, kv, results>>
vars == <<host, requests, answers, noData>>

Layer == Calls[call]

Init ==
    /\ pc = "idle" /\ call = 0 /\ position = 0 /\ attempt = 0 /\ kv = <<>>
    /\ requests = <<>> /\ answers = <<>>
    /\ results = <<>> /\ noData = {}
-----------------------------------------------------------------------------
(* The receiver and the link                                               *)

Page(items, pos) ==
    SubSeq(items, pos + 1, Min({pos + UBX_CFG_VALGET_V1_MAX_KV, Len(items)}))

(* The answer to a request; NAK, or an empty page, when there is nothing    *)
Respond ==
    /\ requests # <<>>
    /\ LET q == Head(requests)
           page == Page(Config[q.layer], q.pos)
           valget == [type |-> "VALGET", layer |-> q.layer, pos |-> q.pos, kv |-> page]
           nak == [type |-> "NAK", layer |-> q.layer, pos |-> q.pos, kv |-> <<>>]
       IN  /\ \/ answers' = Append(answers, valget)
              \/ page = <<>> /\ answers' = Append(answers, nak)
           /\ noData' = IF page = <<>> THEN noData \cup {q.call} ELSE noData
    /\ requests' = Tail(requests)
    /\ UNCHANGED host

LoseRequest ==
    /\ requests # <<>> /\ requests' = Tail(requests)
    /\ UNCHANGED <<host, answers, noData>>

LoseAnswer ==
    /\ answers # <<>> /\ answers' = Tail(answers)
    /\ UNCHANGED <<host, requests, noData>>
-----------------------------------------------------------------------------
(* rxGetConfig() begins                                                     *)
Begin ==
    /\ pc = "idle" /\ call < Len(Calls)
    /\ call' = call + 1
    /\ position' = 0 /\ attempt' = 1 /\ kv' = <<>>
    /\ pc' = "send"
    /\ UNCHANGED <<requests, answers, results, noData>>

(* rxPollUbx() sends the request                                            *)
Send ==
    /\ pc = "send"
    /\ requests' = Append(requests, [layer |-> Layer, pos |-> position, call |-> call])
    /\ pc' = "wait"
    /\ UNCHANGED <<call, position, attempt, kv, answers, results, noData>>

Return(ok, items) ==
    /\ results' = Append(results, [layer |-> Layer, ok |-> ok, kv |-> items])
    /\ pc' = "idle"

(* Faults: the next poll is not another attempt; retries for ever           *)
TimeoutFault ==
    /\ pc = "wait"
    /\ attempt' = attempt
    /\ pc' = "send"
    /\ UNCHANGED <<call, position, kv, requests, answers, results, noData>>

(* rxPollUbx() times out, as it may at any time: the answer can be late     *)
Timeout ==
    /\ pc = "wait"
    /\ IF attempt < Retries
       THEN attempt' = attempt + 1 /\ pc' = "send" /\ UNCHANGED results
       ELSE attempt' = attempt /\ Return(FALSE, kv)
    /\ UNCHANGED <<call, position, kv, requests, answers, noData>>

(* rxPollUbx() takes any NAK of a VALGET for its answer: no data in layer   *)
RecvNak ==
    /\ pc = "wait" /\ answers # <<>> /\ Head(answers).type = "NAK"
    /\ answers' = Tail(answers)
    /\ Return(TRUE, kv)
    /\ UNCHANGED <<call, position, attempt, kv, requests, noData>>

(* A message with no items: the end, or an unexpected lack of data          *)
RecvEmpty ==
    /\ pc = "wait" /\ answers # <<>>
    /\ Head(answers).type = "VALGET" /\ Head(answers).kv = <<>>
    /\ answers' = Tail(answers)
    /\ Return(position > 0 \/ Layer \in MayBeEmpty, kv)
    /\ UNCHANGED <<call, position, attempt, kv, requests, noData>>

(* Faults: the position, or the layer, of the answer is not checked         *)
ExpectedFault1(a) == a.layer = Layer

ExpectedFault2(a) == a.pos = position

Expected(a) == a.pos = position /\ a.layer = Layer

RecvUnexpected ==
    /\ pc = "wait" /\ answers # <<>>
    /\ Head(answers).type = "VALGET" /\ Head(answers).kv # <<>>
    /\ ~Expected(Head(answers))
    /\ answers' = Tail(answers)
    /\ Return(FALSE, kv)
    /\ UNCHANGED <<call, position, attempt, kv, requests, noData>>

(* A page: it was the last one if it is not full. Then the check for space. *)
RecvPage ==
    /\ pc = "wait" /\ answers # <<>>
    /\ Head(answers).type = "VALGET" /\ Head(answers).kv # <<>>
    /\ Expected(Head(answers))
    /\ answers' = Tail(answers)
    /\ kv' = kv \o Head(answers).kv
    /\ LET done == Len(Head(answers).kv) < UBX_CFG_VALGET_V1_MAX_KV
       IN  /\ position' = IF done THEN position ELSE position + UBX_CFG_VALGET_V1_MAX_KV
           /\ IF Len(kv') + UBX_CFG_VALGET_V1_MAX_KV > MaxKv
              THEN Return(FALSE, kv') /\ UNCHANGED attempt
              ELSE IF done
              THEN Return(TRUE, kv') /\ UNCHANGED attempt
              ELSE attempt' = 1 /\ pc' = "send" /\ UNCHANGED results
    /\ UNCHANGED <<call, requests, noData>>

Host ==
    \/ Begin \/ Send \/ Timeout \/ RecvNak \/ RecvEmpty \/ RecvUnexpected \/ RecvPage

Next == Host \/ Respond \/ LoseRequest \/ LoseAnswer

Spec == Init /\ [][Next]_vars

(* Time passes; the link and the receiver need not do anything             *)
FairSpec == Spec /\ WF_vars(Host)
-----------------------------------------------------------------------------
AllItems == UNION {Range(Config[l]) : l \in Layers}

(* Type invariant; never more items than the caller's array has room for.  *)
TypeOK ==
    /\ pc \in {"idle", "send", "wait"}
    /\ call \in 0 .. Len(Calls) /\ position \in Nat /\ attempt \in 0 .. Retries
    /\ kv \in Seq(AllItems) /\ (MaxKv >= UBX_CFG_VALGET_V1_MAX_KV => Len(kv) <= MaxKv)
    /\ requests \in Seq([layer : Layers, pos : Nat, call : 1 .. Len(Calls)])
    /\ answers \in Seq([type : {"VALGET", "NAK"}, layer : Layers, pos : Nat,
                        kv : Seq(AllItems)])
    /\ results \in Seq([layer : Layers, ok : BOOLEAN, kv : Seq(AllItems)])
    /\ noData \subseteq 1 .. Len(Calls)

(* Whatever is lost, late, or answered twice after a retry: what has been  *)
(* collected is the start of this layer's list, nothing twice, no gap.     *)
CollectsPrefix ==
    /\ pc # "idle" => IsPrefix(kv, Config[Layer]) /\ Len(kv) = position
    /\ \A i \in 1 .. Len(results) : IsPrefix(results[i].kv, Config[results[i].layer])

(* A call that succeeds has got all of the layer, unless the receiver had  *)
(* no data to send for an earlier call: those answers are not told apart.  *)
ExactUnlessNoData ==
    \A i \in 1 .. Len(results) :
        results[i].ok => \/ results[i].kv = Config[results[i].layer]
                         \/ \E j \in noData : j < i

(* Every call returns, even if the receiver never answers.                 *)
GetConfigReturns == pc # "idle" ~> pc = "idle"
=============================================================================
