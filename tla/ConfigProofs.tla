---------------------------- MODULE ConfigProofs ----------------------------
(***************************************************************************)
(* Theorems about the configuration of a receiver.                         *)
(* RxGetConfig: for any layers, page size, number of attempts and room in  *)
(* the caller's array, over a link that loses and delays, what is collected*)
(* is the start of the layer, it fits, and it is all of it if the call     *)
(* succeeds, unless a layer had no data.                                   *)
(* Cfg2rx: for any items, values, defaults, files and arguments, success   *)
(* means that the receiver has the file, whatever fails on the way.        *)
(***************************************************************************)
EXTENDS RxGetConfig, Cfg2rx, SequenceTheorems, TLAPS

MAX == UBX_CFG_VALGET_V1_MAX_KV

LEMMA ConstantFacts ==
    /\ MAX \in Nat /\ MAX > 0 /\ Retries \in Nat /\ Retries > 0 /\ MaxKv \in Nat
    /\ Calls \in Seq(Layers) /\ Len(Calls) \in Nat
    /\ \A l \in Layers : Config[l] \in Seq(AllItems) /\ Len(Config[l]) \in Nat
<1>1. \A l \in Layers : Config[l] \in Seq(Range(Config[l])) /\ Range(Config[l]) \subseteq AllItems
  BY GetConfigAssumption DEF AllItems
<1>2. \A l \in Layers : Config[l] \in Seq(AllItems)
  BY <1>1, SeqMonotonic
<1> QED BY <1>2, GetConfigAssumption DEF MAX

(* A page of a layer                                                       *)
LEMMA PageIs ==
    ASSUME NEW l \in Layers, NEW p \in Nat
    PROVE  /\ Page(Config[l], p) \in Seq(AllItems)
           /\ Len(Page(Config[l], p)) =
                IF p >= Len(Config[l]) THEN 0
                ELSE IF p + MAX <= Len(Config[l]) THEN MAX ELSE Len(Config[l]) - p
           /\ \A n \in 1..Len(Page(Config[l], p)) : Page(Config[l], p)[n] = Config[l][p + n]
<1> DEFINE s == Config[l]
           e == IF p + MAX <= Len(s) THEN p + MAX ELSE Len(s)
<1>1. s \in Seq(AllItems) /\ Len(s) \in Nat /\ MAX \in Nat /\ MAX > 0
  BY ConstantFacts
<1>2. Min({p + MAX, Len(s)}) = e
  <2>1. p + MAX \in Nat /\ Len(s) \in Nat
    BY <1>1
  <2>2. \A x, y \in Nat : Min({x, y}) = IF x <= y THEN x ELSE y
    <3> SUFFICES ASSUME NEW x \in Nat, NEW y \in Nat PROVE Min({x, y}) = IF x <= y THEN x ELSE y
      OBVIOUS
    <3> DEFINE z == IF x <= y THEN x ELSE y
    <3>1. z \in {x, y} /\ \A v \in {x, y} : z =< v
      OBVIOUS
    <3>2. \A w \in {x, y} : (\A v \in {x, y} : w =< v) => w = z
      OBVIOUS
    <3> QED BY <3>1, <3>2 DEF Min
  <2> QED BY <2>1, <2>2
<1>3. Page(s, p) = SubSeq(s, p + 1, e)
  BY <1>2 DEF Page, MAX
<1>4. \A n \in p + 1..e : s[n] \in AllItems
  BY <1>1
<1>5. p + 1 \in Int /\ e \in Int
  BY <1>1
<1> HIDE DEF e, s
<1>6. /\ SubSeq(s, p + 1, e) \in Seq(AllItems)
      /\ Len(SubSeq(s, p + 1, e)) = IF p + 1 <= e THEN e - (p + 1) + 1 ELSE 0
      /\ \A n \in 1..e - (p + 1) + 1 : SubSeq(s, p + 1, e)[n] = s[p + 1 + n - 1]
  BY <1>4, <1>5, SubSeqProperties
<1> QED BY <1>1, <1>3, <1>6 DEF e, s

LEMMA PrefixIs ==
    ASSUME NEW S, NEW s \in Seq(S), NEW t \in Seq(S)
    PROVE  IsPrefix(s, t) <=> Len(s) <= Len(t) /\ \A n \in 1..Len(s) : s[n] = t[n]
<1>1. SubSeq(s, 1, Len(s)) = s
  BY SubSeqFull
<1>2. ASSUME Len(s) <= Len(t)
      PROVE  /\ SubSeq(t, 1, Len(s)) \in Seq(S)
             /\ Len(SubSeq(t, 1, Len(s))) = Len(s)
             /\ \A n \in 1..Len(s) : SubSeq(t, 1, Len(s))[n] = t[n]
  <2>1. \A n \in 1..Len(s) : t[n] \in S
    BY <1>2
  <2> QED BY <1>2, <2>1, SubSeqProperties
<1> QED BY <1>1, <1>2, SeqEqual DEF IsPrefix

(* The start of a layer, and all of it                                     *)
StartOf(l, s) == Len(s) <= Len(Config[l]) /\ \A n \in 1..Len(s) : s[n] = Config[l][n]

LEMMA AllOfIt ==
    ASSUME NEW l \in Layers, NEW s \in Seq(AllItems), StartOf(l, s), Len(s) >= Len(Config[l])
    PROVE  s = Config[l]
BY ConstantFacts, SeqEqual DEF StartOf
-----------------------------------------------------------------------------
(* What is on the link. An answer without items is explained: the receiver
   had no data for an earlier call, or for this one, which then is complete *)
Explained == \E c \in noData : c < call \/ (c = call /\ Len(Config[Layer]) <= position)

OnLink ==
    /\ \A i \in 1..Len(requests) :
        /\ requests[i].call <= call
        /\ requests[i].call = call => requests[i].layer = Layer /\ requests[i].pos <= position
    /\ \A i \in 1..Len(answers) :
        /\ answers[i].kv # <<>> => answers[i].kv = Page(Config[answers[i].layer], answers[i].pos)
        /\ answers[i].type = "NAK" => answers[i].kv = <<>>
        /\ answers[i].kv = <<>> => Explained

(* What is collected by a call, and what calls returned                    *)
Collected ==
    pc # "idle" =>
        /\ call > 0
        /\ StartOf(Layer, kv) /\ Len(kv) = position
        /\ MaxKv >= MAX => Len(kv) + MAX <= MaxKv

Good(i, r) ==
    /\ StartOf(r.layer, r.kv)
    /\ r.ok => r.kv = Config[r.layer] \/ \E j \in noData : j < i

Returned ==
    /\ Len(results) = IF pc = "idle" THEN call ELSE call - 1
    /\ \A i \in 1..Len(results) : Good(i, results[i])

IInv == TypeOK /\ OnLink /\ Collected /\ Returned

LEMMA InitInv == Init => IInv
<1> SUFFICES ASSUME Init PROVE IInv
  OBVIOUS
<1> USE DEF Init
<1>1. TypeOK
  BY ConstantFacts DEF TypeOK
<1> QED BY <1>1 DEF IInv, OnLink, Collected, Returned

LEMMA LayerIs == ASSUME TypeOK, call > 0 PROVE Layer \in Layers
BY ConstantFacts DEF TypeOK, Layer

(* Sequences of what is on the link                                        *)
LEMMA TailIs ==
    ASSUME NEW S, NEW s \in Seq(S), s # <<>>
    PROVE  /\ Head(s) \in S /\ Head(s) = s[1] /\ 1 \in 1..Len(s)
           /\ Tail(s) \in Seq(S)
           /\ \A i \in 1..Len(Tail(s)) : Tail(s)[i] = s[i + 1] /\ i + 1 \in 1..Len(s)
BY HeadTailProperties

LEMMA AppendIs ==
    ASSUME NEW S, NEW s \in Seq(S), NEW e \in S
    PROVE  /\ Append(s, e) \in Seq(S) /\ Len(Append(s, e)) = Len(s) + 1
           /\ \A i \in 1..Len(s) + 1 : Append(s, e)[i] = IF i = Len(s) + 1 THEN e ELSE s[i]
           /\ \A i \in 1..Len(s) + 1 : i = Len(s) + 1 \/ i \in 1..Len(s)
OBVIOUS

Requests == [layer : Layers, pos : Nat, call : 1 .. Len(Calls)]
Answers == [type : {"VALGET", "NAK"}, layer : Layers, pos : Nat, kv : Seq(AllItems)]
-----------------------------------------------------------------------------
(* The receiver and the link                                               *)
LEMMA RespondInv == ASSUME IInv, Respond PROVE IInv'
<1> USE DEF IInv
<1> DEFINE q == Head(requests)
           page == Page(Config[q.layer], q.pos)
<1>1. /\ requests # <<>> /\ requests' = Tail(requests)
      /\ UNCHANGED <<pc, call, position, attempt, kv, results>>
      /\ noData' = IF page = <<>> THEN noData \cup {q.call} ELSE noData
  BY DEF Respond, host
<1>2. PICK a : /\ answers' = Append(answers, a)
               /\ a = [type |-> a.type, layer |-> q.layer, pos |-> q.pos, kv |-> page]
               /\ a.type \in {"VALGET", "NAK"} /\ (a.type = "NAK" => page = <<>>)
  <2>1. CASE answers' = Append(answers, [type |-> "VALGET", layer |-> q.layer, pos |-> q.pos, kv |-> page])
    <3> WITNESS [type |-> "VALGET", layer |-> q.layer, pos |-> q.pos, kv |-> page]
    <3> QED BY <2>1
  <2>2. CASE page = <<>> /\ answers' = Append(answers, [type |-> "NAK", layer |-> q.layer, pos |-> q.pos, kv |-> <<>>])
    <3> WITNESS [type |-> "NAK", layer |-> q.layer, pos |-> q.pos, kv |-> page]
    <3> QED BY <2>2
  <2> QED BY <2>1, <2>2 DEF Respond
<1>3. requests \in Seq(Requests) /\ answers \in Seq(Answers)
  BY DEF TypeOK, Requests, Answers
<1>4. /\ q \in Requests /\ q = requests[1] /\ 1 \in 1..Len(requests)
      /\ requests' \in Seq(Requests)
      /\ \A i \in 1..Len(requests') : requests'[i] = requests[i + 1] /\ i + 1 \in 1..Len(requests)
  BY <1>1, <1>3, TailIs
<1>5. q.layer \in Layers /\ q.pos \in Nat /\ q.call \in 1..Len(Calls) /\ q.call <= call
      /\ (q.call = call => q.layer = Layer /\ q.pos <= position)
  BY <1>4 DEF Requests, OnLink
<1>6. page \in Seq(AllItems) /\ Len(page) = IF q.pos >= Len(Config[q.layer]) THEN 0
                ELSE IF q.pos + MAX <= Len(Config[q.layer]) THEN MAX ELSE Len(Config[q.layer]) - q.pos
  BY <1>5, PageIs
<1> HIDE DEF q, page
<1>7. a \in Answers /\ a.kv = page /\ a.layer = q.layer /\ a.pos = q.pos
  BY <1>2, <1>5, <1>6 DEF Answers
<1>8. noData \subseteq noData' /\ noData' \subseteq 1..Len(Calls)
  BY <1>1, <1>5 DEF TypeOK
<1>9. /\ answers' \in Seq(Answers) /\ Len(answers') = Len(answers) + 1
      /\ \A i \in 1..Len(answers) + 1 :
            answers'[i] = (IF i = Len(answers) + 1 THEN a ELSE answers[i]) /\ (i = Len(answers) + 1 \/ i \in 1..Len(answers))
  BY <1>2, <1>3, <1>7, AppendIs
<1>10. TypeOK'
  BY <1>1, <1>4, <1>8, <1>9 DEF TypeOK, Requests, Answers
<1>11. Explained => Explained'
  BY <1>1, <1>8 DEF Explained, Layer
<1>12. page = <<>> => Explained'
  <2> SUFFICES ASSUME page = <<>> PROVE Explained'
    OBVIOUS
  <2>1. q.call \in noData' /\ Len(Config[q.layer]) <= q.pos
    BY <1>1, <1>5, <1>6, ConstantFacts
  <2>2. q.call < call \/ (q.call = call /\ Len(Config[Layer]) <= position)
    BY <1>5, <2>1, ConstantFacts DEF TypeOK
  <2> QED BY <1>1, <2>1, <2>2 DEF Explained, Layer
<1>13. OnLink'
  <2>1. \A i \in 1..Len(requests') :
            /\ requests'[i].call <= call
            /\ requests'[i].call = call => requests'[i].layer = Layer /\ requests'[i].pos <= position
    BY <1>4 DEF OnLink
  <2>2. \A i \in 1..Len(answers') :
            /\ answers'[i].kv # <<>> => answers'[i].kv = Page(Config[answers'[i].layer], answers'[i].pos)
            /\ answers'[i].type = "NAK" => answers'[i].kv = <<>>
            /\ answers'[i].kv = <<>> => Explained'
    <3>1. a.kv = Page(Config[a.layer], a.pos) /\ (a.type = "NAK" => a.kv = <<>>) /\ (a.kv = <<>> => Explained')
      BY <1>2, <1>7, <1>12 DEF page
    <3> QED BY <1>9, <1>11, <3>1 DEF OnLink
  <2> QED BY <1>1, <2>1, <2>2 DEF OnLink, Layer
<1>14. Collected' /\ Returned'
  BY <1>1, <1>8 DEF Collected, Returned, Good, Layer
<1> QED BY <1>10, <1>13, <1>14

LEMMA LoseInv == ASSUME IInv, LoseRequest \/ LoseAnswer PROVE IInv'
<1> USE DEF IInv
<1>1. UNCHANGED <<pc, call, position, attempt, kv, results, noData>>
  BY DEF LoseRequest, LoseAnswer, host
<1>2. /\ requests \in Seq(Requests) /\ answers \in Seq(Answers)
  BY DEF TypeOK, Requests, Answers
<1>3. \/ requests # <<>> /\ requests' = Tail(requests) /\ answers' = answers
      \/ answers # <<>> /\ answers' = Tail(answers) /\ requests' = requests
  BY DEF LoseRequest, LoseAnswer
<1>4. /\ requests' \in Seq(Requests) /\ answers' \in Seq(Answers)
      /\ \A i \in 1..Len(requests') : \E k \in 1..Len(requests) : requests'[i] = requests[k]
      /\ \A i \in 1..Len(answers') : \E k \in 1..Len(answers) : answers'[i] = answers[k]
  <2>1. CASE requests # <<>> /\ requests' = Tail(requests) /\ answers' = answers
    BY <1>2, <2>1, TailIs
  <2>2. CASE answers # <<>> /\ answers' = Tail(answers) /\ requests' = requests
    BY <1>2, <2>2, TailIs
  <2> QED BY <1>3, <2>1, <2>2
<1>5. TypeOK'
  BY <1>1, <1>4 DEF TypeOK, Requests, Answers
<1>6. OnLink'
  BY <1>1, <1>4 DEF OnLink, Explained, Layer
<1>7. Collected' /\ Returned'
  BY <1>1 DEF Collected, Returned, Good, Layer
<1> QED BY <1>5, <1>6, <1>7
-----------------------------------------------------------------------------
(* rxGetConfig()                                                           *)
LEMMA BeginInv == ASSUME IInv, Begin PROVE IInv'
<1> USE DEF IInv
<1>1. /\ pc = "idle" /\ pc' = "send" /\ call < Len(Calls) /\ call' = call + 1
      /\ position' = 0 /\ attempt' = 1 /\ kv' = <<>>
      /\ UNCHANGED <<requests, answers, results, noData>>
  BY DEF Begin
<1>2. TypeOK'
  BY <1>1, ConstantFacts DEF TypeOK
<1>3. Layer' \in Layers /\ call' > 0
  BY <1>1, ConstantFacts DEF TypeOK, Layer
<1>4. OnLink'
  <2>1. Explained => Explained'
    BY <1>1 DEF Explained, TypeOK
  <2>2. \A i \in 1..Len(requests) : requests[i].call < call'
    <3> requests \in Seq(Requests)
      BY DEF TypeOK, Requests
    <3>1. \A i \in 1..Len(requests) : requests[i] \in Requests
      OBVIOUS
    <3>2. \A i \in 1..Len(requests) : requests[i].call \in Int /\ requests[i].call <= call
      BY <3>1 DEF OnLink, Requests
    <3>3. call \in Int /\ call' = call + 1
      BY <1>1 DEF TypeOK
    <3> QED BY <3>2, <3>3
  <2>3. \A i \in 1..Len(requests') : requests'[i].call <= call' /\ requests'[i].call # call'
    <3>1. \A i \in 1..Len(requests) : requests[i].call \in Int
      <4>1. requests \in Seq(Requests)
        BY DEF TypeOK, Requests
      <4>2. \A i \in 1..Len(requests) : requests[i] \in Requests
        BY <4>1
      <4> QED BY <4>2 DEF Requests
    <3>2. call' \in Int
      BY <1>2 DEF TypeOK
    <3> QED BY <1>1, <2>2, <3>1, <3>2
  <2>4. UNCHANGED answers
    BY <1>1
  <2> QED BY <2>1, <2>3, <2>4 DEF OnLink
<1>5. Collected'
  BY <1>1, <1>3, ConstantFacts DEF Collected, StartOf
<1>6. Returned'
  <2>1. Len(results) = call /\ call = call' - 1
    BY <1>1 DEF Returned, TypeOK
  <2> QED BY <1>1, <2>1 DEF Returned, Good
<1> QED BY <1>2, <1>4, <1>5, <1>6

LEMMA SendInv == ASSUME IInv, Send PROVE IInv'
<1> USE DEF IInv
<1> DEFINE q == [layer |-> Layer, pos |-> position, call |-> call]
<1>1. /\ pc = "send" /\ pc' = "wait" /\ requests' = Append(requests, q)
      /\ UNCHANGED <<call, position, attempt, kv, answers, results, noData>>
  BY DEF Send
<1>2. call > 0 /\ Layer \in Layers /\ requests \in Seq(Requests)
  BY <1>1, LayerIs DEF Collected, TypeOK, Requests
<1>3. q \in Requests /\ q.call = call /\ q.layer = Layer /\ q.pos = position
  BY <1>2 DEF TypeOK, Requests
<1> HIDE DEF q
<1>4. /\ requests' \in Seq(Requests) /\ Len(requests') = Len(requests) + 1
      /\ \A i \in 1..Len(requests) + 1 :
            requests'[i] = (IF i = Len(requests) + 1 THEN q ELSE requests[i]) /\ (i = Len(requests) + 1 \/ i \in 1..Len(requests))
  BY <1>1, <1>2, <1>3, AppendIs
<1>5. TypeOK'
  BY <1>1, <1>4 DEF TypeOK, Requests
<1>6. OnLink'
  <2>1. \A i \in 1..Len(requests') :
            /\ requests'[i].call <= call
            /\ requests'[i].call = call => requests'[i].layer = Layer /\ requests'[i].pos <= position
    <3>1. call <= call /\ position <= position
      BY DEF TypeOK
    <3>2. \A i \in 1..Len(requests') : requests'[i] = q \/ \E k \in 1..Len(requests) : requests'[i] = requests[k]
      BY <1>4
    <3> QED BY <1>3, <3>1, <3>2 DEF OnLink
  <2> QED BY <1>1, <2>1 DEF OnLink, Explained, Layer
<1>7. Collected' /\ Returned'
  BY <1>1 DEF Collected, Returned, Good, Layer
<1> QED BY <1>5, <1>6, <1>7

(* A call returns what it has collected                                    *)
LEMMA ReturnKeeps ==
    ASSUME IInv, pc # "idle", NEW ok \in BOOLEAN, NEW items \in Seq(AllItems), Return(ok, items),
           UNCHANGED <<call, noData>>,
           Good(call, [layer |-> Layer, ok |-> ok, kv |-> items])
    PROVE  Returned' /\ results' \in Seq([layer : Layers, ok : BOOLEAN, kv : Seq(AllItems)])
<1> USE DEF IInv
<1> DEFINE r == [layer |-> Layer, ok |-> ok, kv |-> items]
           Results == [layer : Layers, ok : BOOLEAN, kv : Seq(AllItems)]
<1>1. Layer \in Layers /\ call > 0 /\ call \in Nat /\ Len(results) = call - 1 /\ pc' = "idle"
  BY LayerIs DEF Collected, Returned, Return, TypeOK
<1>2. r \in Results /\ results \in Seq(Results) /\ results' = Append(results, r)
  BY <1>1 DEF TypeOK, Return
<1> HIDE DEF r, Results
<1>3. /\ results' \in Seq(Results) /\ Len(results') = Len(results) + 1
      /\ \A i \in 1..Len(results) + 1 :
            results'[i] = (IF i = Len(results) + 1 THEN r ELSE results[i]) /\ (i = Len(results) + 1 \/ i \in 1..Len(results))
  BY <1>2, AppendIs
<1>4. \A i \in 1..Len(results') : Good(i, results'[i])
  BY <1>1, <1>3 DEF Returned, r
<1>5. Returned'
  BY <1>1, <1>3, <1>4 DEF Returned, Good
<1> QED BY <1>3, <1>5 DEF Results

LEMMA TimeoutInv == ASSUME IInv, Timeout PROVE IInv'
<1> USE DEF IInv
<1>1. pc = "wait" /\ UNCHANGED <<call, position, kv, requests, answers, noData>>
  BY DEF Timeout
<1>2. OnLink'
  BY <1>1 DEF OnLink, Explained, Layer
<1>3. CASE attempt < Retries
  <2>1. attempt' = attempt + 1 /\ pc' = "send" /\ UNCHANGED results
    BY <1>3 DEF Timeout
  <2>2. TypeOK'
    BY <1>1, <1>3, <2>1, ConstantFacts DEF TypeOK
  <2>3. Collected' /\ Returned'
    BY <1>1, <2>1 DEF Collected, Returned, Good, Layer
  <2> QED BY <1>2, <2>2, <2>3
<1>4. CASE ~(attempt < Retries)
  <2>1. attempt' = attempt /\ Return(FALSE, kv) /\ pc' = "idle" /\ kv \in Seq(AllItems)
    BY <1>4 DEF Timeout, Return, TypeOK
  <2>2. Good(call, [layer |-> Layer, ok |-> FALSE, kv |-> kv])
    BY <1>1 DEF Collected, Good
  <2>3. Returned' /\ results' \in Seq([layer : Layers, ok : BOOLEAN, kv : Seq(AllItems)])
    BY <1>1, <2>1, <2>2, ReturnKeeps
  <2>4. TypeOK' /\ Collected'
    BY <1>1, <2>1, <2>3 DEF TypeOK, Collected
  <2> QED BY <1>2, <2>3, <2>4
<1> QED BY <1>3, <1>4

(* What an answer says that has arrived                                    *)
LEMMA HeadAnswer ==
    ASSUME IInv, answers # <<>>
    PROVE  /\ Head(answers) \in Answers
           /\ Head(answers).kv # <<>> => Head(answers).kv = Page(Config[Head(answers).layer], Head(answers).pos)
           /\ Head(answers).type = "NAK" => Head(answers).kv = <<>>
           /\ Head(answers).kv = <<>> => Explained
           /\ Tail(answers) \in Seq(Answers)
           /\ \A i \in 1..Len(Tail(answers)) : \E k \in 1..Len(answers) : Tail(answers)[i] = answers[k]
<1>1. answers \in Seq(Answers)
  BY DEF IInv, TypeOK, Answers
<1>2. /\ Head(answers) \in Answers /\ Head(answers) = answers[1] /\ 1 \in 1..Len(answers)
      /\ Tail(answers) \in Seq(Answers)
      /\ \A i \in 1..Len(Tail(answers)) : Tail(answers)[i] = answers[i + 1] /\ i + 1 \in 1..Len(answers)
  BY <1>1, TailIs
<1> QED BY <1>2 DEF IInv, OnLink

LEMMA TakenKeeps ==
    ASSUME IInv, answers # <<>>, answers' = Tail(answers), UNCHANGED <<call, requests, noData>>,
           position' \in Nat, position' >= position
    PROVE  OnLink'
<1>1. Explained => Explained'
  <2>1. Layer' = Layer
    BY DEF Layer
  <2>2. call > 0 => Len(Config[Layer]) \in Nat
    BY LayerIs, ConstantFacts DEF IInv
  <2>3. position \in Nat /\ noData \subseteq 1..Len(Calls)
    BY DEF IInv, TypeOK
  <2> QED BY <2>1, <2>2, <2>3, ConstantFacts DEF Explained
<1>2. \A i \in 1..Len(requests) :
          requests[i].call = call => requests[i].layer = Layer' /\ requests[i].pos <= position'
  <2>1. requests \in Seq(Requests)
    BY DEF IInv, TypeOK, Requests
  <2>2. \A i \in 1..Len(requests) : requests[i].pos \in Nat
    <3>1. \A i \in 1..Len(requests) : requests[i] \in Requests
      BY <2>1
    <3> QED BY <3>1 DEF Requests
  <2>3. \A i \in 1..Len(requests) :
            requests[i].call = call => requests[i].layer = Layer /\ requests[i].pos <= position
    BY DEF IInv, OnLink
  <2>4. position \in Nat /\ Layer' = Layer
    BY DEF IInv, TypeOK, Layer
  <2> QED BY <2>2, <2>3, <2>4
<1>3. \A i \in 1..Len(answers') : \E k \in 1..Len(answers) : answers'[i] = answers[k]
  BY HeadAnswer
<1>4. \A i \in 1..Len(answers') :
            /\ answers'[i].kv # <<>> => answers'[i].kv = Page(Config[answers'[i].layer], answers'[i].pos)
            /\ answers'[i].type = "NAK" => answers'[i].kv = <<>>
            /\ answers'[i].kv = <<>> => Explained'
  BY <1>1, <1>3 DEF IInv, OnLink
<1> QED BY <1>2, <1>4 DEF IInv, OnLink

(* An answer without items: success only if it is explained                *)
LEMMA EndInv == ASSUME IInv, RecvNak \/ RecvEmpty \/ RecvUnexpected PROVE IInv'
<1> USE DEF IInv
<1>1. /\ pc = "wait" /\ answers # <<>> /\ answers' = Tail(answers)
      /\ UNCHANGED <<call, position, attempt, kv, requests, noData>>
  BY DEF RecvNak, RecvEmpty, RecvUnexpected
<1>2. /\ position \in Nat /\ call \in Nat /\ call > 0 /\ Layer \in Layers /\ kv \in Seq(AllItems)
      /\ StartOf(Layer, kv) /\ Len(kv) = position
  BY <1>1, LayerIs DEF TypeOK, Collected
<1>3. PICK ok \in BOOLEAN : Return(ok, kv) /\ (ok => Head(answers).kv = <<>>)
  <2>1. CASE RecvNak
    BY <2>1, HeadAnswer DEF RecvNak
  <2>2. CASE RecvEmpty
    BY <2>2 DEF RecvEmpty
  <2>3. CASE RecvUnexpected
    BY <2>3 DEF RecvUnexpected
  <2> QED BY <2>1, <2>2, <2>3
<1>4. ok => kv = Config[Layer] \/ \E j \in noData : j < call
  <2> SUFFICES ASSUME Explained PROVE kv = Config[Layer] \/ \E j \in noData : j < call
    BY <1>1, <1>3, HeadAnswer
  <2>1. CASE Len(Config[Layer]) <= position
    BY <1>2, <2>1, AllOfIt
  <2> QED BY <2>1 DEF Explained
<1>5. Good(call, [layer |-> Layer, ok |-> ok, kv |-> kv])
  BY <1>2, <1>4 DEF Good
<1>6. Returned' /\ results' \in Seq([layer : Layers, ok : BOOLEAN, kv : Seq(AllItems)])
  BY <1>1, <1>2, <1>3, <1>5, ReturnKeeps
<1>7. OnLink'
  BY <1>1, <1>2, TakenKeeps
<1>8. pc' = "idle" /\ answers' \in Seq(Answers)
  BY <1>1, <1>3, HeadAnswer DEF Return
<1>9. TypeOK' /\ Collected'
  BY <1>1, <1>6, <1>8 DEF TypeOK, Collected, Answers
<1> QED BY <1>6, <1>7, <1>9

(* A page: it follows what was collected                                   *)
LEMMA PageFollows ==
    ASSUME NEW l \in Layers, NEW s \in Seq(AllItems), NEW p \in Nat, StartOf(l, s), Len(s) = p
    PROVE  LET t == s \o Page(Config[l], p) IN
           /\ t \in Seq(AllItems) /\ Len(t) = p + Len(Page(Config[l], p)) /\ StartOf(l, t)
           /\ Len(Page(Config[l], p)) <= MAX
           /\ Len(Page(Config[l], p)) < MAX => Len(t) >= Len(Config[l])
<1> DEFINE pg == Page(Config[l], p)
           c == Config[l]
           t == s \o pg
<1>1. /\ pg \in Seq(AllItems) /\ c \in Seq(AllItems) /\ Len(c) \in Nat /\ MAX \in Nat /\ MAX > 0
      /\ Len(pg) = IF p >= Len(c) THEN 0 ELSE IF p + MAX <= Len(c) THEN MAX ELSE Len(c) - p
      /\ \A n \in 1..Len(pg) : pg[n] = c[p + n]
  BY PageIs, ConstantFacts
<1> HIDE DEF pg, c
<1>2. /\ t \in Seq(AllItems) /\ Len(t) = p + Len(pg)
      /\ \A n \in 1..Len(t) : t[n] = IF n <= p THEN s[n] ELSE pg[n - p]
  <2>1. t = s \o pg
    BY DEF t
  <2>2. /\ s \o pg \in Seq(AllItems) /\ Len(s \o pg) = Len(s) + Len(pg)
        /\ \A n \in 1..Len(s) + Len(pg) : (s \o pg)[n] = IF n <= Len(s) THEN s[n] ELSE pg[n - Len(s)]
    BY <1>1, ConcatProperties
  <2> QED BY <2>1, <2>2
<1>3. \A n \in 1..Len(t) : (n <= p /\ n \in 1..Len(s)) \/ (~(n <= p) /\ n - p \in 1..Len(pg) /\ p + (n - p) = n)
  BY <1>1, <1>2
<1> HIDE DEF t
<1>4. \A n \in 1..Len(t) : t[n] = c[n]
  BY <1>1, <1>2, <1>3 DEF StartOf, c
<1>5. Len(t) <= Len(c)
  BY <1>1, <1>2 DEF StartOf, c
<1> QED BY <1>1, <1>2, <1>4, <1>5 DEF StartOf, c, pg, t

LEMMA PageInv == ASSUME IInv, RecvPage PROVE IInv'
<1> USE DEF IInv
<1> DEFINE page == Head(answers).kv
           done == Len(page) < MAX
<1>1. /\ pc = "wait" /\ answers # <<>> /\ page # <<>> /\ answers' = Tail(answers)
      /\ Head(answers).layer = Layer /\ Head(answers).pos = position
      /\ kv' = kv \o page
      /\ position' = (IF done THEN position ELSE position + MAX)
      /\ UNCHANGED <<call, requests, noData>>
  BY DEF RecvPage, Expected, MAX
<1>2. IF Len(kv') + MAX > MaxKv
      THEN Return(FALSE, kv') /\ UNCHANGED attempt
      ELSE IF done THEN Return(TRUE, kv') /\ UNCHANGED attempt
      ELSE attempt' = 1 /\ pc' = "send" /\ UNCHANGED results
  BY DEF RecvPage, MAX
<1>3. /\ position \in Nat /\ call \in Nat /\ call > 0 /\ Layer \in Layers /\ kv \in Seq(AllItems)
      /\ StartOf(Layer, kv) /\ Len(kv) = position /\ (MaxKv >= MAX => Len(kv) + MAX <= MaxKv)
  BY <1>1, LayerIs DEF TypeOK, Collected
<1>4. page = Page(Config[Layer], position)
  BY <1>1, HeadAnswer
<1>5. /\ kv' \in Seq(AllItems) /\ Len(kv') = position + Len(page) /\ StartOf(Layer, kv')
      /\ Len(page) <= MAX /\ (done => Len(kv') >= Len(Config[Layer]))
  <2> DEFINE pg == Page(Config[Layer], position)
  <2>1. kv \o pg \in Seq(AllItems) /\ Len(kv \o pg) = position + Len(pg) /\ StartOf(Layer, kv \o pg)
        /\ Len(pg) <= MAX /\ (Len(pg) < MAX => Len(kv \o pg) >= Len(Config[Layer]))
    BY <1>3, PageFollows
  <2>2. page = pg /\ kv' = kv \o pg
    BY <1>1, <1>4
  <2> HIDE DEF pg, page, IInv
  <2> QED BY <2>1, <2>2
<1>6. page \in Seq(AllItems) /\ Len(page) \in Nat
  BY <1>3, <1>4, PageIs
<1> HIDE DEF page, done
<1>7. position' \in Nat /\ position' >= position /\ (~done => Len(kv') = position')
  BY <1>1, <1>3, <1>5, <1>6, ConstantFacts DEF done
<1>8. OnLink'
  BY <1>1, <1>7, TakenKeeps
<1>9. answers' \in Seq(Answers)
  BY <1>1, HeadAnswer
<1>10. MaxKv >= MAX => Len(kv') <= MaxKv
  BY <1>3, <1>5, <1>6, ConstantFacts
<1>11. CASE \E ok \in BOOLEAN : Return(ok, kv') /\ (ok => done) /\ UNCHANGED attempt
  <2>1. PICK ok \in BOOLEAN : Return(ok, kv') /\ (ok => done) /\ UNCHANGED attempt
    BY <1>11
  <2>2. ok => kv' = Config[Layer]
    BY <1>3, <1>5, <2>1, AllOfIt
  <2>3. Good(call, [layer |-> Layer, ok |-> ok, kv |-> kv'])
    BY <1>5, <2>2 DEF Good
  <2>4. pc # "idle"
    BY <1>1
  <2>5. Returned' /\ results' \in Seq([layer : Layers, ok : BOOLEAN, kv : Seq(AllItems)])
    BY <1>1, <1>5, <2>1, <2>3, <2>4, ReturnKeeps
  <2>6. pc' = "idle"
    BY <2>1 DEF Return
  <2>7. attempt' \in 0..Retries /\ call' \in 0..Len(Calls) /\ requests' \in Seq(Requests) /\ noData' \subseteq 1..Len(Calls)
    BY <1>1, <2>1 DEF TypeOK, Requests
  <2>8. TypeOK'
    BY <1>5, <1>7, <1>9, <1>10, <2>5, <2>6, <2>7 DEF TypeOK, Answers, Requests, MAX
  <2>9. Collected'
    BY <2>6 DEF Collected
  <2> QED BY <1>8, <2>5, <2>8, <2>9
<1>12. CASE ~(Len(kv') + MAX > MaxKv) /\ ~done /\ attempt' = 1 /\ pc' = "send" /\ UNCHANGED results
  <2>1. TypeOK'
    BY <1>1, <1>5, <1>7, <1>9, <1>10, <1>12, ConstantFacts DEF TypeOK, Answers
  <2>2. Collected'
    <3>1. Len(kv') + MAX <= MaxKv
      BY <1>3, <1>5, <1>6, <1>12, ConstantFacts
    <3>2. Layer' = Layer
      BY <1>1 DEF Layer
    <3> QED BY <1>1, <1>3, <1>5, <1>7, <1>12, <3>1, <3>2 DEF Collected
  <2>3. Returned'
    BY <1>1, <1>12 DEF Returned, Good
  <2> QED BY <1>8, <2>1, <2>2, <2>3
<1> QED BY <1>2, <1>11, <1>12
-----------------------------------------------------------------------------
LEMMA NextInv == IInv /\ [Next]_vars => IInv'
<1> SUFFICES ASSUME IInv, [Next]_vars PROVE IInv'
  OBVIOUS
<1>1. CASE UNCHANGED vars
  <2>1. UNCHANGED <<pc, call, position, attempt, kv, results, requests, answers, noData>>
    BY <1>1 DEF vars, host
  <2> QED BY <2>1 DEF IInv, TypeOK, OnLink, Explained, Collected, Returned, Good, Layer
<1>2. CASE Next
  BY <1>2, RespondInv, LoseInv, BeginInv, SendInv, TimeoutInv, EndInv, PageInv DEF Next, Host
<1> QED BY <1>1, <1>2

(* The inductive invariant holds in every state of a sequence of calls.    *)
THEOREM Invariance == Spec => []IInv
BY InitInv, NextInv, PTL DEF Spec

(* Every state has its type; never more items than the array has room for. *)
THEOREM TypeCorrect == Spec => []TypeOK
BY Invariance, PTL DEF IInv

LEMMA StartIsPrefix ==
    ASSUME NEW l \in Layers, NEW s \in Seq(AllItems), StartOf(l, s)
    PROVE  IsPrefix(s, Config[l])
BY ConstantFacts, PrefixIs DEF StartOf

(* What has been collected, and what was returned, is the start of the
   layer, whatever is lost, late or answered twice.                        *)
THEOREM AlwaysPrefix == Spec => []CollectsPrefix
<1>1. ASSUME IInv PROVE CollectsPrefix
  <2> USE <1>1 DEF IInv
  <2>1. pc # "idle" => IsPrefix(kv, Config[Layer]) /\ Len(kv) = position
    BY LayerIs, StartIsPrefix DEF Collected, TypeOK
  <2>2. ASSUME NEW i \in 1..Len(results) PROVE IsPrefix(results[i].kv, Config[results[i].layer])
    <3> DEFINE Results == [layer : Layers, ok : BOOLEAN, kv : Seq(AllItems)]
    <3>1. results[i] \in Results
      <4>1. results \in Seq(Results)
        BY DEF TypeOK
      <4> HIDE DEF Results
      <4> QED BY <4>1
    <3> QED BY <3>1, StartIsPrefix DEF Returned, Good
  <2> QED BY <2>1, <2>2 DEF CollectsPrefix
<1> QED BY <1>1, Invariance, PTL

(* A call that succeeds has all of the layer, unless the receiver had no
   data for an earlier one.                                                *)
THEOREM SuccessIsExact == Spec => []ExactUnlessNoData
<1>1. ASSUME IInv PROVE ExactUnlessNoData
  BY <1>1 DEF IInv, Returned, Good, ExactUnlessNoData
<1> QED BY <1>1, Invariance, PTL
-----------------------------------------------------------------------------
(***************************************************************************)
(* Cfg2rx. Configurations of some of the items.                            *)
(***************************************************************************)
LEMMA PartialIs ==
    ASSUME NEW S, NEW f
    PROVE  f \in Partial(S) <=> DOMAIN f \subseteq S /\ f \in [DOMAIN f -> Values]
BY DEF Partial

LEMMA OverIs ==
    ASSUME NEW f, NEW g, NEW k
    PROVE  /\ k \in DOMAIN Over(f, g) <=> k \in DOMAIN f \/ k \in DOMAIN g
           /\ k \in DOMAIN f => Over(f, g)[k] = f[k]
           /\ k \in DOMAIN g /\ k \notin DOMAIN f => Over(f, g)[k] = g[k]
BY DEF Over

LEMMA OverType == ASSUME NEW S, NEW f \in Partial(S), NEW g \in Partial(S) PROVE Over(f, g) \in Partial(S)
<1>1. /\ DOMAIN f \subseteq S /\ f \in [DOMAIN f -> Values]
      /\ DOMAIN g \subseteq S /\ g \in [DOMAIN g -> Values]
  BY PartialIs
<1> DEFINE D == DOMAIN f \cup DOMAIN g
<1>2. Over(f, g) = [k \in D |-> IF k \in DOMAIN f THEN f[k] ELSE g[k]]
  BY DEF Over
<1>3. Over(f, g) \in [D -> Values] /\ DOMAIN Over(f, g) = D
  BY <1>1, <1>2
<1>4. D \subseteq S
  BY <1>1
<1> HIDE DEF D
<1> QED BY <1>3, <1>4, PartialIs

LEMMA NoItemsIs == ASSUME NEW S PROVE NoItems \in Partial(S) /\ DOMAIN NoItems = {}
<1>1. DOMAIN NoItems = {} /\ NoItems \in [{} -> Values]
  BY DEF NoItems
<1> QED BY <1>1, PartialIs

(* After a reset the receiver has what is stored, BBR before Flash         *)
LEMMA StartupIs ==
    ASSUME NEW b \in Partial(Known), NEW f \in Partial(Known)
    PROVE  /\ Startup(b, f) \in [Known -> Values]
           /\ \A k : k \in DOMAIN b => Startup(b, f)[k] = b[k]
           /\ \A k : k \in DOMAIN f /\ k \notin DOMAIN b => Startup(b, f)[k] = f[k]
<1>1. Default \in Partial(Known) /\ DOMAIN Default = Known
  BY Cfg2rxAssumption, PartialIs
<1> DEFINE g == Over(f, Default)
           h == Over(b, g)
<1>2. g \in Partial(Known)
  BY <1>1, OverType
<1>3. \A k : /\ k \in DOMAIN g <=> k \in DOMAIN f \/ k \in DOMAIN Default
             /\ k \in DOMAIN f => g[k] = f[k]
  BY OverIs
<1> HIDE DEF g
<1>4. h \in Partial(Known)
  BY <1>2, OverType
<1>5. \A k : /\ k \in DOMAIN h <=> k \in DOMAIN b \/ k \in DOMAIN g
             /\ k \in DOMAIN b => h[k] = b[k]
             /\ k \in DOMAIN g /\ k \notin DOMAIN b => h[k] = g[k]
  BY OverIs
<1> HIDE DEF h
<1>6. DOMAIN h \subseteq Known /\ h \in [DOMAIN h -> Values]
  BY <1>4, PartialIs
<1>7. DOMAIN h = Known
  BY <1>1, <1>3, <1>5, <1>6
<1>8. Startup(b, f) = h
  BY DEF Startup, h, g
<1> QED BY <1>3, <1>5, <1>6, <1>7, <1>8

LEMMA StoredIs == ASSUME NEW items, NEW config PROVE Includes(Over(items, config), items)
BY OverIs DEF Includes

(* The bounds of what is stored                                            *)
LEMMA InKnown == ASSUME NEW b \in Partial(Known) PROVE DOMAIN b \subseteq Known
BY PartialIs

LEMMA StartupContains ==
    ASSUME NEW b \in Partial(Known), NEW f \in Partial(Known), NEW items
    PROVE  /\ Includes(b, items) => Includes(Startup(b, f), items)
           /\ Includes(f, items) /\ DOMAIN b = {} => Includes(Startup(b, f), items)
<1>1. DOMAIN Startup(b, f) = Known
  BY StartupIs
<1> QED BY <1>1, StartupIs, InKnown DEF Includes
-----------------------------------------------------------------------------
(***************************************************************************)
(* The invariant: what each step of the command knows.                     *)
(***************************************************************************)
BeforeSetting == {"open", "pollRam", "pollDef", "check", "reset"}

(* Nothing was sent before the reset, and nothing was asked before the polls*)
Untouched == step \in BeforeSetting => ~touched
Polled ==
    polled =>
        /\ step \in {"pollDef", "check"} => allKvRam = ram
        /\ step = "check" /\ reset = "FACTORY" => allKvDef = Default

Deleted == step = "setConfig" /\ resetArg \in Deletes => DOMAIN bbr = {} /\ DOMAIN flash = {}

(* The file is stored, before it is applied                                *)
Stored ==
    /\ "BBR" \in layers => Includes(bbr, allKvCfg)
    /\ "FLASH" \in layers => Includes(flash, allKvCfg)
    /\ resetArg \in Deletes =>
        /\ DOMAIN bbr \subseteq DOMAIN allKvCfg /\ DOMAIN flash \subseteq DOMAIN allKvCfg
        /\ "BBR" \notin layers => DOMAIN bbr = {}

CmdIInv ==
    /\ CmdTypeOK
    /\ resetArg # None => reset = resetArg
    /\ step # "done" => result = None
    /\ Untouched /\ Polled /\ Deleted
    /\ step = "apply" => applyConfig /\ Stored
    /\ SuccessMeansDone /\ SkippedOnlyIfCurrent

LEMMA CmdInitInv == CmdInit => CmdIInv
<1> SUFFICES ASSUME CmdInit PROVE CmdIInv
  OBVIOUS
<1> USE DEF CmdInit
<1>1. ram \in [Known -> Values]
  BY StartupIs
<1>2. NoItems \in {NoItems} \cup [Known -> Values] /\ layers \subseteq {"RAM", "BBR", "FLASH"}
  BY Cfg2rxAssumption
<1>3. reset \in Resets \cup {None} /\ (resetArg # None => reset = resetArg)
  OBVIOUS
<1>4. CmdTypeOK
  BY <1>1, <1>2, <1>3 DEF CmdTypeOK
<1> QED BY <1>3, <1>4 DEF CmdIInv, Untouched, Polled, Deleted, BeforeSetting, SuccessMeansDone, SkippedOnlyIfCurrent, Success

LEMMA StoredStays ==
    ASSUME Stored, UNCHANGED <<args, bbr, flash>>
    PROVE  Stored'
BY DEF Stored, args, Includes

(* An exit with an error code, after whatever the receiver has done         *)
LEMMA FailureInv ==
    ASSUME CmdIInv, CmdTypeOK', NEW code \in {"OTHERFAIL", "RXFAIL"}, Exit(code), UNCHANGED <<args, reset>>
    PROVE  CmdIInv'
BY DEF CmdIInv, Exit, args, Untouched, Polled, Deleted, BeforeSetting, SuccessMeansDone, SkippedOnlyIfCurrent, Success

LEMMA OpenInv == ASSUME CmdIInv, Open PROVE CmdIInv'
<1> USE DEF CmdIInv
<1>1. step = "open" /\ UNCHANGED <<args, reset, allKvRam, allKvDef, receiver, polled, touched>>
  BY DEF Open
<1>2. CmdTypeOK'
  BY DEF CmdTypeOK, Open, Exit, args, receiver
<1>3. CASE \E code \in {"OTHERFAIL", "RXFAIL"} : Exit(code)
  BY <1>1, <1>2, <1>3, FailureInv
<1>4. CASE step' \in {"pollRam", "reset"} /\ UNCHANGED result
  BY <1>1, <1>2, <1>4
  DEF args, receiver, Untouched, Polled, Deleted, BeforeSetting, SuccessMeansDone, SkippedOnlyIfCurrent, Success
<1> QED BY <1>3, <1>4 DEF Open

LEMMA PollRamInv == ASSUME CmdIInv, PollRam PROVE CmdIInv'
<1> USE DEF CmdIInv
<1>1. step = "pollRam" /\ step' = (IF reset = "FACTORY" THEN "pollDef" ELSE "check")
      /\ UNCHANGED <<args, reset, allKvDef, result, receiver, touched>>
      /\ ((allKvRam' = ram /\ UNCHANGED polled) \/ (UNCHANGED allKvRam /\ polled' = FALSE))
  BY DEF PollRam
<1>2. CmdTypeOK'
  BY <1>1 DEF CmdTypeOK, args, receiver
<1> QED BY <1>1, <1>2
    DEF args, receiver, Untouched, Polled, Deleted, BeforeSetting, SuccessMeansDone, SkippedOnlyIfCurrent, Success

LEMMA PollDefInv == ASSUME CmdIInv, PollDef PROVE CmdIInv'
<1> USE DEF CmdIInv
<1>1. step = "pollDef" /\ step' = "check"
      /\ UNCHANGED <<args, reset, allKvRam, result, receiver, touched>>
      /\ ((allKvDef' = Default /\ UNCHANGED polled) \/ (UNCHANGED allKvDef /\ polled' = FALSE))
  BY DEF PollDef
<1>2. CmdTypeOK'
  BY <1>1 DEF CmdTypeOK, args, receiver
<1> QED BY <1>1, <1>2
    DEF args, receiver, Untouched, Polled, Deleted, BeforeSetting, SuccessMeansDone, SkippedOnlyIfCurrent, Success

LEMMA CheckInv == ASSUME CmdIInv, Check PROVE CmdIInv'
<1> USE DEF CmdIInv
<1>1. step = "check" /\ ~touched /\ UNCHANGED <<args, reset, allKvRam, allKvDef, receiver, polled, touched>>
  BY DEF Check, Untouched, BeforeSetting
<1>2. CmdTypeOK'
  BY <1>1 DEF CmdTypeOK, args, receiver, Check, Exit
<1>3. CASE ConfigNeedsUpdate
  <2>1. step' = "reset" /\ UNCHANGED result
    BY <1>3 DEF Check
  <2> QED BY <1>1, <1>2, <2>1
      DEF args, receiver, Untouched, Polled, Deleted, BeforeSetting, SuccessMeansDone, SkippedOnlyIfCurrent, Success
<1>4. CASE ~ConfigNeedsUpdate
  <2>1. step' = "done" /\ ~touched'
    BY <1>1, <1>4 DEF Check, Exit
  <2>2. ASSUME polled, NEW k \in Known
        PROVE  /\ k \in DOMAIN allKvCfg => ram[k] = allKvCfg[k]
               /\ k \notin DOMAIN allKvCfg /\ resetArg = "FACTORY" => ram[k] = Default[k]
    <3>1. allKvRam = ram /\ DOMAIN ram = Known /\ DOMAIN Default = Known
      BY <1>1, <2>2, Cfg2rxAssumption DEF Polled, CmdTypeOK
    <3>2. resetArg = "FACTORY" => allKvDef = Default
      BY <1>1, <2>2 DEF Polled, None
    <3> QED BY <1>4, <3>1, <3>2 DEF ConfigNeedsUpdate
  <2>3. SkippedOnlyIfCurrent'
    BY <1>1, <2>2 DEF SkippedOnlyIfCurrent, args, receiver
  <2> QED BY <1>1, <1>2, <2>1, <2>3
      DEF args, receiver, Untouched, Polled, Deleted, BeforeSetting, SuccessMeansDone, Success
<1> QED BY <1>3, <1>4

(* What rxReset() may leave behind, if it fails, too                       *)
LEMMA ResetTypes ==
    ASSUME CmdIInv, NEW type, NEW next, RxReset(type, next), UNCHANGED <<args, reset, allKvRam, allKvDef, polled>>,
           next \in BOOLEAN
    PROVE  /\ touched' = TRUE
           /\ ram' \in [Known -> Values] /\ bbr' \in Partial(Known) /\ flash' \in Partial(Known)
           /\ Exit("RXFAIL") \/ next
           /\ ~Exit("RXFAIL") => /\ bbr' = (IF type \in Deletes THEN NoItems ELSE bbr)
                                /\ flash' = (IF type \in Deletes THEN NoItems ELSE flash)
                                /\ ram' = Startup(bbr', flash')
<1> DEFINE b == IF type \in Deletes THEN NoItems ELSE bbr
           f == IF type \in Deletes THEN NoItems ELSE flash
<1>1. ram \in [Known -> Values] /\ bbr \in Partial(Known) /\ flash \in Partial(Known)
  BY DEF CmdIInv, CmdTypeOK
<1>2. b \in Partial(Known) /\ f \in Partial(Known)
  BY <1>1, NoItemsIs
<1>3. /\ touched' = TRUE
      /\ \/ Exit("RXFAIL") /\ UNCHANGED receiver
         \/ /\ bbr' = b /\ flash' = f
            /\ \/ Exit("RXFAIL") /\ UNCHANGED ram
               \/ Exit("RXFAIL") /\ ram' = Startup(b, f)
               \/ next /\ ram' = Startup(b, f)
  BY DEF RxReset
<1> HIDE DEF b, f
<1>4. Startup(b, f) \in [Known -> Values]
  BY <1>2, StartupIs
<1> QED BY <1>1, <1>2, <1>3, <1>4 DEF receiver, b, f

LEMMA ResetInv == ASSUME CmdIInv, Reset PROVE CmdIInv'
<1> USE DEF CmdIInv
<1>1. step = "reset" /\ result = None /\ UNCHANGED <<args, reset, allKvRam, allKvDef, polled>>
  BY DEF Reset
<1>2. CASE resetArg # None
  <2> DEFINE next == step' = "setConfig" /\ UNCHANGED result
  <2>1. RxReset(reset, next) /\ reset = resetArg
    BY <1>2 DEF Reset
  <2>2. next \in BOOLEAN
    OBVIOUS
  <2> HIDE DEF next
  <2>3. /\ touched' = TRUE
        /\ ram' \in [Known -> Values] /\ bbr' \in Partial(Known) /\ flash' \in Partial(Known)
        /\ Exit("RXFAIL") \/ next
        /\ ~Exit("RXFAIL") => /\ bbr' = (IF reset \in Deletes THEN NoItems ELSE bbr)
                             /\ flash' = (IF reset \in Deletes THEN NoItems ELSE flash)
    BY <1>1, <2>1, <2>2, ResetTypes
  <2>4. CmdTypeOK'
    BY <1>1, <2>3 DEF CmdTypeOK, args, Exit, next
  <2>5. CASE Exit("RXFAIL")
    BY <1>1, <2>4, <2>5, FailureInv
  <2>6. CASE ~Exit("RXFAIL")
    <3>1. step' = "setConfig" /\ result' = None
      BY <1>1, <2>3, <2>6 DEF next
    <3>2. resetArg \in Deletes => DOMAIN bbr' = {} /\ DOMAIN flash' = {}
      BY <2>1, <2>3, <2>6, NoItemsIs
    <3> QED BY <1>1, <2>3, <2>4, <3>1, <3>2
        DEF args, Untouched, Polled, Deleted, BeforeSetting, SuccessMeansDone, SkippedOnlyIfCurrent, Success
  <2> QED BY <2>5, <2>6
<1>3. CASE resetArg = None
  <2>1. step' = "setConfig" /\ UNCHANGED <<result, receiver, touched>>
    BY <1>3 DEF Reset
  <2>2. CmdTypeOK'
    BY <1>1, <2>1 DEF CmdTypeOK, args, receiver
  <2>3. Deleted'
    BY <1>1, <1>3 DEF Deleted, Deletes, None, args
  <2> QED BY <1>1, <2>1, <2>2, <2>3
      DEF args, receiver, Untouched, Polled, BeforeSetting, SuccessMeansDone, SkippedOnlyIfCurrent, Success
<1> QED BY <1>2, <1>3

LEMMA SetConfigInv == ASSUME CmdIInv, SetConfig PROVE CmdIInv'
<1> USE DEF CmdIInv
<1>1. step = "setConfig" /\ result = None /\ touched' = TRUE /\ UNCHANGED <<args, reset, allKvRam, allKvDef, polled>>
  BY DEF SetConfig
<1>2. CASE Exit("OTHERFAIL") /\ UNCHANGED receiver
  <2>1. CmdTypeOK'
    BY <1>1, <1>2 DEF CmdTypeOK, args, receiver, Exit
  <2> QED BY <1>1, <1>2, <2>1, FailureInv
<1>3. CASE /\ DOMAIN allKvCfg \subseteq Known
           /\ ram'   = IF "RAM"   \in layers THEN Over(allKvCfg, ram) ELSE ram
           /\ bbr'   = IF "BBR"   \in layers THEN Over(allKvCfg, bbr) ELSE bbr
           /\ flash' = IF "FLASH" \in layers THEN Over(allKvCfg, flash) ELSE flash
           /\ \/ Exit("OTHERFAIL")
              \/ IF applyConfig THEN step' = "apply" /\ UNCHANGED result ELSE Exit("SUCCESS")
  <2>1. /\ allKvCfg \in Partial(Known) /\ bbr \in Partial(Known) /\ flash \in Partial(Known)
        /\ ram \in Partial(Known) /\ DOMAIN ram = Known
    BY <1>3, PartialIs DEF CmdTypeOK
  <2>2. bbr' \in Partial(Known) /\ flash' \in Partial(Known)
    BY <1>3, <2>1, OverType
  <2>3. ram' \in [Known -> Values]
    <3>1. Over(allKvCfg, ram) \in Partial(Known)
      BY <2>1, OverType
    <3>2. \A k : k \in DOMAIN Over(allKvCfg, ram) <=> k \in DOMAIN allKvCfg \/ k \in DOMAIN ram
      BY OverIs
    <3>3. DOMAIN Over(allKvCfg, ram) = Known
      BY <1>3, <2>1, <3>2
    <3>4. Over(allKvCfg, ram) \in [Known -> Values]
      BY <3>1, <3>3, PartialIs
    <3> QED BY <1>3, <3>4 DEF CmdTypeOK
  <2>4. CmdTypeOK'
    BY <1>1, <1>3, <2>2, <2>3 DEF CmdTypeOK, args, Exit
  <2>5. /\ "BBR" \in layers => Includes(bbr', allKvCfg)
        /\ "FLASH" \in layers => Includes(flash', allKvCfg)
        /\ "RAM" \in layers => Includes(ram', allKvCfg)
    BY <1>3, StoredIs
  <2>6. ASSUME resetArg \in Deletes
        PROVE  /\ DOMAIN bbr' \subseteq DOMAIN allKvCfg /\ DOMAIN flash' \subseteq DOMAIN allKvCfg
               /\ "BBR" \notin layers => DOMAIN bbr' = {}
    <3>1. DOMAIN bbr = {} /\ DOMAIN flash = {}
      BY <1>1, <2>6 DEF Deleted
    <3>2. \A k : /\ k \in DOMAIN Over(allKvCfg, bbr) <=> k \in DOMAIN allKvCfg \/ k \in DOMAIN bbr
                 /\ k \in DOMAIN Over(allKvCfg, flash) <=> k \in DOMAIN allKvCfg \/ k \in DOMAIN flash
      BY OverIs
    <3> QED BY <1>3, <3>1, <3>2
  <2>7. layers' = layers /\ resetArg' = resetArg /\ allKvCfg' = allKvCfg /\ applyConfig' = applyConfig
    BY <1>1 DEF args
  <2>8. Stored'
    BY <2>5, <2>6, <2>7 DEF Stored, Includes
  <2>9. CASE Exit("OTHERFAIL")
    BY <1>1, <2>4, <2>9, FailureInv
  <2>10. CASE step' = "apply" /\ applyConfig /\ UNCHANGED result
    BY <1>1, <2>4, <2>7, <2>8, <2>10
    DEF Untouched, Polled, Deleted, BeforeSetting, SuccessMeansDone, SkippedOnlyIfCurrent, Success
  <2>11. CASE Exit("SUCCESS") /\ ~applyConfig
    <3>1. SuccessMeansDone'
      BY <2>5, <2>6, <2>7, <2>11 DEF SuccessMeansDone, Includes
    <3> QED BY <1>1, <2>4, <2>7, <2>11, <3>1
        DEF Exit, Untouched, Polled, Deleted, BeforeSetting, SkippedOnlyIfCurrent, Success
  <2> QED BY <1>3, <2>9, <2>10, <2>11
<1> QED BY <1>2, <1>3 DEF SetConfig

LEMMA ApplyInv == ASSUME CmdIInv, Apply PROVE CmdIInv'
<1> USE DEF CmdIInv
<1>1. step = "apply" /\ applyConfig /\ Stored /\ UNCHANGED <<args, reset, allKvRam, allKvDef, polled>>
  BY DEF Apply
<1> DEFINE next == Exit("SUCCESS")
<1>2. RxReset("SOFT", next) /\ next \in BOOLEAN
  BY DEF Apply, Exit
<1> HIDE DEF next
<1>3. /\ touched' = TRUE
      /\ ram' \in [Known -> Values] /\ bbr' \in Partial(Known) /\ flash' \in Partial(Known)
      /\ Exit("RXFAIL") \/ next
      /\ ~Exit("RXFAIL") => bbr' = bbr /\ flash' = flash /\ ram' = Startup(bbr', flash')
  BY <1>1, <1>2, ResetTypes DEF Deletes
<1>4. CmdTypeOK'
  BY <1>1, <1>3 DEF CmdTypeOK, args, Exit, next
<1>5. CASE Exit("RXFAIL")
  BY <1>1, <1>4, <1>5, FailureInv
<1>6. CASE ~Exit("RXFAIL")
  <2>1. /\ Exit("SUCCESS") /\ bbr' = bbr /\ flash' = flash /\ ram' = Startup(bbr, flash)
        /\ bbr \in Partial(Known) /\ flash \in Partial(Known)
    BY <1>3, <1>6 DEF next, CmdTypeOK
  <2>2. /\ "BBR" \in layers => Includes(ram', allKvCfg)
        /\ "FLASH" \in layers /\ resetArg \in Deletes => Includes(ram', allKvCfg)
    BY <1>1, <2>1, StartupContains DEF Stored
  <2>3. Stored' /\ layers' = layers /\ resetArg' = resetArg /\ allKvCfg' = allKvCfg /\ applyConfig' = applyConfig
    BY <1>1, <2>1, StoredStays DEF args
  <2>4. SuccessMeansDone'
    BY <1>1, <2>2, <2>3 DEF SuccessMeansDone, Stored, Includes
  <2> QED BY <1>1, <1>3, <1>4, <2>1, <2>3, <2>4
      DEF Exit, Untouched, Polled, Deleted, BeforeSetting, SkippedOnlyIfCurrent, Success
<1> QED BY <1>5, <1>6

LEMMA CmdNextInv == CmdIInv /\ [CmdNext]_cmdVars => CmdIInv'
<1> SUFFICES ASSUME CmdIInv, [CmdNext]_cmdVars PROVE CmdIInv'
  OBVIOUS
<1>1. CASE UNCHANGED cmdVars
  BY <1>1 DEF cmdVars, args, receiver, CmdIInv, CmdTypeOK, Untouched, Polled, Deleted, BeforeSetting, Stored, Includes,
       SuccessMeansDone, SkippedOnlyIfCurrent, Success
<1>2. CASE CmdNext
  BY <1>2, OpenInv, PollRamInv, PollDefInv, CheckInv, ResetInv, SetConfigInv, ApplyInv DEF CmdNext
<1> QED BY <1>1, <1>2

(* The inductive invariant holds in every state of the command.            *)
THEOREM CmdInvariance == CmdSpec => []CmdIInv
BY CmdInitInv, CmdNextInv, PTL DEF CmdSpec

(* Every state of cfg2rxRun() and of the receiver has its type.            *)
THEOREM CommandTypeCorrect == CmdSpec => []CmdTypeOK
BY CmdInvariance, PTL DEF CmdIInv

(* cfg2rxRun() only succeeds when the file is in the layers where it should
   be, and in use once it is applied.                                      *)
THEOREM SuccessIsDone == CmdSpec => []SuccessMeansDone
BY CmdInvariance, PTL DEF CmdIInv

(* An update is only skipped when the receiver has what it would get.      *)
THEOREM SkippedIsCurrent == CmdSpec => []SkippedOnlyIfCurrent
BY CmdInvariance, PTL DEF CmdIInv
=============================================================================
