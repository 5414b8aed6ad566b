------------------------ MODULE InputReceiverProofs ------------------------
(***************************************************************************)
(* Theorems about InputReceiver, for any number of connections, requests   *)
(* and messages and any limits of the event queue: Start() never meets a   *)
(* thread at work, no gap in the messages goes unannounced, and to its     *)
(* callers the receiver is a ReceiverService.                              *)
(***************************************************************************)
EXTENDS InputReceiver, SequenceTheorems, WellFoundedInduction, TLAPS

(***************************************************************************)
(* Selecting elements of a sequence. Induction is by the least element of  *)
(* a set of naturals.                                                      *)
(***************************************************************************)
Less == {p \in Nat \X Nat : p[1] < p[2]}

LEMMA LessWellFounded == IsWellFoundedOn(Less, Nat)
  BY NatLessThanWellFounded DEF Less, OpToRel

(* A set of naturals with 0 and all successors is all of them              *)
LEMMA Induction ==
    ASSUME NEW S \in SUBSET Nat, 0 \in S, \A n \in S : n + 1 \in S
    PROVE  S = Nat
<1> SUFFICES ASSUME Nat \ S # {} PROVE FALSE
  OBVIOUS
<1>1. PICK m \in Nat \ S : \A k \in Nat \ S : <<k, m>> \notin Less
  BY LessWellFounded, WFMin
<1>2. m - 1 \in Nat /\ <<m - 1, m>> \in Less
  BY DEF Less
<1>3. m - 1 \in S
  BY <1>1, <1>2
<1> QED BY <1>2, <1>3

(* What f makes of the elements of s so far                                *)
Step(f, s, C, i) ==
    IF i = 0 THEN <<>> ELSE IF s[i] \in C THEN Append(f[i - 1], s[i]) ELSE f[i - 1]
IsUpTo(f, s, C, n) == f = [i \in 0 .. n |-> Step(f, s, C, i)]
SameUpTo(s, t, n) == \A i \in 1 .. n : s[i] = t[i]

LEMMA UpToExists ==
    ASSUME NEW s, NEW C
    PROVE  \A n \in Nat : \E f : IsUpTo(f, s, C, n)
<1> DEFINE S == {n \in Nat : \E f : IsUpTo(f, s, C, n)}
<1>1. 0 \in S
  <2>1. IsUpTo([i \in 0 .. 0 |-> <<>>], s, C, 0)
    BY DEF IsUpTo, Step
  <2> QED BY <2>1
<1>2. ASSUME NEW n \in S PROVE n + 1 \in S
  <2>1. PICK f : f = [i \in 0 .. n |-> Step(f, s, C, i)]
    BY DEF IsUpTo
  <2> DEFINE g == [i \in 0 .. n + 1 |-> IF i = n + 1 THEN Step(f, s, C, n + 1) ELSE f[i]]
  <2>2. \A i \in 0 .. n : g[i] = f[i]
    OBVIOUS
  <2>3. ASSUME NEW i \in 0 .. n + 1 PROVE g[i] = Step(g, s, C, i)
    <3>1. i # 0 => i - 1 \in 0 .. n
      OBVIOUS
    <3>2. Step(g, s, C, i) = Step(f, s, C, i)
      BY <2>2, <3>1 DEF Step
    <3>3. i # n + 1 => i \in 0 .. n
      OBVIOUS
    <3>4. i # n + 1 => f[i] = Step(f, s, C, i)
      BY <2>1, <3>3
    <3> QED BY <3>2, <3>4
  <2>4. g = [i \in 0 .. n + 1 |-> Step(g, s, C, i)]
    BY <2>3
  <2>5. IsUpTo(g, s, C, n + 1) /\ n + 1 \in Nat
    BY <2>4 DEF IsUpTo
  <2> HIDE DEF g
  <2> QED BY <2>5
<1>3. S = Nat
  <2>1. S \in SUBSET Nat
    OBVIOUS
  <2> HIDE DEF S
  <2> QED BY <1>1, <1>2, <2>1, Induction
<1> QED BY <1>3

(* Two of them agree where they are both defined                           *)
LEMMA UpToUnique ==
    ASSUME NEW s, NEW t, NEW C, NEW n \in Nat, NEW m \in Nat, NEW f, NEW g,
           IsUpTo(f, s, C, n), IsUpTo(g, t, C, m), n <= m, SameUpTo(s, t, n)
    PROVE  \A i \in 0 .. n : f[i] = g[i]
<1> DEFINE S == {i \in Nat : i <= n => f[i] = g[i]}
<1>1. \A i \in 0 .. n : f[i] = Step(f, s, C, i)
  BY DEF IsUpTo
<1>2. \A i \in 0 .. m : g[i] = Step(g, t, C, i)
  BY DEF IsUpTo
<1>3. 0 \in S
  BY <1>1, <1>2 DEF Step
<1>4. ASSUME NEW i \in S PROVE i + 1 \in S
  <2> SUFFICES ASSUME i + 1 <= n PROVE f[i + 1] = g[i + 1]
    OBVIOUS
  <2>1. f[i] = g[i] /\ s[i + 1] = t[i + 1]
    BY DEF SameUpTo
  <2>2. i + 1 \in 0 .. n /\ i + 1 \in 0 .. m /\ i + 1 # 0 /\ (i + 1) - 1 = i
    OBVIOUS
  <2>3. f[i + 1] = Step(f, s, C, i + 1) /\ g[i + 1] = Step(g, t, C, i + 1)
    BY <1>1, <1>2, <2>2
  <2> QED BY <2>1, <2>2, <2>3 DEF Step
<1>5. S = Nat
  <2>1. S \in SUBSET Nat
    OBVIOUS
  <2> HIDE DEF S
  <2> QED BY <1>3, <1>4, <2>1, Induction
<1> QED BY <1>5

(* Selected(s, C) is the last value of such a function                     *)
LEMMA SelectedIs ==
    ASSUME NEW s, NEW C, Len(s) \in Nat, NEW f, IsUpTo(f, s, C, Len(s))
    PROVE  Selected(s, C) = f[Len(s)]
<1> DEFINE h == CHOOSE g : IsUpTo(g, s, C, Len(s))
<1>1. IsUpTo(h, s, C, Len(s))
  OBVIOUS
<1>2. Selected(s, C) = h[Len(s)]
  BY DEF Selected, IsUpTo, Step
<1> QED BY <1>1, <1>2, UpToUnique DEF SameUpTo

LEMMA UpToType ==
    ASSUME NEW s, NEW C, NEW n \in Nat, NEW f, IsUpTo(f, s, C, n)
    PROVE  \A i \in 0 .. n : f[i] \in Seq(C)
<1> DEFINE S == {i \in Nat : i <= n => f[i] \in Seq(C)}
<1>1. \A i \in 0 .. n : f[i] = Step(f, s, C, i)
  BY DEF IsUpTo
<1>2. 0 \in S
  <2>1. 0 \in 0 .. n
    OBVIOUS
  <2>2. f[0] = <<>>
    BY <1>1, <2>1 DEF Step
  <2>3. f[0] \in Seq(C)
    BY <2>2
  <2> QED BY <2>3
<1>3. ASSUME NEW i \in S PROVE i + 1 \in S
  <2> SUFFICES ASSUME i + 1 <= n PROVE f[i + 1] \in Seq(C)
    OBVIOUS
  <2>1. f[i] \in Seq(C) /\ i + 1 \in 0 .. n /\ i + 1 # 0 /\ (i + 1) - 1 = i
    OBVIOUS
  <2>2. f[i + 1] = IF s[i + 1] \in C THEN Append(f[i], s[i + 1]) ELSE f[i]
    BY <1>1, <2>1 DEF Step
  <2> QED BY <2>1, <2>2
<1>4. S = Nat
  <2>1. S \in SUBSET Nat
    OBVIOUS
  <2> HIDE DEF S
  <2> QED BY <1>2, <1>3, <2>1, Induction
<1> QED BY <1>4

(* Of a sequence only elements of C are selected, none from an empty one   *)
LEMMA SelectedType ==
    ASSUME NEW T, NEW s \in Seq(T), NEW C
    PROVE  /\ Selected(s, C) \in Seq(C)
           /\ s = <<>> => Selected(s, C) = <<>>
<1>1. Len(s) \in Nat
  OBVIOUS
<1>2. PICK f : IsUpTo(f, s, C, Len(s))
  BY <1>1, UpToExists
<1>3. Selected(s, C) = f[Len(s)]
  BY <1>1, <1>2, SelectedIs
<1>4. f[Len(s)] \in Seq(C)
  <2>1. \A i \in 0 .. Len(s) : f[i] \in Seq(C)
    BY <1>1, <1>2, UpToType
  <2> QED BY <1>1, <2>1
<1>5. f[0] = <<>>
  BY <1>1, <1>2 DEF IsUpTo, Step
<1> QED BY <1>3, <1>4, <1>5

(* One more element at the end                                             *)
LEMMA SelectedAppend ==
    ASSUME NEW T, NEW s \in Seq(T), NEW e \in T, NEW C
    PROVE  Selected(Append(s, e), C) =
               IF e \in C THEN Append(Selected(s, C), e) ELSE Selected(s, C)
<1> DEFINE t == Append(s, e)
           n == Len(s)
<1>1. /\ n \in Nat /\ n + 1 \in Nat /\ Len(t) = n + 1
      /\ t[n + 1] = e /\ \A i \in 1 .. n : s[i] = t[i]
  OBVIOUS
<1> HIDE DEF t, n
<1>2. PICK f : IsUpTo(f, s, C, n)
  BY <1>1, UpToExists
<1>3. PICK g : IsUpTo(g, t, C, n + 1)
  BY <1>1, UpToExists
<1>4. Selected(s, C) = f[n] /\ Selected(t, C) = g[n + 1]
  BY <1>1, <1>2, <1>3, SelectedIs DEF n
<1>5. g[n + 1] = IF e \in C THEN Append(g[n], e) ELSE g[n]
  <2>1. n + 1 \in 0 .. n + 1 /\ n + 1 # 0 /\ (n + 1) - 1 = n
    BY <1>1
  <2> QED BY <1>1, <1>3, <2>1 DEF IsUpTo, Step
<1>6. f[n] = g[n]
  <2>1. n <= n + 1 /\ n \in 0 .. n
    BY <1>1
  <2>2. n \in Nat /\ n + 1 \in Nat /\ SameUpTo(s, t, n)
    BY <1>1 DEF SameUpTo
  <2>3. \A i \in 0 .. n : f[i] = g[i]
    <3> DEFINE m == n + 1
    <3>1. m \in Nat /\ n <= m /\ IsUpTo(g, t, C, m)
      BY <1>3, <2>1, <2>2
    <3> HIDE DEF m
    <3> QED BY <1>2, <2>2, <3>1, UpToUnique
  <2> QED BY <2>1, <2>3
<1> QED BY <1>4, <1>5, <1>6 DEF t

(* One element less at the front                                           *)
LEMMA SelectedTail ==
    ASSUME NEW T, NEW s \in Seq(T), s # <<>>, NEW C
    PROVE  Selected(s, C) =
               IF Head(s) \in C THEN <<Head(s)>> \o Selected(Tail(s), C) ELSE Selected(Tail(s), C)
<1> DEFINE t == Tail(s)
           n == Len(t)
           p == IF s[1] \in C THEN <<s[1]>> ELSE <<>>
<1>1. /\ t \in Seq(T) /\ n \in Nat /\ n + 1 \in Nat /\ Len(s) = n + 1
      /\ Head(s) = s[1] /\ \A i \in 1 .. n : t[i] = s[i + 1]
  OBVIOUS
<1>2. p \in Seq(C)
  OBVIOUS
<1> HIDE DEF t, n, p
<1>3. PICK f : IsUpTo(f, s, C, n + 1)
  BY <1>1, UpToExists
<1>4. PICK g : IsUpTo(g, t, C, n)
  BY <1>1, UpToExists
<1>5. Selected(s, C) = f[n + 1] /\ Selected(t, C) = g[n]
  BY <1>1, <1>3, <1>4, SelectedIs DEF n
<1>6. /\ \A i \in 0 .. n + 1 : f[i] = Step(f, s, C, i)
      /\ \A i \in 0 .. n : g[i] = Step(g, t, C, i)
  BY <1>3, <1>4 DEF IsUpTo
<1>7. \A i \in 0 .. n : g[i] \in Seq(C)
  BY <1>1, <1>4, UpToType
<1> DEFINE S == {i \in Nat : i <= n => f[i + 1] = p \o g[i]}
<1>8. 0 \in S
  <2>1. 0 \in 0 .. n + 1 /\ 0 \in 0 .. n /\ 1 \in 0 .. n + 1
    BY <1>1
  <2>2. f[0] = <<>> /\ g[0] = <<>>
    BY <1>6, <2>1 DEF Step
  <2>3. f[1] = IF s[1] \in C THEN Append(f[0], s[1]) ELSE f[0]
    BY <1>6, <2>1 DEF Step
  <2>4. f[1] = p
    BY <2>2, <2>3 DEF p
  <2> QED BY <1>2, <2>2, <2>4
<1>9. ASSUME NEW i \in S PROVE i + 1 \in S
  <2> SUFFICES ASSUME i + 1 <= n PROVE f[(i + 1) + 1] = p \o g[i + 1]
    OBVIOUS
  <2>1. /\ i \in 0 .. n /\ i + 1 \in 0 .. n /\ i + 1 \in 1 .. n /\ (i + 1) + 1 \in 0 .. n + 1
        /\ i + 1 # 0 /\ (i + 1) + 1 # 0 /\ (i + 1) - 1 = i /\ ((i + 1) + 1) - 1 = i + 1
    BY <1>1
  <2>2. f[i + 1] = p \o g[i]
    BY <2>1
  <2>3. g[i + 1] = IF t[i + 1] \in C THEN Append(g[i], t[i + 1]) ELSE g[i]
    BY <1>6, <2>1 DEF Step
  <2>4. f[(i + 1) + 1] = IF t[i + 1] \in C THEN Append(f[i + 1], t[i + 1]) ELSE f[i + 1]
    BY <1>1, <1>6, <2>1 DEF Step
  <2>5. g[i] \in Seq(C)
    BY <1>7, <2>1
  <2>6. t[i + 1] \in C => Append(p \o g[i], t[i + 1]) = p \o Append(g[i], t[i + 1])
    <3> DEFINE q == g[i]
               e == t[i + 1]
    <3> SUFFICES ASSUME e \in C PROVE Append(p \o q, e) = p \o Append(q, e)
      OBVIOUS
    <3>1. q \in Seq(C) /\ p \in Seq(C)
      BY <1>2, <2>5
    <3> HIDE DEF q, e
    <3> DEFINE a == Append(p \o q, e)
               b == p \o Append(q, e)
    <3>2. a \in Seq(C) /\ b \in Seq(C) /\ Len(a) = Len(b)
      BY <3>1
    <3>3. \A k \in 1 .. Len(a) : a[k] = b[k]
      BY <3>1
    <3> HIDE DEF a, b
    <3>4. a = b
      BY <3>2, <3>3
    <3> QED BY <3>4 DEF a, b
  <2> QED BY <2>2, <2>3, <2>4, <2>6
<1>10. S = Nat
  <2>1. S \in SUBSET Nat
    OBVIOUS
  <2> HIDE DEF S
  <2> QED BY <1>8, <1>9, <2>1, Induction
<1>11. f[n + 1] = p \o g[n] /\ g[n] \in Seq(C)
  <2>1. n \in S
    <3> HIDE DEF S
    <3> QED BY <1>1, <1>10
  <2>2. n <= n /\ n \in 0 .. n
    BY <1>1
  <2> QED BY <1>7, <2>1, <2>2
<1>12. Selected(s, C) = p \o Selected(t, C) /\ Selected(t, C) \in Seq(C)
  BY <1>5, <1>11
<1>13. <<>> \o Selected(t, C) = Selected(t, C)
  BY <1>12
<1> QED BY <1>1, <1>12, <1>13 DEF p, t

-----------------------------------------------------------------------------
(***************************************************************************)
(* The invariant.                                                          *)
(***************************************************************************)
EventTypes == {"MSG", "OTHER", "SATURATED", "GETCONFIG", "SETCONFIG"}
Events == [type : EventTypes, id : Nat]
Commands == [op : Ops, id : 1 .. MaxRequests]

(* Messages and answers have the numbers of messages and of requests       *)
Numbered(q) ==
    \A i \in 1 .. Len(q) :
        /\ q[i].type = "MSG" => q[i].id \in 0 .. MaxMsgs
        /\ q[i].type \in {"GETCONFIG", "SETCONFIG"} => q[i].id \in 1 .. MaxRequests

(* From the last message to the end of a queue q, where last and w are what*)
(* was delivered before: whether the saturation is told, and which message *)
(* it is                                                                   *)
NoMsg(q, i, j) == \A k \in i .. j : q[k].type # "MSG"
Told(q, w) ==
    \/ w /\ NoMsg(q, 1, Len(q))
    \/ \E k \in 1 .. Len(q) : q[k].type = "SATURATED" /\ NoMsg(q, k + 1, Len(q))
LastIs(q, last, n) ==
    \/ last = n /\ NoMsg(q, 1, Len(q))
    \/ \E k \in 1 .. Len(q) : q[k].type = "MSG" /\ q[k].id = n /\ NoMsg(q, k + 1, Len(q))

(* The gaps between two messages in the queue, and before the first one    *)
ToldBetween(q, i, j) == \E k \in i .. j : q[k].type = "SATURATED"
GapsIn(q) ==
    \A i, j \in 1 .. Len(q) :
        i < j /\ q[i].type = "MSG" /\ q[j].type = "MSG" /\ NoMsg(q, i + 1, j - 1) =>
            q[j].id \in {q[i].id + 1, 1} \/ ToldBetween(q, i + 1, j - 1)
GapBefore(q, last, w) ==
    \A j \in 1 .. Len(q) :
        q[j].type = "MSG" /\ NoMsg(q, 1, j - 1) =>
            q[j].id \in {last + 1, 1} \/ w \/ ToldBetween(q, 1, j - 1)

(* Messages are dropped only when that is told, or else the next event ends it *)
Dropping(q, w) == q.sat => Told(q.events, w) \/ Len(q.events) < LOW

GapsTold(q, last, w) == GapsIn(q.events) /\ GapBefore(q.events, last, w) /\ Dropping(q, w)

(* The next message follows the last one, or it was told that some are missing *)
Sending == {"connecting", "check", "pump", "command", "exec"}
Following(q, last, w, n) == n = 0 \/ Told(q, w) \/ LastIs(q, last, n)
GapAhead == tpc \in Sending => Following(eventQueue, lastSeq, warned, msgSeq)

Gaps == GapsTold(Queue, lastSeq, warned) /\ GapAhead

(* A request of kind op is in one place at most, and is the one whose      *)
(* callback is set                                                         *)
OneRequest(op, cb, cs, c, es) ==
    /\ \A i \in 1 .. Len(cs) : cs[i].op = op => cs[i].id = cb
    /\ c.op = op => c.id = cb
    /\ \A i \in 1 .. Len(es) : es[i].type = op => es[i].id = cb
    /\ \A i, j \in 1 .. Len(cs) : cs[i].op = op /\ cs[j].op = op => i = j
    /\ \A i, j \in 1 .. Len(es) : es[i].type = op /\ es[j].type = op => i = j
    /\ \A i \in 1 .. Len(cs) : cs[i].op = op =>
            c.op # op /\ \A j \in 1 .. Len(es) : es[j].type # op
    /\ c.op = op => \A j \in 1 .. Len(es) : es[j].type # op

Requests ==
    /\ OneRequest("GETCONFIG", getCb, commandQueue, command, eventQueue)
    /\ ~silent => OneRequest("SETCONFIG", setCb, commandQueue, command, eventQueue)

IInv == TypeOK /\ Numbered(eventQueue) /\ IdleIsIdle /\ Gaps /\ Requests

-----------------------------------------------------------------------------
(***************************************************************************)
(* One more event, and one less.                                           *)
(***************************************************************************)
LEMMA AppendIs ==
    ASSUME NEW q \in Seq(Events), NEW e \in Events
    PROVE  /\ Append(q, e) \in Seq(Events) /\ Len(Append(q, e)) = Len(q) + 1 /\ Len(q) \in Nat
           /\ Append(q, e)[Len(q) + 1] = e
           /\ \A i \in 1 .. Len(q) : Append(q, e)[i] = q[i]
  OBVIOUS

(* An event that is no message                                             *)
LEMMA AppendOther ==
    ASSUME NEW q \in Seq(Events), NEW e \in Events, e.type # "MSG", NEW last, NEW w
    PROVE  /\ Told(q, w) => Told(Append(q, e), w)
           /\ e.type = "SATURATED" => Told(Append(q, e), w)
           /\ \A n : LastIs(q, last, n) => LastIs(Append(q, e), last, n)
           /\ GapsIn(q) => GapsIn(Append(q, e))
           /\ GapBefore(q, last, w) => GapBefore(Append(q, e), last, w)
<1> DEFINE r == Append(q, e)
           n == Len(q)
<1>1. /\ n \in Nat /\ Len(r) = n + 1 /\ r[n + 1] = e /\ \A i \in 1 .. n : r[i] = q[i]
  BY AppendIs
<1> HIDE DEF r
<1>2. \A i \in 1 .. n + 1 : NoMsg(q, i, n) => NoMsg(r, i, n + 1)
  BY <1>1 DEF NoMsg
<1>3. \A i, j \in Nat : j <= n /\ i > 0 => (NoMsg(r, i, j) <=> NoMsg(q, i, j))
  BY <1>1 DEF NoMsg
<1>4. \A i, j \in Nat : j <= n /\ i > 0 => (ToldBetween(r, i, j) <=> ToldBetween(q, i, j))
  BY <1>1 DEF ToldBetween
<1>5. Told(q, w) => Told(r, w)
  BY <1>1, <1>2 DEF Told
<1>6. e.type = "SATURATED" => Told(r, w)
  <2>1. NoMsg(r, (n + 1) + 1, n + 1)
    BY <1>1 DEF NoMsg
  <2> QED BY <1>1, <2>1 DEF Told
<1>7. ASSUME NEW m, LastIs(q, last, m) PROVE LastIs(r, last, m)
  BY <1>1, <1>2, <1>7 DEF LastIs
<1>8. ASSUME GapsIn(q) PROVE GapsIn(r)
  <2> SUFFICES ASSUME NEW i \in 1 .. n + 1, NEW j \in 1 .. n + 1, i < j, r[i].type = "MSG",
                      r[j].type = "MSG", NoMsg(r, i + 1, j - 1)
               PROVE  r[j].id \in {r[i].id + 1, 1} \/ ToldBetween(r, i + 1, j - 1)
    BY <1>1 DEF GapsIn
  <2>1. i \in 1 .. n /\ j \in 1 .. n
    BY <1>1
  <2>2. NoMsg(q, i + 1, j - 1) /\ (ToldBetween(r, i + 1, j - 1) <=> ToldBetween(q, i + 1, j - 1))
    BY <1>1, <1>3, <1>4, <2>1
  <2> QED BY <1>1, <1>8, <2>1, <2>2 DEF GapsIn
<1>9. ASSUME GapBefore(q, last, w) PROVE GapBefore(r, last, w)
  <2> SUFFICES ASSUME NEW j \in 1 .. n + 1, r[j].type = "MSG", NoMsg(r, 1, j - 1)
               PROVE  r[j].id \in {last + 1, 1} \/ w \/ ToldBetween(r, 1, j - 1)
    BY <1>1 DEF GapBefore
  <2>1. j \in 1 .. n
    BY <1>1
  <2>2. NoMsg(q, 1, j - 1) /\ (ToldBetween(r, 1, j - 1) <=> ToldBetween(q, 1, j - 1))
    BY <1>1, <1>3, <1>4, <2>1
  <2> QED BY <1>1, <1>9, <2>1, <2>2 DEF GapBefore
<1> QED BY <1>5, <1>6, <1>7, <1>8, <1>9 DEF r

(* The next message                                                        *)
LEMMA AppendMsg ==
    ASSUME NEW q \in Seq(Events), NEW e \in Events, NEW n \in Nat, NEW last, NEW w \in BOOLEAN,
           e.type = "MSG", e.id = n + 1, Following(q, last, w, n)
    PROVE  /\ LastIs(Append(q, e), last, n + 1)
           /\ GapsIn(q) => GapsIn(Append(q, e))
           /\ GapBefore(q, last, w) => GapBefore(Append(q, e), last, w)
<1> DEFINE r == Append(q, e)
           l == Len(q)
<1>1. /\ l \in Nat /\ Len(r) = l + 1 /\ r[l + 1] = e /\ \A i \in 1 .. l : r[i] = q[i]
  BY AppendIs
<1> HIDE DEF r
<1>3. \A i, j \in Nat : j <= l /\ i > 0 => (NoMsg(r, i, j) <=> NoMsg(q, i, j))
  BY <1>1 DEF NoMsg
<1>4. \A i, j \in Nat : j <= l /\ i > 0 => (ToldBetween(r, i, j) <=> ToldBetween(q, i, j))
  BY <1>1 DEF ToldBetween
<1>5. LastIs(r, last, n + 1)
  <2>1. NoMsg(r, (l + 1) + 1, l + 1)
    BY <1>1 DEF NoMsg
  <2> QED BY <1>1, <2>1 DEF LastIs
<1>6. ASSUME GapsIn(q) PROVE GapsIn(r)
  <2> SUFFICES ASSUME NEW i \in 1 .. l + 1, NEW j \in 1 .. l + 1, i < j, r[i].type = "MSG",
                      r[j].type = "MSG", NoMsg(r, i + 1, j - 1)
               PROVE  r[j].id \in {r[i].id + 1, 1} \/ ToldBetween(r, i + 1, j - 1)
    BY <1>1 DEF GapsIn
  <2>1. i \in 1 .. l /\ r[i] = q[i]
    BY <1>1
  <2>2. NoMsg(q, i + 1, j - 1) /\ (ToldBetween(r, i + 1, j - 1) <=> ToldBetween(q, i + 1, j - 1))
    BY <1>1, <1>3, <1>4, <2>1
  <2>3. CASE j \in 1 .. l
    BY <1>1, <1>6, <2>1, <2>2, <2>3 DEF GapsIn
  <2>4. CASE j = l + 1
    <3>1. r[j].id = n + 1 /\ j - 1 = l
      BY <1>1, <2>4
    <3>2. ~NoMsg(q, 1, l)
      BY <2>1 DEF NoMsg
    <3>3. ASSUME NEW k \in 1 .. l, q[k].type = "SATURATED", NoMsg(q, k + 1, l)
          PROVE  ToldBetween(q, i + 1, l)
      <4>1. i < k
        BY <1>1, <2>1, <3>3 DEF NoMsg
      <4> QED BY <1>1, <2>1, <3>3, <4>1 DEF ToldBetween
    <3>4. ASSUME NEW k \in 1 .. l, q[k].type = "MSG", q[k].id = n, NoMsg(q, k + 1, l)
          PROVE  r[j].id = r[i].id + 1
      <4>1. i = k
        BY <1>1, <2>1, <2>2, <3>1, <3>4 DEF NoMsg
      <4> QED BY <2>1, <3>1, <3>4, <4>1
    <3> QED BY <2>2, <3>1, <3>2, <3>3, <3>4 DEF Following, Told, LastIs
  <2> QED BY <1>1, <2>3, <2>4
<1>7. ASSUME GapBefore(q, last, w) PROVE GapBefore(r, last, w)
  <2> SUFFICES ASSUME NEW j \in 1 .. l + 1, r[j].type = "MSG", NoMsg(r, 1, j - 1)
               PROVE  r[j].id \in {last + 1, 1} \/ w \/ ToldBetween(r, 1, j - 1)
    BY <1>1 DEF GapBefore
  <2>1. NoMsg(q, 1, j - 1) /\ (ToldBetween(r, 1, j - 1) <=> ToldBetween(q, 1, j - 1))
    BY <1>1, <1>3, <1>4
  <2>2. CASE j \in 1 .. l
    BY <1>1, <1>7, <2>1, <2>2 DEF GapBefore
  <2>3. CASE j = l + 1
    <3>1. r[j].id = n + 1 /\ j - 1 = l
      BY <1>1, <2>3
    <3>2. ASSUME NEW k \in 1 .. l, q[k].type = "MSG" PROVE FALSE
      BY <1>1, <2>1, <3>1, <3>2 DEF NoMsg
    <3>3. ASSUME NEW k \in 1 .. l, q[k].type = "SATURATED" PROVE ToldBetween(q, 1, l)
      BY <3>3 DEF ToldBetween
    <3> QED BY <2>1, <3>1, <3>2, <3>3 DEF Following, Told, LastIs
  <2> QED BY <1>1, <2>2, <2>3
<1> QED BY <1>5, <1>6, <1>7 DEF r

(* The main thread takes an event                                          *)
WarnedAfter(e, w) == e.type = "SATURATED" \/ (w /\ e.type # "MSG")
LastAfter(e, last) == IF e.type = "MSG" THEN e.id ELSE last

LEMMA TakeEvent ==
    ASSUME NEW q \in Seq(Events), q # <<>>, NEW last, NEW w \in BOOLEAN
    PROVE  LET e == Head(q)
               l == LastAfter(e, last)
               v == WarnedAfter(e, w)
               r == Tail(q)
           IN  /\ Told(q, w) => Told(r, v)
               /\ \A n : LastIs(q, last, n) => LastIs(r, l, n)
               /\ GapsIn(q) => GapsIn(r)
               /\ GapsIn(q) /\ GapBefore(q, last, w) => GapBefore(r, l, v)
<1> DEFINE e == Head(q)
           l == LastAfter(e, last)
           v == WarnedAfter(e, w)
           r == Tail(q)
           m == Len(r)
<1>1. /\ m \in Nat /\ Len(q) = m + 1 /\ e = q[1] /\ \A i \in 1 .. m : r[i] = q[i + 1]
  OBVIOUS
<1>2. v \in BOOLEAN /\ l = (IF e.type = "MSG" THEN e.id ELSE last)
      /\ v = (e.type = "SATURATED" \/ (w /\ e.type # "MSG"))
  BY DEF WarnedAfter, LastAfter
<1> HIDE DEF r, e, m, l, v
<1>3. \A i, j \in Nat : j <= m /\ i > 0 => (NoMsg(r, i, j) <=> NoMsg(q, i + 1, j + 1))
  <2> SUFFICES ASSUME NEW i \in Nat, NEW j \in Nat, j <= m, i > 0
               PROVE  NoMsg(r, i, j) <=> NoMsg(q, i + 1, j + 1)
    OBVIOUS
  <2>1. ASSUME NoMsg(r, i, j), NEW k \in i + 1 .. j + 1 PROVE q[k].type # "MSG"
    <3>1. k - 1 \in i .. j /\ k - 1 \in 1 .. m /\ (k - 1) + 1 = k
      BY <1>1
    <3>2. r[k - 1] = q[k]
      BY <1>1, <3>1
    <3> QED BY <2>1, <3>1, <3>2 DEF NoMsg
  <2>2. ASSUME NoMsg(q, i + 1, j + 1), NEW k \in i .. j PROVE r[k].type # "MSG"
    <3>1. k + 1 \in i + 1 .. j + 1 /\ k \in 1 .. m
      BY <1>1
    <3>2. r[k] = q[k + 1]
      BY <1>1, <3>1
    <3> QED BY <2>2, <3>1, <3>2 DEF NoMsg
  <2> QED BY <2>1, <2>2 DEF NoMsg
<1>4. \A i, j \in Nat : j <= m /\ i > 0 => (ToldBetween(q, i + 1, j + 1) => ToldBetween(r, i, j))
  <2> SUFFICES ASSUME NEW i \in Nat, NEW j \in Nat, j <= m, i > 0,
                      NEW k \in i + 1 .. j + 1, q[k].type = "SATURATED"
               PROVE  ToldBetween(r, i, j)
    BY DEF ToldBetween
  <2>1. k - 1 \in i .. j /\ k - 1 \in 1 .. m /\ (k - 1) + 1 = k
    BY <1>1
  <2>2. r[k - 1] = q[k]
    BY <1>1, <2>1
  <2> QED BY <2>1, <2>2 DEF ToldBetween
<1>5. \A i \in 1 .. m + 1 : NoMsg(q, i + 1, m + 1) => NoMsg(r, i, m)
  BY <1>1, <1>3
<1>6. NoMsg(q, 1, m + 1) => e.type # "MSG" /\ NoMsg(r, 1, m)
  BY <1>1, <1>5 DEF NoMsg
<1>7. \A k \in 1 .. m + 1 : k = 1 \/ (k - 1 \in 1 .. m /\ r[k - 1] = q[k] /\ (k - 1) + 1 = k)
  <2> SUFFICES ASSUME NEW k \in 1 .. m + 1, k # 1
               PROVE  k - 1 \in 1 .. m /\ r[k - 1] = q[k] /\ (k - 1) + 1 = k
    OBVIOUS
  <2>1. k - 1 \in 1 .. m /\ (k - 1) + 1 = k
    BY <1>1
  <2> QED BY <1>1, <2>1
<1>8. ASSUME Told(q, w) PROVE Told(r, v)
  <2>1. CASE w /\ NoMsg(q, 1, m + 1)
    BY <1>1, <1>2, <1>6, <2>1 DEF Told, m
  <2>2. ASSUME NEW k \in 1 .. m + 1, q[k].type = "SATURATED", NoMsg(q, k + 1, m + 1)
        PROVE  Told(r, v)
    <3>1. NoMsg(r, k, m)
      BY <1>5, <2>2
    <3>2. CASE k = 1
      BY <1>1, <1>2, <2>2, <3>1, <3>2 DEF Told, m
    <3>3. CASE k # 1
      <4>1. k - 1 \in 1 .. m /\ r[k - 1].type = "SATURATED" /\ NoMsg(r, (k - 1) + 1, m)
        BY <1>7, <2>2, <3>1, <3>3
      <4> QED BY <4>1 DEF Told, m
    <3> QED BY <3>2, <3>3
  <2> QED BY <1>1, <1>8, <2>1, <2>2 DEF Told
<1>9. ASSUME NEW n, LastIs(q, last, n) PROVE LastIs(r, l, n)
  <2>1. CASE last = n /\ NoMsg(q, 1, m + 1)
    BY <1>1, <1>2, <1>6, <2>1 DEF LastIs, m
  <2>2. ASSUME NEW k \in 1 .. m + 1, q[k].type = "MSG", q[k].id = n, NoMsg(q, k + 1, m + 1)
        PROVE  LastIs(r, l, n)
    <3>1. NoMsg(r, k, m)
      BY <1>5, <2>2
    <3>2. CASE k = 1
      BY <1>1, <1>2, <2>2, <3>1, <3>2 DEF LastIs, m
    <3>3. CASE k # 1
      <4>1. k - 1 \in 1 .. m /\ r[k - 1].type = "MSG" /\ r[k - 1].id = n /\ NoMsg(r, (k - 1) + 1, m)
        BY <1>7, <2>2, <3>1, <3>3
      <4> QED BY <4>1 DEF LastIs, m
    <3> QED BY <3>2, <3>3
  <2> QED BY <1>1, <1>9, <2>1, <2>2 DEF LastIs
<1>10. ASSUME GapsIn(q) PROVE GapsIn(r)
  <2> SUFFICES ASSUME NEW i \in 1 .. m, NEW j \in 1 .. m, i < j, r[i].type = "MSG",
                      r[j].type = "MSG", NoMsg(r, i + 1, j - 1)
               PROVE  r[j].id \in {r[i].id + 1, 1} \/ ToldBetween(r, i + 1, j - 1)
    BY DEF GapsIn, m
  <2>1. /\ i + 1 \in 1 .. m + 1 /\ j + 1 \in 1 .. m + 1 /\ i + 1 < j + 1 /\ (j - 1) + 1 = (j + 1) - 1
        /\ r[i] = q[i + 1] /\ r[j] = q[j + 1] /\ j - 1 \in Nat /\ j - 1 <= m /\ i + 1 > 0 /\ i + 1 \in Nat
    BY <1>1
  <2>2. NoMsg(q, (i + 1) + 1, (j + 1) - 1)
    BY <1>3, <2>1
  <2>3. q[j + 1].id \in {q[i + 1].id + 1, 1} \/ ToldBetween(q, (i + 1) + 1, (j + 1) - 1)
    BY <1>1, <1>10, <2>1, <2>2 DEF GapsIn
  <2> QED BY <1>4, <2>1, <2>3
<1>11. ASSUME GapsIn(q), GapBefore(q, last, w) PROVE GapBefore(r, l, v)
  <2> SUFFICES ASSUME NEW j \in 1 .. m, r[j].type = "MSG", NoMsg(r, 1, j - 1)
               PROVE  r[j].id \in {l + 1, 1} \/ v \/ ToldBetween(r, 1, j - 1)
    BY DEF GapBefore, m
  <2>1. /\ j + 1 \in 1 .. m + 1 /\ (j - 1) + 1 = (j + 1) - 1 /\ (j + 1) - 1 = j
        /\ r[j] = q[j + 1] /\ j - 1 \in Nat /\ j - 1 <= m /\ 1 \in 1 .. m + 1 /\ 1 < j + 1
    BY <1>1
  <2>2. NoMsg(q, 1 + 1, (j + 1) - 1)
    BY <1>3, <2>1
  <2>3. ToldBetween(q, 1 + 1, (j + 1) - 1) => ToldBetween(r, 1, j - 1)
    BY <1>4, <2>1
  <2>4. CASE e.type = "MSG"
    <3>1. q[j + 1].id \in {q[1].id + 1, 1} \/ ToldBetween(q, 1 + 1, (j + 1) - 1)
      BY <1>1, <1>11, <2>1, <2>2, <2>4 DEF GapsIn
    <3> QED BY <1>1, <1>2, <2>1, <2>3, <2>4, <3>1
  <2>5. CASE e.type # "MSG"
    <3>1. NoMsg(q, 1, (j + 1) - 1)
      BY <1>1, <2>2, <2>5 DEF NoMsg
    <3>2. q[j + 1].id \in {last + 1, 1} \/ w \/ ToldBetween(q, 1, (j + 1) - 1)
      BY <1>1, <1>11, <2>1, <3>1 DEF GapBefore
    <3>3. ToldBetween(q, 1, (j + 1) - 1) => e.type = "SATURATED" \/ ToldBetween(q, 1 + 1, (j + 1) - 1)
      BY <1>1 DEF ToldBetween
    <3> QED BY <1>2, <2>1, <2>3, <2>5, <3>2, <3>3
  <2> QED BY <2>4, <2>5
<1> QED BY <1>8, <1>9, <1>10, <1>11 DEF r, e, l, v

-----------------------------------------------------------------------------
(***************************************************************************)
(* _SendEvent().                                                           *)
(***************************************************************************)
QueueType == [sat : BOOLEAN, events : Seq(Events)]
ConfigOps == {"GETCONFIG", "SETCONFIG"}
Sat == [type |-> "SATURATED", id |-> 0]

(* Saturated or not, and what is queued before the event                   *)
NowSat(q) == IF Len(q.events) > HIGH THEN TRUE ELSE IF Len(q.events) < LOW THEN FALSE ELSE q.sat
Mid(q) == IF NowSat(q) /\ ~q.sat THEN Append(q.events, Sat) ELSE q.events

LEMMA AppendOne == ASSUME NEW q \in Seq(Events), NEW e \in Events
                   PROVE  q \o <<e>> = Append(q, e) /\ q \o <<>> = q
  OBVIOUS

LEMMA SendEventIs ==
    ASSUME NEW q \in QueueType, NEW e \in Events
    PROVE  LET r == SendEvent(q, e)
           IN  /\ r \in QueueType
               /\ r.sat = NowSat(q)
               /\ Mid(q) \in Seq(Events)
               /\ r.events = IF ~NowSat(q) \/ e.type # "MSG" THEN Append(Mid(q), e) ELSE Mid(q)
<1> DEFINE s == q.events
<1>1. s \in Seq(Events) /\ q.sat \in BOOLEAN /\ Len(s) \in Nat
  BY DEF QueueType
<1>2. NowSat(q) \in BOOLEAN
  BY <1>1 DEF NowSat
<1>3. Sat \in Events
  BY DEF Sat, Events, EventTypes
<1>4. Mid(q) = s \o (IF NowSat(q) /\ ~q.sat THEN <<Sat>> ELSE <<>>) /\ Mid(q) \in Seq(Events)
  <2>1. s \o <<Sat>> = Append(s, Sat) /\ s \o <<>> = s
    BY <1>1, <1>3, AppendOne
  <2>2. Append(s, Sat) \in Seq(Events)
    BY <1>1, <1>3, AppendIs
  <2>3. Mid(q) = IF NowSat(q) /\ ~q.sat THEN Append(s, Sat) ELSE s
    BY DEF Mid
  <2> HIDE DEF s
  <2>4. CASE NowSat(q) /\ ~q.sat
    BY <2>1, <2>2, <2>3, <2>4
  <2>5. CASE ~(NowSat(q) /\ ~q.sat)
    BY <1>1, <2>1, <2>3, <2>5
  <2> QED BY <2>4, <2>5
<1>5. SendEvent(q, e) = [sat |-> NowSat(q), events |->
        Mid(q) \o (IF ~NowSat(q) \/ e.type # "MSG" THEN <<e>> ELSE <<>>)]
  BY <1>4 DEF SendEvent, NowSat, Sat
<1>6. Mid(q) \o (IF ~NowSat(q) \/ e.type # "MSG" THEN <<e>> ELSE <<>>) =
        IF ~NowSat(q) \/ e.type # "MSG" THEN Append(Mid(q), e) ELSE Mid(q)
  BY <1>4, AppendOne
<1>7. Append(Mid(q), e) \in Seq(Events)
  BY <1>4, AppendIs
<1> DEFINE ev == IF ~NowSat(q) \/ e.type # "MSG" THEN Append(Mid(q), e) ELSE Mid(q)
<1>8. SendEvent(q, e) = [sat |-> NowSat(q), events |-> ev] /\ ev \in Seq(Events)
  BY <1>4, <1>5, <1>6, <1>7
<1> HIDE DEF ev
<1>9. SendEvent(q, e) \in QueueType /\ SendEvent(q, e).sat = NowSat(q) /\ SendEvent(q, e).events = ev
  BY <1>2, <1>8 DEF QueueType
<1> QED BY <1>4, <1>9 DEF ev

(* The saturation is told before a message is dropped                      *)
LEMMA MidTold ==
    ASSUME NEW q \in QueueType, NEW last, NEW w, GapsTold(q, last, w)
    PROVE  /\ NowSat(q) => Told(Mid(q), w)
           /\ GapsIn(Mid(q)) /\ GapBefore(Mid(q), last, w)
<1>1. q.events \in Seq(Events) /\ q.sat \in BOOLEAN /\ Len(q.events) \in Nat
  BY DEF QueueType
<1>2. Sat \in Events /\ Sat.type = "SATURATED" /\ Sat.type # "MSG"
  BY DEF Sat, Events, EventTypes
<1>3. LOW \in Nat /\ HIGH \in Nat /\ LOW <= HIGH
  BY ReceiverAssumption
<1>4. NowSat(q) /\ q.sat => Told(q.events, w)
  BY <1>1, <1>3 DEF GapsTold, Dropping, NowSat
<1>5. Told(Append(q.events, Sat), w)
  BY <1>1, <1>2, AppendOther
<1>6. GapsIn(q.events) /\ GapBefore(q.events, last, w)
  BY DEF GapsTold
<1>7. GapsIn(Append(q.events, Sat)) /\ GapBefore(Append(q.events, Sat), last, w)
  BY <1>1, <1>2, <1>6, AppendOther
<1> QED BY <1>1, <1>4, <1>5, <1>6, <1>7 DEF Mid

LEMMA MidFollowing ==
    ASSUME NEW q \in QueueType, NEW last, NEW w, NEW n, Following(q.events, last, w, n)
    PROVE  Following(Mid(q), last, w, n)
<1>1. q.events \in Seq(Events)
  BY DEF QueueType
<1>2. Sat \in Events /\ Sat.type # "MSG"
  BY DEF Sat, Events, EventTypes
<1> QED BY <1>1, <1>2, AppendOther DEF Mid, Following

(* What sending an event that is no message does for the gaps              *)
LEMMA SendOtherGaps ==
    ASSUME NEW q \in QueueType, NEW e \in Events, e.type # "MSG", NEW last, NEW w
    PROVE  /\ GapsTold(q, last, w) => GapsTold(SendEvent(q, e), last, w)
           /\ \A n : Following(q.events, last, w, n) => Following(SendEvent(q, e).events, last, w, n)
<1> DEFINE r == SendEvent(q, e)
           m == Mid(q)
<1>1. /\ r \in QueueType /\ r.sat = NowSat(q)
      /\ m \in Seq(Events) /\ r.events = Append(m, e)
  BY SendEventIs
<1>m. /\ GapsTold(q, last, w) => (NowSat(q) => Told(m, w)) /\ GapsIn(m) /\ GapBefore(m, last, w)
      /\ \A n : Following(q.events, last, w, n) => Following(m, last, w, n)
  BY MidTold, MidFollowing
<1> HIDE DEF r, m
<1>2. ASSUME GapsTold(q, last, w) PROVE GapsTold(r, last, w)
  BY <1>1, <1>2, <1>m, AppendOther DEF GapsTold, Dropping
<1>3. ASSUME NEW n, Following(q.events, last, w, n) PROVE Following(r.events, last, w, n)
  <2>1. n = 0 \/ Told(m, w) \/ LastIs(m, last, n)
    BY <1>3, <1>m DEF Following
  <2>2. /\ Told(m, w) => Told(Append(m, e), w)
        /\ LastIs(m, last, n) => LastIs(Append(m, e), last, n)
    BY <1>1, AppendOther
  <2> QED BY <1>1, <2>1, <2>2 DEF Following
<1> QED BY <1>2, <1>3 DEF r

(* ... and a message                                                       *)
LEMMA SendMsgGaps ==
    ASSUME NEW q \in QueueType, NEW e \in Events, NEW n \in Nat, e.type = "MSG", e.id = n + 1,
           NEW last, NEW w \in BOOLEAN, GapsTold(q, last, w), Following(q.events, last, w, n)
    PROVE  /\ GapsTold(SendEvent(q, e), last, w)
           /\ Following(SendEvent(q, e).events, last, w, n + 1)
<1> DEFINE r == SendEvent(q, e)
           m == Mid(q)
<1>1. /\ r \in QueueType /\ r.sat = NowSat(q)
      /\ m \in Seq(Events) /\ r.events = IF ~NowSat(q) THEN Append(m, e) ELSE m
  BY SendEventIs
<1>2. /\ NowSat(q) => Told(m, w)
      /\ GapsIn(m) /\ GapBefore(m, last, w)
      /\ Following(m, last, w, n)
  BY MidTold, MidFollowing
<1> HIDE DEF r, m
<1>3. CASE NowSat(q)
  BY <1>1, <1>2, <1>3 DEF GapsTold, Dropping, Following, r
<1>4. CASE ~NowSat(q)
  <2>1. /\ LastIs(Append(m, e), last, n + 1)
        /\ GapsIn(Append(m, e))
        /\ GapBefore(Append(m, e), last, w)
    BY <1>1, <1>2, AppendMsg
  <2> QED BY <1>1, <1>4, <2>1 DEF GapsTold, Dropping, Following, r
<1> QED BY <1>3, <1>4

(***************************************************************************)
(* The answers among the events, and who a request belongs to.             *)
(***************************************************************************)
Req == [op : EventTypes, id : Nat]
RequestsOf(es) == [i \in 1 .. Len(es) |-> RequestOf(es[i])]
Answers(es) == Selected(RequestsOf(es), ConfigRequest)

LEMMA RequestsOfType ==
    ASSUME NEW es \in Seq(Events)
    PROVE  RequestsOf(es) \in Seq(Req) /\ (es = <<>> => RequestsOf(es) = <<>>)
<1>1. \A i \in 1 .. Len(es) : RequestOf(es[i]) \in Req
  <2> SUFFICES ASSUME NEW i \in 1 .. Len(es) PROVE RequestOf(es[i]) \in Req
    OBVIOUS
  <2>1. es[i] \in Events
    OBVIOUS
  <2> QED BY <2>1 DEF RequestOf, Req, Events
<1>2. Len(es) \in Nat /\ (es = <<>> => Len(es) = 0)
  OBVIOUS
<1>3. RequestsOf(es) \in Seq(Req) /\ Len(RequestsOf(es)) = Len(es)
  BY <1>1, <1>2 DEF RequestsOf
<1>4. es = <<>> => RequestsOf(es) = <<>>
  BY <1>2, <1>3
<1> QED BY <1>3, <1>4

LEMMA RequestsOfAppend ==
    ASSUME NEW es \in Seq(Events), NEW e \in Events
    PROVE  RequestsOf(Append(es, e)) = Append(RequestsOf(es), RequestOf(e)) /\ RequestOf(e) \in Req
<1> DEFINE r == Append(es, e)
           a == RequestsOf(es)
           b == RequestsOf(r)
           x == RequestOf(e)
           n == Len(es)
<1>1. /\ r \in Seq(Events) /\ Len(r) = n + 1 /\ n \in Nat /\ r[n + 1] = e
      /\ \A i \in 1 .. n : r[i] = es[i]
  BY AppendIs
<1>2. a \in Seq(Req) /\ b \in Seq(Req) /\ x \in Req
  BY <1>1, RequestsOfType DEF RequestOf, Req, Events
<1>3. /\ Len(a) = n /\ Len(b) = n + 1
      /\ \A i \in 1 .. n : a[i] = RequestOf(es[i])
      /\ \A i \in 1 .. n + 1 : b[i] = RequestOf(r[i])
  BY <1>1 DEF RequestsOf
<1>4. b[n + 1] = x /\ \A i \in 1 .. n : b[i] = a[i]
  BY <1>1, <1>3
<1> HIDE DEF a, b, x, n, r
<1>5. b = Append(a, x)
  BY <1>1, <1>2, <1>3, <1>4
<1> QED BY <1>2, <1>5 DEF a, b, x, r

LEMMA RequestsOfTail ==
    ASSUME NEW es \in Seq(Events), es # <<>>
    PROVE  /\ RequestsOf(Tail(es)) = Tail(RequestsOf(es)) /\ RequestsOf(es) # <<>>
           /\ Head(RequestsOf(es)) = RequestOf(Head(es))
<1> DEFINE r == Tail(es)
           a == RequestsOf(es)
           b == RequestsOf(r)
           n == Len(r)
<1>1. /\ r \in Seq(Events) /\ Len(es) = n + 1 /\ n \in Nat /\ es[1] = Head(es)
      /\ \A i \in 1 .. n : r[i] = es[i + 1]
  OBVIOUS
<1>2. a \in Seq(Req) /\ b \in Seq(Req)
  BY <1>1, RequestsOfType
<1>3. /\ Len(a) = n + 1 /\ Len(b) = n
      /\ \A i \in 1 .. n + 1 : a[i] = RequestOf(es[i])
      /\ \A i \in 1 .. n : b[i] = RequestOf(r[i])
  BY <1>1 DEF RequestsOf
<1>4. a[1] = RequestOf(Head(es)) /\ \A i \in 1 .. n : b[i] = a[i + 1]
  BY <1>1, <1>3
<1> HIDE DEF a, b, n, r
<1>5. b = Tail(a) /\ a # <<>> /\ Head(a) = a[1]
  BY <1>1, <1>2, <1>3, <1>4
<1> QED BY <1>4, <1>5 DEF a, b, r

LEMMA AnswersAppend ==
    ASSUME NEW es \in Seq(Events), NEW e \in Events
    PROVE  /\ RequestOf(e) \notin ConfigRequest => Answers(Append(es, e)) = Answers(es)
           /\ RequestOf(e) \in ConfigRequest =>
                Answers(Append(es, e)) = Append(Answers(es), RequestOf(e))
<1> DEFINE a == RequestsOf(es)
           x == RequestOf(e)
<1>1. a \in Seq(Req) /\ x \in Req /\ RequestsOf(Append(es, e)) = Append(a, x)
  BY RequestsOfType, RequestsOfAppend
<1> HIDE DEF a, x
<1>2. Selected(Append(a, x), ConfigRequest) =
        IF x \in ConfigRequest THEN Append(Selected(a, ConfigRequest), x) ELSE Selected(a, ConfigRequest)
  BY <1>1, SelectedAppend
<1>3. Answers(Append(es, e)) = Selected(Append(a, x), ConfigRequest)
  BY <1>1 DEF Answers
<1>4. Answers(es) = Selected(a, ConfigRequest)
  BY DEF Answers, a
<1> QED BY <1>2, <1>3, <1>4 DEF x

LEMMA AnswersTail ==
    ASSUME NEW es \in Seq(Events), es # <<>>
    PROVE  /\ Answers(Tail(es)) \in Seq(ConfigRequest)
           /\ RequestOf(Head(es)) \notin ConfigRequest => Answers(es) = Answers(Tail(es))
           /\ RequestOf(Head(es)) \in ConfigRequest =>
                Answers(es) # <<>> /\ Head(Answers(es)) = RequestOf(Head(es))
                /\ Tail(Answers(es)) = Answers(Tail(es))
<1> DEFINE a == RequestsOf(es)
           x == RequestOf(Head(es))
           t == Selected(Tail(a), ConfigRequest)
<1>1. a \in Seq(Req) /\ a # <<>> /\ Head(a) = x /\ RequestsOf(Tail(es)) = Tail(a)
  BY RequestsOfType, RequestsOfTail
<1> HIDE DEF a, x
<1>2. Selected(a, ConfigRequest) = IF x \in ConfigRequest THEN <<x>> \o t ELSE t
  BY <1>1, SelectedTail
<1>3. t \in Seq(ConfigRequest)
  <2>1. Tail(a) \in Seq(Req)
    BY <1>1
  <2> QED BY <2>1, SelectedType
<1>4. Answers(Tail(es)) = t /\ Answers(es) = Selected(a, ConfigRequest)
  BY <1>1 DEF Answers, a
<1> HIDE DEF t
<1>5. x \in ConfigRequest => <<x>> \o t # <<>> /\ Head(<<x>> \o t) = x /\ Tail(<<x>> \o t) = t
  BY <1>3
<1> QED BY <1>2, <1>3, <1>4, <1>5 DEF x

LEMMA OneRequestAppend ==
    ASSUME NEW op, NEW cb, NEW cs, NEW c, NEW es \in Seq(Events), NEW e \in Events,
           OneRequest(op, cb, cs, c, es)
    PROVE  /\ e.type # op => OneRequest(op, cb, cs, c, Append(es, e))
           /\ c.op = op /\ e.type = op /\ e.id = c.id /\ op # "NOOP" =>
                OneRequest(op, cb, cs, NoCommand, Append(es, e))
<1> DEFINE r == Append(es, e)
           n == Len(es)
<1>1. /\ r \in Seq(Events) /\ Len(r) = n + 1 /\ n \in Nat /\ r[n + 1] = e
      /\ \A i \in 1 .. n : r[i] = es[i]
  BY AppendIs
<1>2. \A i \in 1 .. n + 1 : i \in 1 .. n \/ i = n + 1
  BY <1>1
<1> HIDE DEF r
<1>3. ASSUME e.type # op PROVE OneRequest(op, cb, cs, c, r)
  BY <1>1, <1>2, <1>3 DEF OneRequest
<1>4. ASSUME c.op = op, e.type = op, e.id = c.id, op # "NOOP" PROVE OneRequest(op, cb, cs, NoCommand, r)
  <2>1. \A i \in 1 .. Len(cs) : cs[i].op # op
    BY <1>4 DEF OneRequest
  <2>2. \A i \in 1 .. n : es[i].type # op
    BY <1>4 DEF OneRequest
  <2>3. NoCommand.op # op
    BY <1>4 DEF NoCommand
  <2>4. e.id = cb
    BY <1>4 DEF OneRequest
  <2>5. \A i \in 1 .. n + 1 : r[i].type = op => i = n + 1
    BY <1>1, <1>2, <2>2
  <2> QED BY <1>1, <2>1, <2>3, <2>4, <2>5 DEF OneRequest
<1> QED BY <1>3, <1>4 DEF r

LEMMA NumberedAppend ==
    ASSUME NEW es \in Seq(Events), NEW e \in Events, Numbered(es),
           e.type = "MSG" => e.id \in 0 .. MaxMsgs,
           e.type \in ConfigOps => e.id \in 1 .. MaxRequests
    PROVE  Numbered(Append(es, e))
<1> DEFINE r == Append(es, e)
           n == Len(es)
<1>1. /\ r \in Seq(Events) /\ Len(r) = n + 1 /\ n \in Nat /\ r[n + 1] = e
      /\ \A i \in 1 .. n : r[i] = es[i]
  BY AppendIs
<1>2. \A i \in 1 .. n + 1 : i \in 1 .. n \/ i = n + 1
  BY <1>1
<1> HIDE DEF r
<1>3. Numbered(r)
  BY <1>1, <1>2 DEF Numbered, ConfigOps
<1> QED BY <1>3 DEF r

(* An event that says nothing about messages or requests                   *)
Quiet(q, r) ==
    /\ r \in QueueType
    /\ Numbered(q.events) => Numbered(r.events)
    /\ \A last, w : GapsTold(q, last, w) => GapsTold(r, last, w)
    /\ \A last, w, n : Following(q.events, last, w, n) => Following(r.events, last, w, n)
    /\ Answers(r.events) = Answers(q.events)
    /\ \A op \in ConfigOps : \A cb, cs, c :
            OneRequest(op, cb, cs, c, q.events) => OneRequest(op, cb, cs, c, r.events)

LEMMA QuietSelf == ASSUME NEW q \in QueueType PROVE Quiet(q, q)
  BY DEF Quiet

LEMMA QuietTwice == ASSUME NEW q, NEW r, NEW s, Quiet(q, r), Quiet(r, s) PROVE Quiet(q, s)
  BY DEF Quiet

(* The complaint is one                                                    *)
LEMMA MidKeeps ==
    ASSUME NEW q \in QueueType
    PROVE  /\ Mid(q) \in Seq(Events)
           /\ Numbered(q.events) => Numbered(Mid(q))
           /\ Answers(Mid(q)) = Answers(q.events)
           /\ \A op \in ConfigOps : \A cb, cs, c :
                   OneRequest(op, cb, cs, c, q.events) => OneRequest(op, cb, cs, c, Mid(q))
<1>1. q.events \in Seq(Events)
  BY DEF QueueType
<1>2. Sat \in Events /\ Sat.type = "SATURATED" /\ RequestOf(Sat) \notin ConfigRequest
  BY DEF Sat, Events, EventTypes, RequestOf, ConfigRequest
<1> DEFINE r == Append(q.events, Sat)
<1>3. r \in Seq(Events) /\ (Numbered(q.events) => Numbered(r)) /\ Answers(r) = Answers(q.events)
  BY <1>1, <1>2, AppendIs, NumberedAppend, AnswersAppend DEF ConfigOps
<1>4. \A op \in ConfigOps : \A cb, cs, c :
        OneRequest(op, cb, cs, c, q.events) => OneRequest(op, cb, cs, c, r)
  BY <1>1, <1>2, OneRequestAppend DEF ConfigOps
<1>5. Mid(q) = q.events \/ Mid(q) = r
  BY DEF Mid
<1> HIDE DEF r
<1> QED BY <1>1, <1>3, <1>4, <1>5

LEMMA SendQuiet ==
    ASSUME NEW q \in QueueType
    PROVE  Quiet(q, SendEvent(q, Other))
<1> DEFINE r == SendEvent(q, Other)
           m == Mid(q)
<1>1. Other \in Events /\ Other.type = "OTHER" /\ RequestOf(Other) \notin ConfigRequest
  BY DEF Other, Events, EventTypes, RequestOf, ConfigRequest
<1>2. r \in QueueType /\ m \in Seq(Events) /\ r.events = Append(m, Other)
  BY <1>1, SendEventIs
<1>3. /\ \A last, w : GapsTold(q, last, w) => GapsTold(r, last, w)
      /\ \A last, w, n : Following(q.events, last, w, n) => Following(r.events, last, w, n)
  BY <1>1, SendOtherGaps
<1>4. /\ Numbered(q.events) => Numbered(m)
      /\ Answers(m) = Answers(q.events)
      /\ \A op \in ConfigOps : \A cb, cs, c :
            OneRequest(op, cb, cs, c, q.events) => OneRequest(op, cb, cs, c, m)
  BY MidKeeps
<1> HIDE DEF r, m
<1>5. /\ Numbered(m) => Numbered(Append(m, Other))
      /\ Answers(Append(m, Other)) = Answers(m)
  BY <1>1, <1>2, NumberedAppend, AnswersAppend DEF ConfigOps
<1>6. \A op \in ConfigOps : \A cb, cs, c :
        OneRequest(op, cb, cs, c, m) => OneRequest(op, cb, cs, c, Append(m, Other))
  BY <1>1, <1>2, OneRequestAppend DEF ConfigOps
<1>7. Quiet(q, r)
  BY <1>2, <1>3, <1>4, <1>5, <1>6 DEF Quiet
<1> QED BY <1>7 DEF r

(* Message n + 1 after message n                                           *)
NewMsg(q, r, n) ==
    /\ r \in QueueType
    /\ Numbered(q.events) /\ n < MaxMsgs => Numbered(r.events)
    /\ \A last : \A w \in BOOLEAN : GapsTold(q, last, w) /\ Following(q.events, last, w, n) =>
            GapsTold(r, last, w) /\ Following(r.events, last, w, n + 1)
    /\ Answers(r.events) = Answers(q.events)
    /\ \A op \in ConfigOps : \A cb, cs, c :
            OneRequest(op, cb, cs, c, q.events) => OneRequest(op, cb, cs, c, r.events)

LEMMA SendMsg ==
    ASSUME NEW q \in QueueType, NEW n \in Nat
    PROVE  NewMsg(q, SendEvent(q, [type |-> "MSG", id |-> n + 1]), n)
<1> DEFINE e == [type |-> "MSG", id |-> n + 1]
           r == SendEvent(q, e)
           m == Mid(q)
<1>1. e \in Events /\ e.type = "MSG" /\ e.id = n + 1 /\ RequestOf(e) \notin ConfigRequest
  BY DEF Events, EventTypes, RequestOf, ConfigRequest, SetOps
<1> HIDE DEF e
<1>2. /\ r \in QueueType /\ m \in Seq(Events)
      /\ r.events = Append(m, e) \/ r.events = m
  BY <1>1, SendEventIs
<1>3. \A last : \A w \in BOOLEAN : GapsTold(q, last, w) /\ Following(q.events, last, w, n) =>
            GapsTold(r, last, w) /\ Following(r.events, last, w, n + 1)
  BY <1>1, SendMsgGaps
<1>4. /\ Numbered(q.events) => Numbered(m)
      /\ Answers(m) = Answers(q.events)
      /\ \A op \in ConfigOps : \A cb, cs, c :
            OneRequest(op, cb, cs, c, q.events) => OneRequest(op, cb, cs, c, m)
  BY MidKeeps
<1> HIDE DEF r, m
<1>5. /\ Numbered(m) /\ n < MaxMsgs => Numbered(Append(m, e))
      /\ Answers(Append(m, e)) = Answers(m)
  <2>1. n < MaxMsgs => e.id \in 0 .. MaxMsgs
    BY <1>1, ReceiverAssumption
  <2> QED BY <1>1, <1>2, <2>1, NumberedAppend, AnswersAppend DEF ConfigOps
<1>6. \A op \in ConfigOps : \A cb, cs, c :
        OneRequest(op, cb, cs, c, m) => OneRequest(op, cb, cs, c, Append(m, e))
  BY <1>1, <1>2, OneRequestAppend DEF ConfigOps
<1>7. NewMsg(q, r, n)
  BY <1>2, <1>3, <1>4, <1>5, <1>6 DEF NewMsg
<1> QED BY <1>7 DEF r, e

(* The answer to the request that is being executed                        *)
Answered(q, r, req) ==
    /\ r \in QueueType
    /\ Numbered(q.events) => Numbered(r.events)
    /\ \A last, w : GapsTold(q, last, w) => GapsTold(r, last, w)
    /\ \A last, w, n : Following(q.events, last, w, n) => Following(r.events, last, w, n)
    /\ Answers(r.events) = Append(Answers(q.events), req)
    /\ \A op \in ConfigOps : \A cb, cs :
            OneRequest(op, cb, cs, req, q.events) => OneRequest(op, cb, cs, NoCommand, r.events)

LEMMA SendAnswer ==
    ASSUME NEW q \in QueueType, NEW req \in ConfigRequest, req.op \in ConfigOps
    PROVE  Answered(q, SendEvent(q, [type |-> req.op, id |-> req.id]), req)
<1> DEFINE e == [type |-> req.op, id |-> req.id]
           r == SendEvent(q, e)
           m == Mid(q)
<1>1. /\ e \in Events /\ e.type = req.op /\ e.type \in ConfigOps /\ e.type # "MSG"
      /\ e.id = req.id /\ e.id \in 1 .. MaxRequests /\ RequestOf(e) = req
  BY ReceiverAssumption DEF Events, EventTypes, RequestOf, ConfigRequest, ConfigOps, SetOps
<1> HIDE DEF e
<1>2. r \in QueueType /\ m \in Seq(Events) /\ r.events = Append(m, e)
  BY <1>1, SendEventIs
<1>3. /\ \A last, w : GapsTold(q, last, w) => GapsTold(r, last, w)
      /\ \A last, w, n : Following(q.events, last, w, n) => Following(r.events, last, w, n)
  BY <1>1, SendOtherGaps
<1>4. /\ Numbered(q.events) => Numbered(m)
      /\ Answers(m) = Answers(q.events)
      /\ \A op \in ConfigOps : \A cb, cs, c :
            OneRequest(op, cb, cs, c, q.events) => OneRequest(op, cb, cs, c, m)
  BY MidKeeps
<1> HIDE DEF r, m
<1>5. /\ Numbered(m) => Numbered(Append(m, e))
      /\ Answers(Append(m, e)) = Append(Answers(m), req)
  BY <1>1, <1>2, NumberedAppend, AnswersAppend DEF ConfigOps
<1>6. ASSUME NEW op \in ConfigOps, NEW cb, NEW cs, OneRequest(op, cb, cs, req, m)
      PROVE  OneRequest(op, cb, cs, NoCommand, Append(m, e))
  <2>1. CASE op = req.op
    BY <1>1, <1>2, <1>6, <2>1, OneRequestAppend DEF ConfigOps
  <2>2. CASE op # req.op
    <3>1. OneRequest(op, cb, cs, req, Append(m, e))
      BY <1>1, <1>2, <1>6, <2>2, OneRequestAppend
    <3>2. NoCommand.op # op
      BY DEF NoCommand, ConfigOps
    <3> QED BY <3>1, <3>2 DEF OneRequest
  <2> QED BY <2>1, <2>2
<1>7. Answered(q, r, req)
  BY <1>2, <1>3, <1>4, <1>5, <1>6 DEF Answered
<1> QED BY <1>7 DEF r, e

-----------------------------------------------------------------------------
(***************************************************************************)
(* Every step keeps the invariant.                                         *)
(***************************************************************************)
LEMMA QueueIs ==
    ASSUME IInv
    PROVE  /\ eventQueue \in Seq(Events) /\ saturated \in BOOLEAN /\ Queue \in QueueType
           /\ Queue.events = eventQueue /\ Queue.sat = saturated
  BY DEF IInv, TypeOK, Events, EventTypes, Queue, QueueType

LEMMA ConfigAnswersIs == ConfigAnswers = Answers(eventQueue) /\ ConfigAnswers' = Answers(eventQueue')
  BY DEF ConfigAnswers, Answers, RequestsOf

LEMMA BecomesIs ==
    ASSUME NEW r \in QueueType, Becomes(r)
    PROVE  /\ Queue' = r /\ eventQueue' = r.events /\ saturated' = r.sat
           /\ eventQueue' \in Seq(Events) /\ saturated' \in BOOLEAN
  BY DEF Becomes, Queue, QueueType

(* When no message and no answer is sent                                   *)
LEMMA QuietStep ==
    ASSUME IInv, NEW r, Quiet(Queue, r), Becomes(r), UNCHANGED seen
    PROVE  /\ eventQueue' \in Seq(Events) /\ saturated' \in BOOLEAN
           /\ Numbered(eventQueue')
           /\ GapsTold(Queue', lastSeq', warned')
           /\ \A n : Following(eventQueue, lastSeq, warned, n) =>
                        Following(eventQueue', lastSeq', warned', n)
           /\ ConfigAnswers' = ConfigAnswers
           /\ \A op \in ConfigOps : \A cb, cs, c :
                 OneRequest(op, cb, cs, c, eventQueue) => OneRequest(op, cb, cs, c, eventQueue')
<1>1. Queue.events = eventQueue /\ Numbered(eventQueue) /\ GapsTold(Queue, lastSeq, warned)
  BY QueueIs DEF IInv, Gaps
<1>2. r \in QueueType
  BY DEF Quiet
<1>3. Queue' = r /\ eventQueue' = r.events /\ eventQueue' \in Seq(Events) /\ saturated' \in BOOLEAN
  BY <1>2, BecomesIs
<1>4. lastSeq' = lastSeq /\ warned' = warned
  BY DEF seen
<1>5. Answers(r.events) = Answers(Queue.events)
  BY DEF Quiet
<1>6. ConfigAnswers' = ConfigAnswers
  BY <1>1, <1>3, <1>5, ConfigAnswersIs
<1>7. GapsTold(r, lastSeq, warned) /\ Numbered(r.events)
  BY <1>1 DEF Quiet
<1>8. \A n : Following(Queue.events, lastSeq, warned, n) => Following(r.events, lastSeq, warned, n)
  BY DEF Quiet
<1>9. \A op \in ConfigOps : \A cb, cs, c :
        OneRequest(op, cb, cs, c, Queue.events) => OneRequest(op, cb, cs, c, r.events)
  BY DEF Quiet
<1> QED BY <1>1, <1>3, <1>4, <1>6, <1>7, <1>8, <1>9

LEMMA QuietInv ==
    ASSUME IInv, NEW r, Quiet(Queue, r), Becomes(r), UNCHANGED <<callbacks, silent, seen, msgSeq>>,
           commandQueue' = commandQueue, command' = command, tpc' \in Sending => tpc \in Sending
    PROVE  Numbered(eventQueue)' /\ Gaps' /\ Requests'
<1>1. /\ Numbered(eventQueue')
      /\ GapsTold(Queue', lastSeq', warned')
      /\ \A n : Following(eventQueue, lastSeq, warned, n) =>
                   Following(eventQueue', lastSeq', warned', n)
      /\ \A op \in ConfigOps : \A cb, cs, c :
            OneRequest(op, cb, cs, c, eventQueue) => OneRequest(op, cb, cs, c, eventQueue')
  BY QuietStep
<1>2. GapAhead'
  BY <1>1 DEF IInv, Gaps, GapAhead
<1>3. Requests'
  BY <1>1 DEF IInv, Requests, callbacks, ConfigOps
<1> QED BY <1>1, <1>2, <1>3 DEF Gaps

LEMMA InitInv == ASSUME Init PROVE IInv
<1> USE ReceiverAssumption
<1>1. TypeOK
  <2>1. commandQueue \in Seq(Commands) /\ eventQueue \in Seq(Events)
    BY DEF Init
  <2>2. getCb \in 0 .. MaxRequests /\ setCb \in 0 .. MaxRequests /\ reqs \in 0 .. MaxRequests
    BY DEF Init
  <2>3. msgSeq \in 0 .. MaxMsgs /\ lastSeq \in 0 .. MaxMsgs /\ starts \in 0 .. MaxStarts
    BY DEF Init
  <2>4. command = NoCommand /\ tpc = "none"
    BY DEF Init
  <2>5. mpc = "loop" /\ abort = FALSE /\ port = FALSE /\ saturated = FALSE /\ silent = FALSE
        /\ pollNext = FALSE /\ warned = FALSE /\ state = "IDLE"
    BY DEF Init
  <2>6. command.op # "SETNONE"
    BY <2>4 DEF NoCommand
  <2> QED BY <2>1, <2>2, <2>3, <2>4, <2>5, <2>6 DEF TypeOK, Commands, Events, EventTypes
<1>2. Numbered(eventQueue)
  BY DEF Init, Numbered
<1>3. IdleIsIdle
  BY DEF Init, IdleIsIdle
<1>4. Gaps
  BY DEF Init, Gaps, GapsTold, GapsIn, GapBefore, Dropping, GapAhead, Sending, Queue
<1>5. Requests
  BY DEF Init, Requests, OneRequest, NoCommand
<1> QED BY <1>1, <1>2, <1>3, <1>4, <1>5 DEF IInv

(* The steps that send nothing, and move neither requests nor messages     *)
LEMMA SilentInv ==
    ASSUME IInv, LoopDone \/ NextFrame \/ Started \/ Stop \/ Stopped \/ Check \/ PumpDone
    PROVE  IInv'
<1>1. Quiet(Queue, Queue) /\ Becomes(Queue)
  BY QueueIs, QuietSelf DEF Becomes, LoopDone, NextFrame, Started, Stop, Stopped, Check, PumpDone, queues
<1>2. TypeOK'
  <2> USE DEF IInv, TypeOK, queues, callbacks, asked, seen, thread, main
  <2>1. CASE LoopDone
    BY <2>1 DEF LoopDone
  <2>2. CASE NextFrame
    BY <2>2 DEF NextFrame
  <2>3. CASE Started
    BY <2>3 DEF Started
  <2>4. CASE Stop
    BY <2>4 DEF Stop
  <2>5. CASE Stopped
    BY <2>5 DEF Stopped
  <2>6. CASE Check
    BY <2>6 DEF Check
  <2>7. CASE PumpDone
    BY <2>7 DEF PumpDone
  <2> QED BY <2>1, <2>2, <2>3, <2>4, <2>5, <2>6, <2>7
<1>3. /\ UNCHANGED <<callbacks, silent, seen, msgSeq>>
      /\ commandQueue' = commandQueue /\ command' = command
      /\ tpc' \in Sending => tpc \in Sending
  BY DEF IInv, TypeOK, LoopDone, NextFrame, Started, Stop, Stopped, Check, PumpDone, queues,
         callbacks, asked, seen, thread, main, Sending
<1>4. IdleIsIdle'
  BY DEF IInv, IdleIsIdle, LoopDone, NextFrame, Started, Stop, Stopped, Check, PumpDone, thread, main
<1> QED BY <1>1, <1>2, <1>3, <1>4, QuietInv DEF IInv

(* Those of the thread that send what is no message and no answer          *)
LEMMA OtherInv ==
    ASSUME IInv, Connect \/ ConnectFails \/ Yield \/ ThreadCleanup
    PROVE  IInv'
<1>0. Queue \in QueueType /\ Quiet(Queue, Queue) /\ Quiet(Queue, Sent(Other))
  BY QueueIs, QuietSelf, SendQuiet DEF Sent
<1>1. PICK r : Quiet(Queue, r) /\ Becomes(r)
  <2>1. Becomes(Sent(Other)) \/ Becomes(Queue)
    BY DEF Becomes, Queue, Connect, ConnectFails, Yield, ThreadCleanup
  <2> QED BY <1>0, <2>1
<1>2. eventQueue' \in Seq(Events) /\ saturated' \in BOOLEAN
  BY <1>1, BecomesIs DEF Quiet
<1>3. TypeOK'
  <2> USE <1>2 DEF IInv, TypeOK, Events, EventTypes, callbacks, asked, seen, main
  <2>1. CASE Connect
    BY <2>1 DEF Connect
  <2>2. CASE ConnectFails
    BY <2>2 DEF ConnectFails
  <2>3. CASE Yield
    BY <2>3 DEF Yield
  <2>4. CASE ThreadCleanup
    BY <2>4 DEF ThreadCleanup
  <2> QED BY <2>1, <2>2, <2>3, <2>4
<1>4. /\ UNCHANGED <<callbacks, silent, seen, msgSeq>>
      /\ commandQueue' = commandQueue /\ command' = command
      /\ tpc' \in Sending => tpc \in Sending
  BY DEF Connect, ConnectFails, Yield, ThreadCleanup, callbacks, asked, seen, main, Sending
<1>5. IdleIsIdle'
  BY DEF IInv, IdleIsIdle, Connect, ConnectFails, Yield, ThreadCleanup
<1> QED BY <1>1, <1>3, <1>4, <1>5, QuietInv DEF IInv

LEMMA ThreadPrepareInv ==
    ASSUME IInv, ThreadPrepare
    PROVE  IInv'
<1>1. Quiet(Queue, Sent(Other)) /\ Becomes(Sent(Other)) /\ UNCHANGED seen
  BY QueueIs, SendQuiet DEF Sent, ThreadPrepare, main
<1>2. /\ eventQueue' \in Seq(Events) /\ saturated' \in BOOLEAN
      /\ Numbered(eventQueue')
      /\ GapsTold(Queue', lastSeq', warned')
      /\ \A op \in ConfigOps : \A cb, cs, c :
            OneRequest(op, cb, cs, c, eventQueue) => OneRequest(op, cb, cs, c, eventQueue')
  BY <1>1, QuietStep
<1>3. TypeOK'
  BY <1>2, ReceiverAssumption DEF IInv, TypeOK, Events, EventTypes, NoCommand, Ops, ThreadPrepare,
         callbacks, asked, seen, main
<1>4. Gaps'
  BY <1>2 DEF Gaps, GapAhead, Following, ThreadPrepare
<1>5. Requests'
  BY <1>2 DEF IInv, Requests, ConfigOps, ThreadPrepare, main, callbacks, asked
<1>6. IdleIsIdle'
  BY DEF IdleIsIdle, ThreadPrepare
<1> QED BY <1>2, <1>3, <1>4, <1>5, <1>6 DEF IInv

LEMMA StartInv ==
    ASSUME IInv, Start
    PROVE  IInv'
<1> USE ReceiverAssumption
<1>1. /\ state = "IDLE" /\ state' = state /\ tpc' = tpc /\ tpc \in {"none", "prep", "exited"}
      /\ command' = command /\ command = NoCommand
      /\ eventQueue' = <<>> /\ commandQueue' = <<>>
  BY DEF IInv, TypeOK, IdleIsIdle, Start, thread
<1>2. TypeOK'
  <2>1. commandQueue' \in Seq(Commands) /\ eventQueue' \in Seq(Events)
    BY <1>1
  <2>2. lastSeq' \in 0 .. MaxMsgs /\ warned' \in BOOLEAN
    <3>1. lastSeq' \in {0, lastSeq} /\ lastSeq \in 0 .. MaxMsgs
      BY DEF IInv, TypeOK, Start
    <3>2. (warned' = FALSE \/ warned' = warned) /\ warned \in BOOLEAN
      BY Zenon DEF IInv, TypeOK, Start
    <3>3. lastSeq' \in 0 .. MaxMsgs
      BY <3>1
    <3>4. warned' \in BOOLEAN
      BY <3>2, Zenon
    <3> QED BY <3>3, <3>4
  <2>3. starts' \in 0 .. MaxStarts
    BY DEF IInv, TypeOK, Start
  <2> QED BY <1>1, <2>1, <2>2, <2>3 DEF IInv, TypeOK, Commands, Events, EventTypes, Start, thread, callbacks
<1>3. Numbered(eventQueue')
  BY <1>1 DEF Numbered
<1>4. IdleIsIdle'
  BY <1>1 DEF IdleIsIdle
<1>5. Gaps'
  <2>1. Queue'.events = <<>>
    BY <1>1 DEF Queue
  <2>2. GapsTold(Queue', lastSeq', warned')
    BY <2>1 DEF GapsTold, GapsIn, GapBefore, Dropping
  <2> QED BY <1>1, <2>2 DEF Gaps, GapAhead, Sending
<1>6. Requests'
  BY <1>1 DEF Requests, OneRequest, NoCommand
<1> QED BY <1>2, <1>3, <1>4, <1>5, <1>6 DEF IInv

(* A message, between others events                                        *)
LEMMA MsgStep ==
    ASSUME IInv, NEW p, NEW q, NEW r, Quiet(Queue, p), NewMsg(p, q, msgSeq), Quiet(q, r),
           Becomes(r), UNCHANGED <<main, command, commandQueue>>, tpc' = tpc, tpc \in Sending,
           msgSeq < MaxMsgs, msgSeq' = msgSeq + 1
    PROVE  /\ eventQueue' \in Seq(Events) /\ saturated' \in BOOLEAN
           /\ Numbered(eventQueue)' /\ Gaps' /\ Requests' /\ ConfigAnswers' = ConfigAnswers
<1>1. /\ Queue.events = eventQueue /\ Numbered(eventQueue) /\ GapsTold(Queue, lastSeq, warned)
      /\ Following(eventQueue, lastSeq, warned, msgSeq) /\ warned \in BOOLEAN
  BY QueueIs DEF IInv, TypeOK, Gaps, GapAhead
<1>2. r \in QueueType
  BY DEF Quiet
<1>3. Queue' = r /\ eventQueue' = r.events /\ eventQueue' \in Seq(Events) /\ saturated' \in BOOLEAN
  BY <1>2, BecomesIs
<1>4. lastSeq' = lastSeq /\ warned' = warned
  BY DEF main, seen
<1>5. ConfigAnswers' = ConfigAnswers
  <2>1. Answers(r.events) = Answers(Queue.events)
    BY DEF Quiet, NewMsg
  <2> QED BY <1>1, <1>3, <2>1, ConfigAnswersIs
<1>6. Numbered(r.events)
  BY <1>1 DEF Quiet, NewMsg
<1>7. GapsTold(p, lastSeq, warned) /\ Following(p.events, lastSeq, warned, msgSeq)
  BY <1>1 DEF Quiet
<1>8. GapsTold(q, lastSeq, warned) /\ Following(q.events, lastSeq, warned, msgSeq + 1)
  BY <1>1, <1>7 DEF NewMsg
<1>9. GapsTold(r, lastSeq, warned) /\ Following(r.events, lastSeq, warned, msgSeq + 1)
  BY <1>8 DEF Quiet
<1>10. Gaps'
  BY <1>3, <1>4, <1>9 DEF Gaps, GapAhead
<1>11. ASSUME NEW op \in ConfigOps, NEW cb, NEW cs, NEW c, OneRequest(op, cb, cs, c, eventQueue)
       PROVE  OneRequest(op, cb, cs, c, eventQueue')
  <2>1. OneRequest(op, cb, cs, c, p.events)
    BY <1>1, <1>11 DEF Quiet
  <2>2. OneRequest(op, cb, cs, c, q.events)
    BY <2>1 DEF NewMsg
  <2> QED BY <1>3, <2>2 DEF Quiet
<1>12. Requests'
  BY <1>11 DEF IInv, Requests, ConfigOps, main, callbacks, asked
<1> QED BY <1>3, <1>5, <1>6, <1>10, <1>12

LEMMA MsgEvent ==
    ASSUME Pump \/ MsgCallback, IInv
    PROVE  \E p, q, r : /\ Quiet(Queue, p) /\ NewMsg(p, q, msgSeq) /\ Quiet(q, r) /\ Becomes(r)
<1>1. msgSeq \in Nat
  BY ReceiverAssumption DEF IInv, TypeOK
<1>2. /\ Queue \in QueueType /\ Quiet(Queue, Queue) /\ Quiet(Queue, Sent(Other))
      /\ Sent(Other) \in QueueType
  BY QueueIs, QuietSelf, SendQuiet DEF Sent, Quiet
<1>3. ASSUME NEW p \in {Queue, Sent(Other)}
      PROVE  LET q == SendEvent(p, Msg)
             IN  /\ Quiet(Queue, p) /\ NewMsg(p, q, msgSeq)
                 /\ Quiet(q, q) /\ Quiet(q, SendEvent(q, Other))
  <2> DEFINE q == SendEvent(p, Msg)
  <2>1. NewMsg(p, q, msgSeq)
    BY <1>1, <1>2, SendMsg DEF Msg
  <2> HIDE DEF q
  <2>2. q \in QueueType
    BY <2>1 DEF NewMsg
  <2>3. Quiet(q, q) /\ Quiet(q, SendEvent(q, Other))
    BY <2>2, QuietSelf, SendQuiet
  <2>4. Quiet(Queue, p)
    BY <1>2
  <2> QED BY <2>1, <2>3, <2>4 DEF q
<1>4. CASE Pump
  <2>1. PICK p \in {Queue, Sent(Other)} :
          LET q == SendEvent(p, Msg) IN Becomes(q) \/ Becomes(SendEvent(q, Other))
    BY <1>4 DEF Pump
  <2> QED BY <1>3, <2>1
<1>5. CASE MsgCallback
  BY <1>3, <1>5 DEF MsgCallback, Sent
<1> QED BY <1>4, <1>5

LEMMA MsgInv ==
    ASSUME IInv, Pump \/ MsgCallback
    PROVE  IInv' /\ ConfigAnswers' = ConfigAnswers
<1>1. PICK p, q, r : /\ Quiet(Queue, p) /\ NewMsg(p, q, msgSeq) /\ Quiet(q, r) /\ Becomes(r)
  BY MsgEvent
<1>2. /\ UNCHANGED <<main, command, commandQueue, abort, state, port>> /\ tpc' = tpc
      /\ tpc \in Sending /\ msgSeq < MaxMsgs /\ msgSeq' = msgSeq + 1
  BY DEF Pump, MsgCallback, Sending
<1>3. /\ eventQueue' \in Seq(Events) /\ saturated' \in BOOLEAN
      /\ Numbered(eventQueue)' /\ Gaps' /\ Requests' /\ ConfigAnswers' = ConfigAnswers
  BY <1>1, <1>2, MsgStep
<1>4. msgSeq' \in 0 .. MaxMsgs
  BY <1>2, ReceiverAssumption DEF IInv, TypeOK
<1>5. TypeOK'
  BY <1>2, <1>3, <1>4 DEF IInv, TypeOK, Events, EventTypes, main, callbacks, asked, seen
<1>6. IdleIsIdle'
  BY <1>2 DEF IInv, IdleIsIdle
<1> QED BY <1>3, <1>5, <1>6 DEF IInv

(* The main thread takes an event: with an answer goes its callback        *)
LEMMA LoopEventInv ==
    ASSUME IInv, LoopEvent
    PROVE  IInv'
<1> USE ReceiverAssumption
<1> DEFINE e == Head(eventQueue)
           r == Tail(eventQueue)
           n == Len(r)
<1>1. /\ eventQueue \in Seq(Events) /\ eventQueue # <<>> /\ eventQueue' = r
      /\ saturated' = saturated /\ saturated \in BOOLEAN
      /\ command' = command /\ commandQueue' = commandQueue /\ tpc' = tpc /\ msgSeq' = msgSeq
      /\ state' = state /\ silent' = silent
  BY QueueIs DEF LoopEvent, thread, asked
<1>2. /\ r \in Seq(Events) /\ e \in Events /\ Len(eventQueue) = n + 1 /\ n \in Nat
      /\ eventQueue[1] = e /\ \A i \in 1 .. n : r[i] = eventQueue[i + 1]
  BY <1>1
<1>3. /\ e.type = "MSG" => e.id \in 0 .. MaxMsgs
      /\ e.type \in ConfigOps => e.id \in 1 .. MaxRequests
  BY <1>2 DEF IInv, Numbered, ConfigOps
<1>4. lastSeq' = LastAfter(e, lastSeq) /\ warned' = WarnedAfter(e, warned)
  BY DEF LoopEvent, LastAfter, WarnedAfter
<1>5. /\ e.type = "GETCONFIG" => getCb' = 0 /\ setCb' = setCb
      /\ e.type = "SETCONFIG" => setCb' = 0 /\ getCb' = getCb
      /\ e.type \notin ConfigOps => getCb' = getCb /\ setCb' = setCb
  BY DEF LoopEvent, ConfigOps
<1> HIDE DEF e, r, n
<1>6. TypeOK'
  <2>1. eventQueue' \in Seq(Events)
    BY <1>1, <1>2
  <2>2. lastSeq' \in 0 .. MaxMsgs
    BY <1>3, <1>4 DEF IInv, TypeOK, LastAfter
  <2>3. warned' \in BOOLEAN
    BY <1>4 DEF WarnedAfter
  <2>4. getCb' \in {0, getCb} /\ setCb' \in {0, setCb}
    BY <1>5 DEF ConfigOps
  <2>5. getCb' \in 0 .. MaxRequests /\ setCb' \in 0 .. MaxRequests
    BY <2>4 DEF IInv, TypeOK
  <2>6. pollNext \in BOOLEAN /\ (pollNext' = pollNext \/ pollNext' = FALSE \/ pollNext' = (getCb # 0))
    BY DEF IInv, TypeOK, LoopEvent
  <2>7. pollNext' \in BOOLEAN
    BY <2>6, Zenon
  <2> QED BY <1>1, <2>1, <2>2, <2>3, <2>5, <2>7
          DEF IInv, TypeOK, Events, EventTypes, LoopEvent, thread, asked
<1>7. Numbered(eventQueue')
  <2>1. \A i \in 1 .. n : i + 1 \in 1 .. Len(eventQueue) /\ r[i] = eventQueue[i + 1]
    BY <1>2
  <2>2. Numbered(eventQueue) /\ n = Len(r)
    BY DEF IInv, n
  <2> QED BY <1>1, <2>1, <2>2 DEF Numbered
<1>8. IdleIsIdle'
  BY <1>1 DEF IInv, IdleIsIdle
<1>9. Gaps'
  <2>1. warned \in BOOLEAN /\ GapsTold(Queue, lastSeq, warned)
        /\ Queue.events = eventQueue /\ Queue.sat = saturated
    BY QueueIs DEF IInv, TypeOK, Gaps
  <2>2. /\ Told(eventQueue, warned) => Told(r, warned')
        /\ \A k : LastIs(eventQueue, lastSeq, k) => LastIs(r, lastSeq', k)
        /\ GapsIn(eventQueue) => GapsIn(r)
        /\ GapsIn(eventQueue) /\ GapBefore(eventQueue, lastSeq, warned) =>
             GapBefore(r, lastSeq', warned')
    BY <1>1, <1>4, <2>1, TakeEvent DEF e, r
  <2>3. Queue'.events = r /\ Queue'.sat = saturated
    BY <1>1 DEF Queue
  <2>4. Dropping(Queue', warned')
    BY <1>1, <1>2, <2>1, <2>2, <2>3 DEF GapsTold, Dropping, n
  <2>5. GapsTold(Queue', lastSeq', warned')
    BY <2>1, <2>2, <2>3, <2>4 DEF GapsTold
  <2>6. GapAhead'
    BY <1>1, <2>2 DEF IInv, Gaps, GapAhead, Following
  <2> QED BY <2>5, <2>6 DEF Gaps
<1>10. ASSUME NEW op \in ConfigOps, NEW cb, OneRequest(op, cb, commandQueue, command, eventQueue)
       PROVE  /\ OneRequest(op, cb, commandQueue', command', eventQueue')
              /\ e.type = op => OneRequest(op, 0, commandQueue', command', eventQueue') /\ e.id = cb
  <2>1. \A i \in 1 .. n : i + 1 \in 1 .. Len(eventQueue) /\ r[i] = eventQueue[i + 1]
    BY <1>2
  <2>2. n = Len(r) /\ 1 \in 1 .. Len(eventQueue)
    BY <1>2 DEF n
  <2>3. OneRequest(op, cb, commandQueue, command, r)
    <3>1. \A i, j \in 1 .. Len(r) : r[i].type = op /\ r[j].type = op => i = j
      <4> SUFFICES ASSUME NEW i \in 1 .. n, NEW j \in 1 .. n, r[i].type = op, r[j].type = op
                   PROVE  i = j
        BY <2>2
      <4>1. i + 1 = j + 1
        BY <1>10, <2>1 DEF OneRequest
      <4> QED BY <1>2, <4>1
    <3>2. \A i \in 1 .. Len(r) : r[i].type = op => r[i].id = cb
      BY <1>10, <2>1, <2>2 DEF OneRequest
    <3>3. \A i \in 1 .. Len(r) : r[i].type = op => eventQueue[i + 1].type = op
      BY <2>1, <2>2
    <3>4. ASSUME \A j \in 1 .. Len(eventQueue) : eventQueue[j].type # op
          PROVE  \A j \in 1 .. Len(r) : r[j].type # op
      BY <2>1, <2>2, <3>4
    <3> QED BY <1>10, <3>1, <3>2, <3>4 DEF OneRequest
  <2>4. ASSUME e.type = op PROVE OneRequest(op, 0, commandQueue, command, r) /\ e.id = cb
    <3>1. /\ \A i \in 1 .. Len(commandQueue) : commandQueue[i].op # op
          /\ command.op # op
          /\ e.id = cb
      BY <1>2, <1>10, <2>2, <2>4 DEF OneRequest
    <3>2. ASSUME NEW i \in 1 .. n PROVE r[i].type # op
      <4>1. i + 1 # 1 /\ i + 1 \in 1 .. Len(eventQueue) /\ r[i] = eventQueue[i + 1]
        BY <2>1
      <4> QED BY <1>2, <1>10, <2>2, <2>4, <4>1 DEF OneRequest
    <3> QED BY <2>2, <3>1, <3>2 DEF OneRequest
  <2> QED BY <1>1, <2>3, <2>4
<1>11. Requests'
  BY <1>1, <1>5, <1>10 DEF IInv, Requests, ConfigOps
<1> QED BY <1>6, <1>7, <1>8, <1>9, <1>11 DEF IInv

LEMMA AppendCommand ==
    ASSUME NEW s \in Seq(Commands), NEW c \in Commands
    PROVE  /\ Append(s, c) \in Seq(Commands) /\ Len(Append(s, c)) = Len(s) + 1 /\ Len(s) \in Nat
           /\ Append(s, c)[Len(s) + 1] = c
           /\ \A i \in 1 .. Len(s) : Append(s, c)[i] = s[i]
  OBVIOUS

(* No request of a kind is anywhere when there is no callback for it       *)
LEMMA NoRequestYet ==
    ASSUME NEW op \in ConfigOps, NEW cs \in Seq(Commands), NEW c \in Commands \cup {NoCommand},
           NEW es \in Seq(Events), Numbered(es), OneRequest(op, 0, cs, c, es)
    PROVE  /\ \A i \in 1 .. Len(cs) : cs[i].op # op
           /\ c.op # op
           /\ \A j \in 1 .. Len(es) : es[j].type # op
           /\ \A id : OneRequest(op, id, cs, c, es)
<1>1. \A i \in 1 .. Len(cs) : cs[i].op # op
  <2> SUFFICES ASSUME NEW i \in 1 .. Len(cs), cs[i].op = op PROVE FALSE
    OBVIOUS
  <2>1. cs[i] \in Commands
    OBVIOUS
  <2>2. cs[i].id # 0
    BY <2>1, ReceiverAssumption DEF Commands
  <2> QED BY <2>2 DEF OneRequest
<1>2. c.op # op
  <2>1. c.op = op => c.id = 0
    BY DEF OneRequest
  <2>2. c \in Commands => c.id # 0
    BY ReceiverAssumption DEF Commands
  <2> QED BY <2>1, <2>2 DEF NoCommand, ConfigOps
<1>3. \A j \in 1 .. Len(es) : es[j].type # op
  <2> SUFFICES ASSUME NEW j \in 1 .. Len(es), es[j].type = op PROVE FALSE
    OBVIOUS
  <2>1. es[j].id = 0
    BY DEF OneRequest
  <2> QED BY <2>1, ReceiverAssumption DEF Numbered, ConfigOps
<1> QED BY <1>1, <1>2, <1>3 DEF OneRequest

LEMMA FirstRequest ==
    ASSUME NEW op \in ConfigOps, NEW cs \in Seq(Commands), NEW c \in Commands \cup {NoCommand},
           NEW es \in Seq(Events), NEW id \in 1 .. MaxRequests,
           Numbered(es), OneRequest(op, 0, cs, c, es)
    PROVE  OneRequest(op, id, Append(cs, [op |-> op, id |-> id]), c, es)
<1> DEFINE x == [op |-> op, id |-> id]
           s == Append(cs, x)
           n == Len(cs)
<1>1. /\ s \in Seq(Commands) /\ Len(s) = n + 1 /\ n \in Nat /\ s[n + 1] = x
      /\ \A i \in 1 .. n : s[i] = cs[i]
  <2>1. x \in Commands
    BY DEF Commands, Ops, ConfigOps
  <2> HIDE DEF x
  <2> QED BY <2>1, AppendCommand
<1>2. /\ \A i \in 1 .. n : cs[i].op # op
      /\ c.op # op
      /\ \A j \in 1 .. Len(es) : es[j].type # op
  BY NoRequestYet
<1> HIDE DEF s
<1>5. \A i \in 1 .. Len(s) : s[i].op = op => i = n + 1
  BY <1>1, <1>2
<1>6. OneRequest(op, id, s, c, es)
  BY <1>1, <1>2, <1>5 DEF OneRequest
<1> QED BY <1>6 DEF s, x

LEMMA OtherCommand ==
    ASSUME NEW op, NEW cb, NEW cs \in Seq(Commands), NEW c, NEW es, NEW x \in Commands, x.op # op,
           OneRequest(op, cb, cs, c, es)
    PROVE  OneRequest(op, cb, Append(cs, x), c, es)
<1> DEFINE s == Append(cs, x)
           n == Len(cs)
<1>1. /\ Len(s) = n + 1 /\ n \in Nat /\ s[n + 1] = x
      /\ \A i \in 1 .. n : s[i] = cs[i]
  BY AppendCommand
<1> HIDE DEF s
<1>2. \A i \in 1 .. Len(s) : s[i].op = op => i \in 1 .. n /\ s[i] = cs[i]
  BY <1>1
<1>3. OneRequest(op, cb, s, c, es)
  BY <1>2 DEF OneRequest
<1> QED BY <1>3 DEF s

(* A click                                                                 *)
LEMMA CommandStep ==
    ASSUME IInv, NEW op \in Ops, SendCommand(op),
           getCb' \in 0 .. MaxRequests, setCb' \in 0 .. MaxRequests,
           pollNext' \in BOOLEAN, silent' \in BOOLEAN
    PROVE  /\ TypeOK' /\ Numbered(eventQueue)' /\ IdleIsIdle' /\ Gaps'
           /\ commandQueue' = Append(commandQueue, [op |-> op, id |-> reqs + 1])
           /\ commandQueue \in Seq(Commands) /\ [op |-> op, id |-> reqs + 1] \in Commands
           /\ reqs + 1 \in 1 .. MaxRequests
           /\ command' = command /\ command \in Commands \cup {NoCommand}
           /\ eventQueue' = eventQueue /\ eventQueue \in Seq(Events) /\ state' = state
<1> DEFINE x == [op |-> op, id |-> reqs + 1]
<1>1. reqs + 1 \in 1 .. MaxRequests
  BY ReceiverAssumption DEF IInv, TypeOK, SendCommand
<1>2. x \in Commands
  BY <1>1 DEF Commands
<1>3. commandQueue' = Append(commandQueue, x) /\ commandQueue \in Seq(Commands)
  BY DEF SendCommand, IInv, TypeOK, Commands
<1>4. /\ command' = command /\ command \in Commands \cup {NoCommand}
      /\ eventQueue' = eventQueue /\ saturated' = saturated /\ lastSeq' = lastSeq /\ warned' = warned
      /\ tpc' = tpc /\ msgSeq' = msgSeq /\ state' = state
  BY DEF SendCommand, IInv, TypeOK, Commands, thread, seen
<1> HIDE DEF x
<1>5. commandQueue' \in Seq(Commands)
  BY <1>2, <1>3, AppendCommand
<1>6. reqs' \in 0 .. MaxRequests
  BY <1>1 DEF SendCommand
<1>7. TypeOK'
  BY <1>4, <1>5, <1>6 DEF IInv, TypeOK, Commands, SendCommand
<1>8. Numbered(eventQueue)' /\ IdleIsIdle'
  BY <1>4 DEF IInv, Numbered, IdleIsIdle
<1>9. Gaps'
  <2>1. Queue' = Queue
    BY <1>4 DEF Queue
  <2> QED BY <1>4, <2>1 DEF IInv, Gaps, GapAhead
<1>10. eventQueue \in Seq(Events)
  BY QueueIs
<1> QED BY <1>1, <1>2, <1>3, <1>4, <1>7, <1>8, <1>9, <1>10 DEF x

LEMMA GetConfigInv ==
    ASSUME IInv, GetConfig
    PROVE  IInv'
<1>1. /\ SendCommand("GETCONFIG") /\ "GETCONFIG" \in Ops
      /\ getCb = 0 /\ getCb' = reqs + 1 /\ setCb' = setCb /\ silent' = silent /\ pollNext' = FALSE
  BY DEF GetConfig, Ops
<1>2. /\ getCb' \in 0 .. MaxRequests /\ setCb' \in 0 .. MaxRequests
      /\ pollNext' \in BOOLEAN /\ silent' \in BOOLEAN
  <2>1. getCb \in 0 .. MaxRequests /\ setCb \in 0 .. MaxRequests /\ reqs \in 0 .. MaxRequests
    BY DEF IInv, TypeOK
  <2>2. reqs + 1 \in 0 .. MaxRequests
    BY <1>1, <2>1, ReceiverAssumption DEF SendCommand
  <2>3. getCb' \in {reqs + 1, getCb} /\ setCb' \in {reqs + 1, setCb}
    BY <1>1
  <2>4. pollNext \in BOOLEAN /\ silent \in BOOLEAN
    BY DEF IInv, TypeOK
  <2>5. pollNext' \in BOOLEAN /\ silent' \in BOOLEAN
    BY <1>1, <2>4, Zenon
  <2> QED BY <2>1, <2>2, <2>3, <2>5
<1> DEFINE x == [op |-> "GETCONFIG", id |-> reqs + 1]
<1>3. /\ TypeOK' /\ Numbered(eventQueue)' /\ IdleIsIdle' /\ Gaps'
      /\ commandQueue' = Append(commandQueue, x)
      /\ commandQueue \in Seq(Commands) /\ x \in Commands /\ reqs + 1 \in 1 .. MaxRequests
      /\ command' = command /\ command \in Commands \cup {NoCommand}
      /\ eventQueue' = eventQueue /\ eventQueue \in Seq(Events)
  BY <1>1, <1>2, CommandStep
<1>4. OneRequest("GETCONFIG", getCb', commandQueue', command', eventQueue')
  <2>1. OneRequest("GETCONFIG", 0, commandQueue, command, eventQueue) /\ Numbered(eventQueue)
    BY <1>1 DEF IInv, Requests
  <2>2. OneRequest("GETCONFIG", reqs + 1, Append(commandQueue, x), command, eventQueue)
    BY <1>3, <2>1, FirstRequest DEF ConfigOps
  <2> QED BY <1>1, <1>3, <2>2
<1>5. ASSUME ~silent' PROVE OneRequest("SETCONFIG", setCb', commandQueue', command', eventQueue')
  <2>1. OneRequest("SETCONFIG", setCb, commandQueue, command, eventQueue)
    BY <1>1, <1>5 DEF IInv, Requests
  <2>2. OneRequest("SETCONFIG", setCb, Append(commandQueue, x), command, eventQueue)
    BY <1>3, <2>1, OtherCommand
  <2> QED BY <1>1, <1>3, <2>2
<1> QED BY <1>3, <1>4, <1>5 DEF IInv, Requests

LEMMA SetConfigInv ==
    ASSUME IInv, SetConfig
    PROVE  IInv'
<1>1. PICK op \in SetOps :
        /\ SendCommand(op)
        /\ setCb = 0 /\ getCb' = getCb /\ pollNext' = pollNext
        /\ (setCb' = reqs + 1 /\ silent' = silent) \/ (silent' = TRUE /\ setCb' = setCb)
  BY DEF SetConfig, SetOps
<1>2. /\ getCb' \in 0 .. MaxRequests /\ setCb' \in 0 .. MaxRequests
      /\ pollNext' \in BOOLEAN /\ silent' \in BOOLEAN
  <2>1. getCb \in 0 .. MaxRequests /\ setCb \in 0 .. MaxRequests /\ reqs \in 0 .. MaxRequests
    BY DEF IInv, TypeOK
  <2>2. reqs + 1 \in 0 .. MaxRequests
    BY <1>1, <2>1, ReceiverAssumption DEF SendCommand
  <2>3. getCb' \in {reqs + 1, getCb} /\ setCb' \in {reqs + 1, setCb}
    BY <1>1
  <2>4. pollNext \in BOOLEAN /\ silent \in BOOLEAN
    BY DEF IInv, TypeOK
  <2>5. pollNext' \in BOOLEAN /\ silent' \in BOOLEAN
    BY <1>1, <2>4, Zenon
  <2> QED BY <2>1, <2>2, <2>3, <2>5
<1>0. op \in Ops /\ op # "GETCONFIG"
  BY DEF Ops, SetOps
<1> DEFINE x == [op |-> op, id |-> reqs + 1]
<1>3. /\ TypeOK' /\ Numbered(eventQueue)' /\ IdleIsIdle' /\ Gaps'
      /\ commandQueue' = Append(commandQueue, x)
      /\ commandQueue \in Seq(Commands) /\ x \in Commands /\ reqs + 1 \in 1 .. MaxRequests
      /\ command' = command /\ command \in Commands \cup {NoCommand}
      /\ eventQueue' = eventQueue /\ eventQueue \in Seq(Events)
  BY <1>0, <1>1, <1>2, CommandStep
<1>4. ASSUME ~silent' PROVE OneRequest("SETCONFIG", setCb', commandQueue', command', eventQueue')
  <2>0. setCb' = reqs + 1 /\ ~silent
    BY <1>1, <1>4
  <2>1. OneRequest("SETCONFIG", 0, commandQueue, command, eventQueue) /\ Numbered(eventQueue)
    BY <1>1, <2>0 DEF IInv, Requests
  <2>2. OneRequest("SETCONFIG", reqs + 1, Append(commandQueue, x), command, eventQueue)
    <3>1. CASE op = "SETCONFIG"
      BY <1>3, <2>1, <3>1, FirstRequest DEF ConfigOps
    <3>2. CASE op # "SETCONFIG"
      <4>1. OneRequest("SETCONFIG", reqs + 1, commandQueue, command, eventQueue)
        BY <1>3, <2>1, NoRequestYet DEF ConfigOps
      <4> QED BY <1>3, <3>2, <4>1, OtherCommand
    <3> QED BY <3>1, <3>2
  <2> QED BY <1>3, <2>0, <2>2
<1>5. OneRequest("GETCONFIG", getCb', commandQueue', command', eventQueue')
  <2>1. OneRequest("GETCONFIG", getCb, commandQueue, command, eventQueue)
    BY DEF IInv, Requests
  <2>2. OneRequest("GETCONFIG", getCb, Append(commandQueue, x), command, eventQueue)
    BY <1>0, <1>3, <2>1, OtherCommand
  <2> QED BY <1>1, <1>3, <2>2
<1> QED BY <1>3, <1>4, <1>5 DEF IInv, Requests

LEMMA RequestInv ==
    ASSUME IInv, NEW op \in Ops, Request(op)
    PROVE  IInv'
<1>1. /\ SendCommand(op) /\ op \notin ConfigOps
      /\ getCb' = getCb /\ setCb' = setCb /\ pollNext' = pollNext /\ silent' = silent
  BY DEF Request, ConfigOps, callbacks
<1>2. /\ getCb' \in 0 .. MaxRequests /\ setCb' \in 0 .. MaxRequests
      /\ pollNext' \in BOOLEAN /\ silent' \in BOOLEAN
  BY <1>1 DEF IInv, TypeOK
<1> DEFINE x == [op |-> op, id |-> reqs + 1]
<1>3. /\ TypeOK' /\ Numbered(eventQueue)' /\ IdleIsIdle' /\ Gaps'
      /\ commandQueue' = Append(commandQueue, x)
      /\ commandQueue \in Seq(Commands) /\ x \in Commands
      /\ command' = command /\ eventQueue' = eventQueue
  BY <1>1, <1>2, CommandStep
<1>4. ASSUME NEW o \in ConfigOps, NEW cb, OneRequest(o, cb, commandQueue, command, eventQueue)
      PROVE  OneRequest(o, cb, commandQueue', command', eventQueue')
  BY <1>1, <1>3, <1>4, OtherCommand
<1>5. Requests'
  BY <1>1, <1>4 DEF IInv, Requests, ConfigOps
<1> QED BY <1>3, <1>5 DEF IInv

LEMMA CommandTail ==
    ASSUME NEW s \in Seq(Commands), s # <<>>
    PROVE  /\ Tail(s) \in Seq(Commands) /\ Head(s) \in Commands /\ Head(s) = s[1]
           /\ Len(s) = Len(Tail(s)) + 1 /\ Len(Tail(s)) \in Nat
           /\ \A i \in 1 .. Len(Tail(s)) : i + 1 \in 1 .. Len(s) /\ Tail(s)[i] = s[i + 1]
  OBVIOUS

(* The thread begins to execute a request                                  *)
LEMMA ExecuteRequest ==
    ASSUME NEW op \in ConfigOps, NEW cb, NEW cs \in Seq(Commands), cs # <<>>, NEW es,
           OneRequest(op, cb, cs, NoCommand, es)
    PROVE  OneRequest(op, cb, Tail(cs), Head(cs), es)
<1> DEFINE r == Tail(cs)
           h == Head(cs)
           n == Len(r)
<1>1. /\ h = cs[1] /\ Len(cs) = n + 1 /\ n \in Nat /\ 1 \in 1 .. Len(cs)
      /\ \A i \in 1 .. n : i + 1 \in 1 .. Len(cs) /\ r[i] = cs[i + 1] /\ i + 1 # 1
  BY CommandTail
<1> HIDE DEF r, h
<1>2. \A i \in 1 .. Len(r) : r[i].op = op => h.op # op
  BY <1>1 DEF OneRequest
<1>3. \A i, j \in 1 .. Len(r) : r[i].op = op /\ r[j].op = op => i = j
  <2> SUFFICES ASSUME NEW i \in 1 .. n, NEW j \in 1 .. n, r[i].op = op, r[j].op = op
               PROVE  i = j
    OBVIOUS
  <2>1. i + 1 = j + 1
    BY <1>1 DEF OneRequest
  <2> QED BY <1>1, <2>1
<1>4. /\ \A i \in 1 .. Len(r) : r[i].op = op => r[i].id = cb
      /\ h.op = op => h.id = cb
  BY <1>1 DEF OneRequest
<1>5. \A i \in 1 .. Len(cs) : cs[i].op = op => \A j \in 1 .. Len(es) : es[j].type # op
  BY DEF OneRequest
<1>6. /\ \A i \in 1 .. Len(r) : r[i].op = op => \A j \in 1 .. Len(es) : es[j].type # op
      /\ h.op = op => \A j \in 1 .. Len(es) : es[j].type # op
  BY <1>1, <1>5
<1>7. OneRequest(op, cb, r, h, es)
  BY <1>2, <1>3, <1>4, <1>6 DEF OneRequest
<1> QED BY <1>7 DEF r, h

LEMMA PopCommandInv ==
    ASSUME IInv, PopCommand
    PROVE  IInv' /\ ConfigAnswers' = ConfigAnswers
<1>1. /\ commandQueue \in Seq(Commands) /\ commandQueue # <<>>
      /\ command' = Head(commandQueue) /\ commandQueue' = Tail(commandQueue)
      /\ tpc = "command" /\ tpc' = "exec" /\ command = NoCommand
      /\ UNCHANGED <<main, msgSeq, abort, port>>
  BY DEF IInv, TypeOK, Commands, PopCommand
<1>2. PICK r : Quiet(Queue, r) /\ Becomes(r)
  <2>1. Quiet(Queue, Queue) /\ Quiet(Queue, Sent(Other))
    BY QueueIs, QuietSelf, SendQuiet DEF Sent
  <2> QED BY <2>1 DEF PopCommand
<1>3. /\ eventQueue' \in Seq(Events) /\ saturated' \in BOOLEAN
      /\ Numbered(eventQueue')
      /\ GapsTold(Queue', lastSeq', warned')
      /\ \A n : Following(eventQueue, lastSeq, warned, n) =>
                   Following(eventQueue', lastSeq', warned', n)
      /\ ConfigAnswers' = ConfigAnswers
      /\ \A op \in ConfigOps : \A cb, cs, c :
            OneRequest(op, cb, cs, c, eventQueue) => OneRequest(op, cb, cs, c, eventQueue')
  BY <1>1, <1>2, QuietStep DEF main
<1>4. commandQueue' \in Seq(Commands) /\ command' \in Commands
  BY <1>1, CommandTail
<1>5. state' \in {state, "BUSY"}
  BY DEF PopCommand
<1>6. TypeOK'
  <2>1. command' # NoCommand /\ command'.op # "SETNONE"
    BY <1>1, <1>4 DEF Commands, NoCommand, Ops, PopCommand
  <2> QED BY <1>1, <1>3, <1>4, <1>5, <2>1
          DEF IInv, TypeOK, Commands, Events, EventTypes, main, callbacks, asked, seen
<1>7. IdleIsIdle'
  BY <1>1, <1>5 DEF IInv, IdleIsIdle
<1>8. Gaps'
  BY <1>1, <1>3 DEF IInv, Gaps, GapAhead, Sending
<1>9. ASSUME NEW op \in ConfigOps, NEW cb, OneRequest(op, cb, commandQueue, command, eventQueue)
      PROVE  OneRequest(op, cb, commandQueue', command', eventQueue')
  <2>1. OneRequest(op, cb, commandQueue, NoCommand, eventQueue')
    BY <1>1, <1>3, <1>9
  <2> QED BY <1>1, <2>1, ExecuteRequest
<1>10. Requests'
  BY <1>1, <1>9 DEF IInv, Requests, ConfigOps, main, callbacks, asked
<1> QED BY <1>3, <1>6, <1>7, <1>8, <1>10 DEF IInv

(* Without a layer it is not executed: it is in no place any more          *)
LEMMA PopThrowsInv ==
    ASSUME IInv, PopThrows
    PROVE  IInv' /\ ConfigAnswers' = ConfigAnswers
<1>1. /\ commandQueue \in Seq(Commands) /\ commandQueue # <<>>
      /\ Head(commandQueue).op = "SETNONE" /\ commandQueue' = Tail(commandQueue)
      /\ state' = "BUSY" /\ tpc = "command" /\ tpc' = "clean"
      /\ UNCHANGED <<main, command, msgSeq, abort, port, eventQueue, saturated>>
  BY DEF IInv, TypeOK, Commands, PopThrows
<1>2. /\ command = NoCommand /\ command' = command /\ eventQueue' = eventQueue
      /\ lastSeq' = lastSeq /\ warned' = warned /\ msgSeq' = msgSeq /\ Queue' = Queue
      /\ getCb' = getCb /\ setCb' = setCb /\ silent' = silent
  BY <1>1 DEF IInv, TypeOK, main, callbacks, asked, seen, Queue
<1>3. commandQueue' \in Seq(Commands)
  BY <1>1, CommandTail
<1>4. TypeOK'
  BY <1>1, <1>2, <1>3 DEF IInv, TypeOK, Commands, main, callbacks, asked, seen
<1>5. Numbered(eventQueue)' /\ IdleIsIdle' /\ Gaps'
  BY <1>1, <1>2 DEF IInv, IdleIsIdle, Gaps, GapAhead, Sending
<1>6. ASSUME NEW op \in ConfigOps, NEW cb, OneRequest(op, cb, commandQueue, command, eventQueue)
      PROVE  OneRequest(op, cb, commandQueue', command', eventQueue')
  <2>1. OneRequest(op, cb, Tail(commandQueue), Head(commandQueue), eventQueue)
    BY <1>1, <1>2, <1>6, ExecuteRequest
  <2>2. NoCommand.op # op
    BY DEF NoCommand, ConfigOps
  <2>3. OneRequest(op, cb, Tail(commandQueue), NoCommand, eventQueue)
    BY <2>1, <2>2 DEF OneRequest
  <2> QED BY <1>1, <1>2, <2>3
<1>7. Requests'
  BY <1>2, <1>6 DEF IInv, Requests, ConfigOps
<1> QED BY <1>2, <1>4, <1>5, <1>7, ConfigAnswersIs DEF IInv

(* What Finish does to the events: with an answer for GETCONFIG, SETCONFIG *)
LEMMA FinishEvents ==
    ASSUME IInv, Finish
    PROVE  \E q, r : /\ Quiet(Queue, q) /\ Becomes(r)
                     /\ command.op \in ConfigOps => command \in ConfigRequest /\ Answered(q, r, command)
                     /\ command.op \notin ConfigOps => command \notin ConfigRequest /\ r = q
<1> DEFINE answer == [type |-> command.op, id |-> command.id]
<1>1. command \in Commands /\ command.op # "SETNONE"
  BY DEF IInv, TypeOK, Commands, Finish
<1>2. /\ command.op \in ConfigOps => command \in ConfigRequest
      /\ command.op \notin ConfigOps => command \notin ConfigRequest
  BY <1>1 DEF Commands, ConfigRequest, ConfigOps, SetOps
<1>3. Quiet(Queue, Queue) /\ Quiet(Queue, Sent(Other)) /\ Sent(Other) \in QueueType
  BY QueueIs, QuietSelf, SendQuiet DEF Sent, Quiet
<1>4. Quiet(Queue, SendEvent(SendEvent(Sent(Other), Other), Other))
  <2> DEFINE a == Sent(Other)
             b == SendEvent(a, Other)
             c == SendEvent(b, Other)
  <2>1. Quiet(a, b)
    BY <1>3, SendQuiet
  <2>2. b \in QueueType
    BY <2>1 DEF Quiet
  <2> HIDE DEF a, b
  <2>3. Quiet(b, c)
    BY <2>2, SendQuiet
  <2>4. Quiet(Queue, a)
    BY <1>3 DEF a
  <2> HIDE DEF c
  <2>5. Quiet(Queue, c)
    BY <2>1, <2>3, <2>4, QuietTwice
  <2> QED BY <2>5 DEF a, b, c
<1>5. ASSUME command.op \in ConfigOps, NEW q, Quiet(Queue, q)
      PROVE  Answered(q, SendEvent(q, answer), command)
  <2>1. q \in QueueType
    BY <1>5 DEF Quiet
  <2> QED BY <1>2, <1>5, <2>1, SendAnswer
<1>6. CASE command.op \in {"BAUD", "RESET", "SEND"}
  <2>1. Becomes(Sent(Other)) \/ Becomes(Queue)
    BY <1>6 DEF Finish
  <2> QED BY <1>2, <1>3, <1>6, <2>1 DEF ConfigOps
<1>7. CASE command.op = "GETCONFIG"
  <2>1. PICK q \in {Queue, Sent(Other)} : Becomes(SendEvent(q, answer))
    BY <1>7 DEF Finish
  <2>2. Quiet(Queue, q) /\ command.op \in ConfigOps
    BY <1>3, <1>7 DEF ConfigOps
  <2> QED BY <1>2, <1>5, <2>1, <2>2
<1>8. CASE command.op = "SETCONFIG"
  <2>1. PICK q \in {Sent(Other), SendEvent(SendEvent(Sent(Other), Other), Other)} :
            Becomes(SendEvent(q, answer))
    BY <1>8 DEF Finish
  <2>2. Quiet(Queue, q) /\ command.op \in ConfigOps
    BY <1>3, <1>4, <1>8 DEF ConfigOps
  <2> QED BY <1>2, <1>5, <2>1, <2>2
<1> QED BY <1>1, <1>6, <1>7, <1>8 DEF Commands, Ops

LEMMA FinishInv ==
    ASSUME IInv, Finish
    PROVE  /\ IInv'
           /\ command \in ConfigRequest => ConfigAnswers' = Append(ConfigAnswers, command)
           /\ command \notin ConfigRequest => ConfigAnswers' = ConfigAnswers
<1>1. PICK q, r : /\ Quiet(Queue, q) /\ Becomes(r)
                  /\ command.op \in ConfigOps => command \in ConfigRequest /\ Answered(q, r, command)
                  /\ command.op \notin ConfigOps => command \notin ConfigRequest /\ r = q
  BY FinishEvents
<1>2. /\ command' = NoCommand /\ commandQueue' = commandQueue /\ tpc = "exec" /\ tpc' = "check"
      /\ UNCHANGED <<main, msgSeq, abort, port>> /\ lastSeq' = lastSeq /\ warned' = warned
      /\ getCb' = getCb /\ setCb' = setCb /\ silent' = silent
  BY DEF Finish, main, seen, callbacks, asked
<1>3. q \in QueueType /\ r \in QueueType
  BY <1>1 DEF Quiet, Answered
<1>4. /\ Queue' = r /\ eventQueue' = r.events
      /\ eventQueue' \in Seq(Events) /\ saturated' \in BOOLEAN
  BY <1>1, <1>3, BecomesIs
<1>5. Queue.events = eventQueue /\ Numbered(eventQueue) /\ GapsTold(Queue, lastSeq, warned)
  BY QueueIs DEF IInv, Gaps
<1>6. /\ Numbered(q.events) /\ GapsTold(q, lastSeq, warned)
      /\ Following(eventQueue, lastSeq, warned, msgSeq) => Following(q.events, lastSeq, warned, msgSeq)
      /\ Answers(q.events) = ConfigAnswers
  BY <1>1, <1>5, ConfigAnswersIs DEF Quiet
<1>7. /\ Numbered(r.events) /\ GapsTold(r, lastSeq, warned)
      /\ Following(q.events, lastSeq, warned, msgSeq) => Following(r.events, lastSeq, warned, msgSeq)
  <2>1. CASE command.op \in ConfigOps
    BY <1>1, <1>6, <2>1 DEF Answered
  <2>2. CASE command.op \notin ConfigOps
    BY <1>1, <1>6, <2>2
  <2> QED BY <2>1, <2>2
<1>8. ASSUME NEW op \in ConfigOps, NEW cb, OneRequest(op, cb, commandQueue, command, eventQueue)
      PROVE  OneRequest(op, cb, commandQueue', command', eventQueue')
  <2>1. OneRequest(op, cb, commandQueue, command, q.events)
    BY <1>1, <1>5, <1>8 DEF Quiet
  <2>2. CASE command.op \in ConfigOps
    <3>1. OneRequest(op, cb, commandQueue, NoCommand, r.events)
      BY <1>1, <2>1, <2>2 DEF Answered
    <3> QED BY <1>2, <1>4, <3>1
  <2>3. CASE command.op \notin ConfigOps
    <3>1. r = q /\ NoCommand.op # op
      BY <1>1, <2>3 DEF NoCommand, ConfigOps
    <3>2. OneRequest(op, cb, commandQueue, NoCommand, q.events)
      BY <2>1, <3>1 DEF OneRequest
    <3> QED BY <1>2, <1>4, <3>1, <3>2
  <2> QED BY <2>2, <2>3
<1>9. TypeOK'
  <2>1. command'.op # "SETNONE"
    BY <1>2 DEF NoCommand
  <2> QED BY <1>2, <1>4, <2>1
          DEF IInv, TypeOK, Events, EventTypes, main, callbacks, asked, seen, Finish
<1>10. IdleIsIdle'
  BY <1>2 DEF IInv, IdleIsIdle, Finish
<1>11. Gaps'
  <2>1. Following(eventQueue, lastSeq, warned, msgSeq)
    BY <1>2 DEF IInv, Gaps, GapAhead, Sending
  <2> QED BY <1>2, <1>4, <1>6, <1>7, <2>1 DEF Gaps, GapAhead
<1>12. Requests'
  BY <1>2, <1>8 DEF IInv, Requests, ConfigOps
<1>13. IInv'
  BY <1>4, <1>7, <1>9, <1>10, <1>11, <1>12 DEF IInv
<1>14. ConfigAnswers' = Answers(r.events)
  BY <1>4, ConfigAnswersIs
<1>15. CASE command.op \in ConfigOps
  BY <1>1, <1>6, <1>13, <1>14, <1>15 DEF Answered
<1>16. CASE command.op \notin ConfigOps
  BY <1>1, <1>6, <1>13, <1>14, <1>16
<1> QED BY <1>15, <1>16

LEMMA StutterInv == ASSUME IInv, UNCHANGED vars PROVE IInv'
<1>1. /\ eventQueue' = eventQueue /\ saturated' = saturated /\ lastSeq' = lastSeq /\ warned' = warned
      /\ tpc' = tpc /\ msgSeq' = msgSeq /\ Queue' = Queue
      /\ getCb' = getCb /\ setCb' = setCb /\ silent' = silent
      /\ commandQueue' = commandQueue /\ command' = command /\ state' = state
  BY DEF vars, main, thread, callbacks, asked, seen, Queue
<1>2. TypeOK'
  BY <1>1 DEF IInv, TypeOK, vars, main, thread, callbacks, asked, seen
<1>3. Numbered(eventQueue)' /\ IdleIsIdle' /\ Gaps' /\ Requests'
  BY <1>1 DEF IInv, IdleIsIdle, Gaps, GapAhead, Requests
<1> QED BY <1>2, <1>3 DEF IInv

LEMMA NextInv == ASSUME IInv, [Next]_vars PROVE IInv'
<1>1. CASE Main
  <2>1. CASE LoopEvent
    BY <2>1, LoopEventInv
  <2>2. CASE LoopDone \/ NextFrame \/ Started \/ Stop \/ Stopped
    BY <2>2, SilentInv
  <2>3. CASE Start
    BY <2>3, StartInv
  <2>4. CASE GetConfig
    BY <2>4, GetConfigInv
  <2>5. CASE SetConfig
    BY <2>5, SetConfigInv
  <2>6. ASSUME NEW op \in Ops, Request(op) PROVE IInv'
    BY <2>6, RequestInv
  <2> QED BY <1>1, <2>1, <2>2, <2>3, <2>4, <2>5, <2>6 DEF Main
<1>2. CASE Receiver
  <2>1. CASE ThreadPrepare
    BY <2>1, ThreadPrepareInv
  <2>2. CASE Connect \/ ConnectFails \/ Yield \/ ThreadCleanup
    BY <2>2, OtherInv
  <2>3. CASE Check \/ PumpDone
    BY <2>3, SilentInv
  <2>4. CASE Pump \/ MsgCallback
    BY <2>4, MsgInv
  <2>5. CASE PopCommand
    BY <2>5, PopCommandInv
  <2>6. CASE PopThrows
    BY <2>6, PopThrowsInv
  <2>7. CASE Finish
    BY <2>7, FinishInv
  <2> QED BY <1>2, <2>1, <2>2, <2>3, <2>4, <2>5, <2>6, <2>7 DEF Receiver
<1>3. CASE UNCHANGED vars
  BY <1>3, StutterInv
<1> QED BY <1>1, <1>2, <1>3 DEF Next

THEOREM Invariant == Spec => []IInv
<1>1. Init => IInv
  BY InitInv
<1>2. IInv /\ [Next]_vars => IInv'
  BY NextInv
<1> QED BY <1>1, <1>2, PTL DEF Spec

-----------------------------------------------------------------------------
(***************************************************************************)
(* What it says about the code.                                            *)
(***************************************************************************)

(* Type correctness; the thread holds a command just while it executes it. *)
THEOREM TypeCorrect == Spec => []TypeOK
<1>1. IInv => TypeOK
  BY DEF IInv
<1> QED BY <1>1, Invariant, PTL

(* When _state is IDLE, which is what Start() goes by, the thread is not   *)
(* at work: Start() clears the queues and sets the port of nobody.         *)
THEOREM IdleMeansIdle == Spec => []IdleIsIdle
<1>1. IInv => IdleIsIdle
  BY DEF IInv
<1> QED BY <1>1, Invariant, PTL

(* The stream is the last message delivered, whether a saturation was      *)
(* delivered since, and what is queued                                     *)
LEMMA StreamGaps ==
    ASSUME IInv
    PROVE  GapsAnnounced
<1> DEFINE q == eventQueue
           m == [type |-> "MSG", id |-> lastSeq]
           o == IF warned THEN 1 ELSE 0
           n == Len(q)
<1>1. /\ q \in Seq(Events) /\ n \in Nat /\ GapsIn(q) /\ GapBefore(q, lastSeq, warned)
      /\ warned \in BOOLEAN /\ lastSeq \in Nat
  BY QueueIs, ReceiverAssumption DEF IInv, TypeOK, Gaps, GapsTold
<1>2. m \in Events /\ Sat \in Events /\ m.type = "MSG" /\ m.id = lastSeq /\ Sat.type = "SATURATED"
  BY <1>1 DEF Events, EventTypes, Sat
<1>3. Stream = <<m>> \o (IF warned THEN <<Sat>> ELSE <<>>) \o q
  BY DEF Stream, Sat
<1> HIDE DEF q, m
<1>4. /\ Len(Stream) = 1 + o + n /\ o \in {0, 1} /\ (o = 1 <=> warned)
      /\ Stream[1] = m /\ (warned => Stream[2] = Sat)
      /\ \A k \in 1 .. n : Stream[1 + o + k] = q[k]
  <2>1. CASE warned
    BY <1>1, <1>2, <1>3, <2>1
  <2>2. CASE ~warned
    BY <1>1, <1>2, <1>3, <2>2
  <2> QED BY <2>1, <2>2
<1>5. ASSUME NEW i \in 1 .. 1 + o + n, i > 1 + o
      PROVE  i - (1 + o) \in 1 .. n /\ Stream[i] = q[i - (1 + o)]
  <2>1. i - (1 + o) \in 1 .. n /\ 1 + o + (i - (1 + o)) = i
    BY <1>1, <1>4, <1>5
  <2> QED BY <1>4, <2>1
<1> SUFFICES ASSUME NEW i \in 1 .. 1 + o + n, NEW j \in 1 .. 1 + o + n, NextMsg(i, j)
             PROVE  \/ Stream[j].id \in {Stream[i].id + 1, 1}
                    \/ \E k \in i + 1 .. j - 1 : Stream[k].type = "SATURATED"
  BY <1>4 DEF GapsAnnounced
<1>6. /\ i < j /\ Stream[i].type = "MSG" /\ Stream[j].type = "MSG"
      /\ \A k \in i + 1 .. j - 1 : Stream[k].type # "MSG"
  BY DEF NextMsg
<1> DEFINE b == j - (1 + o)
<1>7. j > 1 + o
  BY <1>2, <1>4, <1>6
<1>8. b \in 1 .. n /\ Stream[j] = q[b]
  BY <1>5, <1>7
<1>9. CASE i > 1 + o
  <2> DEFINE a == i - (1 + o)
  <2>1. a \in 1 .. n /\ Stream[i] = q[a] /\ a < b
    BY <1>1, <1>4, <1>5, <1>6, <1>8, <1>9
  <2>2. \A k \in a + 1 .. b - 1 : k + (1 + o) \in i + 1 .. j - 1 /\ Stream[k + (1 + o)] = q[k]
    <3> SUFFICES ASSUME NEW k \in a + 1 .. b - 1
                 PROVE  k + (1 + o) \in i + 1 .. j - 1 /\ Stream[k + (1 + o)] = q[k]
      OBVIOUS
    <3>1. k \in 1 .. n /\ k + (1 + o) \in i + 1 .. j - 1 /\ 1 + o + k = k + (1 + o)
      BY <1>1, <1>4, <1>8, <2>1
    <3> QED BY <1>4, <3>1
  <2> HIDE DEF a, b
  <2>3. NoMsg(q, a + 1, b - 1)
    BY <1>6, <2>2 DEF NoMsg
  <2>4. q[b].id \in {q[a].id + 1, 1} \/ ToldBetween(q, a + 1, b - 1)
    BY <1>1, <1>6, <1>8, <2>1, <2>3 DEF GapsIn, n
  <2>5. ToldBetween(q, a + 1, b - 1) => \E k \in i + 1 .. j - 1 : Stream[k].type = "SATURATED"
    BY <2>2 DEF ToldBetween
  <2> QED BY <1>8, <2>1, <2>4, <2>5
<1>10. CASE i <= 1 + o
  <2>1. i = 1
    BY <1>2, <1>4, <1>6, <1>10
  <2>2. \A k \in 1 .. b - 1 : k + (1 + o) \in i + 1 .. j - 1 /\ Stream[k + (1 + o)] = q[k]
    <3> SUFFICES ASSUME NEW k \in 1 .. b - 1
                 PROVE  k + (1 + o) \in i + 1 .. j - 1 /\ Stream[k + (1 + o)] = q[k]
      OBVIOUS
    <3>1. k \in 1 .. n /\ k + (1 + o) \in i + 1 .. j - 1 /\ 1 + o + k = k + (1 + o)
      BY <1>1, <1>4, <1>8, <2>1
    <3> QED BY <1>4, <3>1
  <2>3. warned => 2 \in i + 1 .. j - 1 /\ Stream[2].type = "SATURATED"
    BY <1>2, <1>4, <1>7, <2>1
  <2> HIDE DEF b
  <2>4. NoMsg(q, 1, b - 1)
    BY <1>6, <2>2 DEF NoMsg
  <2>5. q[b].id \in {lastSeq + 1, 1} \/ warned \/ ToldBetween(q, 1, b - 1)
    BY <1>1, <1>6, <1>8, <2>4 DEF GapBefore, n
  <2>6. ToldBetween(q, 1, b - 1) => \E k \in i + 1 .. j - 1 : Stream[k].type = "SATURATED"
    BY <2>2 DEF ToldBetween
  <2> QED BY <1>2, <1>4, <1>8, <2>1, <2>3, <2>5, <2>6
<1> QED BY <1>1, <1>4, <1>9, <1>10

(* No message is lost silently: from one message to the next, delivered or *)
(* queued, the numbers go up by one, or start again with a new connection, *)
(* or the user is told in between that the queue was saturated.            *)
THEOREM GapsAreAnnounced == Spec => []GapsAnnounced
<1>1. IInv => GapsAnnounced
  BY StreamGaps
<1> QED BY <1>1, Invariant, PTL

-----------------------------------------------------------------------------
(***************************************************************************)
(* InputReceiver implements ReceiverService.                               *)
(***************************************************************************)
Executing == IF command \in ConfigRequest THEN command ELSE NoCommand

(* Steps of the service's that change nothing, or only the link            *)
LEMMA ServiceStutters ==
    ASSUME UNCHANGED <<state, ConfigCommands, Executing, ConfigAnswers, getCb, setCb, silent>>
    PROVE  [Service!Next]_(Service!service)
  BY DEF Service!service, Executing

LEMMA ServiceLinkChange ==
    ASSUME Executing = NoCommand, state' \in {"IDLE", "BUSY", "READY"},
           UNCHANGED <<ConfigCommands, Executing, ConfigAnswers, getCb, setCb, silent>>
    PROVE  Service!Next
<1>1. Service!LinkChange
  BY DEF Service!LinkChange, Service!Nothing, NoCommand, Executing
<1> QED BY <1>1 DEF Service!Next

LEMMA NothingExecuted == NoCommand \notin ConfigRequest
  BY DEF NoCommand, ConfigRequest

LEMMA ConfigCommandsAppend ==
    ASSUME commandQueue \in Seq(Commands), NEW x \in Commands, commandQueue' = Append(commandQueue, x)
    PROVE  ConfigCommands' = IF x \in ConfigRequest THEN Append(ConfigCommands, x) ELSE ConfigCommands
<1>1. Selected(Append(commandQueue, x), ConfigRequest) =
        IF x \in ConfigRequest THEN Append(Selected(commandQueue, ConfigRequest), x)
        ELSE Selected(commandQueue, ConfigRequest)
  BY SelectedAppend
<1>2. ConfigCommands' = Selected(commandQueue', ConfigRequest)
  BY DEF ConfigCommands
<1> QED BY <1>1, <1>2 DEF ConfigCommands

LEMMA ConfigCommandsTail ==
    ASSUME commandQueue \in Seq(Commands), commandQueue # <<>>, commandQueue' = Tail(commandQueue)
    PROVE  /\ Head(commandQueue) \notin ConfigRequest => ConfigCommands' = ConfigCommands
           /\ Head(commandQueue) \in ConfigRequest =>
                ConfigCommands # <<>> /\ Head(ConfigCommands) = Head(commandQueue)
                /\ ConfigCommands' = Tail(ConfigCommands)
<1> DEFINE x == Head(commandQueue)
           t == Selected(Tail(commandQueue), ConfigRequest)
<1>1. Selected(commandQueue, ConfigRequest) = IF x \in ConfigRequest THEN <<x>> \o t ELSE t
  BY SelectedTail
<1>2. t \in Seq(ConfigRequest)
  <2>1. Tail(commandQueue) \in Seq(Commands)
    BY CommandTail
  <2> QED BY <2>1, SelectedType
<1>3. ConfigCommands' = t /\ ConfigCommands = Selected(commandQueue, ConfigRequest)
  BY DEF ConfigCommands
<1> HIDE DEF t, x
<1>4. x \in ConfigRequest => <<x>> \o t # <<>> /\ Head(<<x>> \o t) = x /\ Tail(<<x>> \o t) = t
  BY <1>2
<1> QED BY <1>1, <1>3, <1>4 DEF x

LEMMA NothingSelected == Selected(<<>>, ConfigRequest) = <<>> /\ Answers(<<>>) = <<>>
<1> DEFINE s == <<>>
<1>1. s = <<>> /\ s \in Seq(Req) /\ s \in Seq(Events)
  OBVIOUS
<1> HIDE DEF s
<1>2. Selected(s, ConfigRequest) = <<>>
  BY <1>1, SelectedType
<1>3. RequestsOf(s) = s
  BY <1>1, RequestsOfType
<1>4. Answers(s) = <<>>
  BY <1>2, <1>3 DEF Answers
<1> QED BY <1>2, <1>4 DEF s

LEMMA ServiceInit == ASSUME Init PROVE Service!Init
<1>1. ConfigCommands = <<>> /\ ConfigAnswers = <<>>
  BY NothingSelected, ConfigAnswersIs DEF Init, ConfigCommands
<1> QED BY <1>1, NothingExecuted DEF Init, Service!Init, Service!Nothing, NoCommand

LEMMA LoopEventRefines == ASSUME IInv, LoopEvent PROVE [Service!Next]_(Service!service)
<1> DEFINE e == Head(eventQueue)
<1>1. /\ eventQueue \in Seq(Events) /\ eventQueue # <<>> /\ eventQueue' = Tail(eventQueue)
      /\ command' = command /\ commandQueue' = commandQueue /\ state' = state /\ silent' = silent
  BY QueueIs DEF LoopEvent, thread, asked
<1>2. e \in Events /\ e = eventQueue[1] /\ 1 \in 1 .. Len(eventQueue)
  BY <1>1
<1>3. e.type \in ConfigOps => e.id \in 1 .. MaxRequests
  BY <1>2 DEF IInv, Numbered, ConfigOps
<1>4. /\ e.type = "GETCONFIG" => getCb' = 0 /\ setCb' = setCb
      /\ e.type = "SETCONFIG" => setCb' = 0 /\ getCb' = getCb
      /\ e.type \notin ConfigOps => getCb' = getCb /\ setCb' = setCb
  BY DEF LoopEvent, ConfigOps
<1>5. /\ RequestOf(e) \in ConfigRequest <=> e.type \in ConfigOps
      /\ RequestOf(e).op = e.type /\ RequestOf(e).id = e.id
  BY <1>2, <1>3 DEF RequestOf, ConfigRequest, ConfigOps, SetOps, Events, EventTypes
<1>6. ConfigCommands' = ConfigCommands /\ Executing' = Executing
  BY <1>1 DEF ConfigCommands, Executing
<1>7. /\ RequestOf(e) \notin ConfigRequest => ConfigAnswers' = ConfigAnswers
      /\ RequestOf(e) \in ConfigRequest => ConfigAnswers # <<>> /\ Head(ConfigAnswers) = RequestOf(e)
                                           /\ ConfigAnswers' = Tail(ConfigAnswers)
  BY <1>1, AnswersTail, ConfigAnswersIs
<1> HIDE DEF e
<1>8. CASE e.type \notin ConfigOps
  BY <1>1, <1>4, <1>5, <1>6, <1>7, <1>8, ServiceStutters
<1>9. CASE e.type = "GETCONFIG"
  <2>1. getCb = e.id
    BY <1>2, <1>9 DEF IInv, Requests, OneRequest
  <2>2. Service!Deliver
    BY <1>1, <1>4, <1>5, <1>6, <1>7, <1>9, <2>1 DEF Service!Deliver, ConfigOps, Executing
  <2> QED BY <2>2 DEF Service!Next
<1>10. CASE e.type = "SETCONFIG"
  <2>1. setCb = e.id \/ silent
    BY <1>2, <1>10 DEF IInv, Requests, OneRequest
  <2>2. Service!Deliver
    BY <1>1, <1>4, <1>5, <1>6, <1>7, <1>10, <2>1 DEF Service!Deliver, ConfigOps, Executing
  <2> QED BY <2>2 DEF Service!Next
<1> QED BY <1>8, <1>9, <1>10 DEF ConfigOps

LEMMA StartRefines == ASSUME IInv, Start PROVE [Service!Next]_(Service!service)
<1>1. /\ state = "IDLE" /\ state' = state /\ command' = command /\ command = NoCommand
      /\ eventQueue' = <<>> /\ commandQueue' = <<>> /\ getCb' = getCb /\ setCb' = setCb /\ silent' = silent
  BY DEF IInv, TypeOK, IdleIsIdle, Start, thread, callbacks
<1>2. ConfigCommands' = <<>> /\ ConfigAnswers' = <<>>
  BY <1>1, NothingSelected, ConfigAnswersIs DEF ConfigCommands
<1>4. Service!Start
  BY <1>1, <1>2, NothingExecuted DEF Service!Start, Service!Nothing, NoCommand
<1> QED BY <1>4 DEF Service!Next

(* The commands that the service knows                                     *)
QueueOps == {"GETCONFIG"} \cup SetOps

LEMMA RequestRefines ==
    ASSUME IInv, GetConfig \/ SetConfig \/ \E op \in Ops : Request(op)
    PROVE  [Service!Next]_(Service!service)
<1>1. ASSUME NEW op \in Ops, SendCommand(op)
      PROVE  /\ reqs + 1 \in 1 .. MaxRequests /\ state' = state /\ Executing' = Executing
             /\ ConfigAnswers' = ConfigAnswers
             /\ op \in QueueOps =>
                    ConfigCommands' = Append(ConfigCommands, [op |-> op, id |-> reqs + 1])
             /\ op \notin QueueOps => ConfigCommands' = ConfigCommands
  <2> DEFINE x == [op |-> op, id |-> reqs + 1]
  <2>1. /\ reqs + 1 \in 1 .. MaxRequests /\ state' = state /\ command' = command
        /\ eventQueue' = eventQueue
        /\ commandQueue \in Seq(Commands) /\ commandQueue' = Append(commandQueue, x)
    BY <1>1, ReceiverAssumption DEF IInv, TypeOK, SendCommand, thread, Commands
  <2>2. x \in Commands /\ (x \in ConfigRequest <=> op \in QueueOps)
    BY <2>1 DEF Commands, ConfigRequest, QueueOps
  <2> HIDE DEF x
  <2>3. ConfigCommands' = IF x \in ConfigRequest THEN Append(ConfigCommands, x) ELSE ConfigCommands
    BY <2>1, <2>2, ConfigCommandsAppend
  <2>4. ConfigAnswers' = ConfigAnswers /\ Executing' = Executing
    BY <2>1, ConfigAnswersIs DEF Executing
  <2> QED BY <2>1, <2>2, <2>3, <2>4 DEF x
<1>2. CASE GetConfig
  <2>1. /\ SendCommand("GETCONFIG") /\ "GETCONFIG" \in Ops /\ "GETCONFIG" \in QueueOps
        /\ getCb = 0 /\ getCb' = reqs + 1 /\ setCb' = setCb /\ silent' = silent
    BY <1>2 DEF GetConfig, Ops, QueueOps
  <2>2. Service!GetConfig(reqs + 1)
    BY <1>1, <2>1 DEF Service!GetConfig, Service!Send, Executing
  <2> QED BY <1>1, <2>1, <2>2 DEF Service!Next
<1>3. CASE SetConfig
  <2>1. PICK op \in SetOps :
          /\ SendCommand(op)
          /\ setCb = 0 /\ getCb' = getCb
          /\ \/ setCb' = reqs + 1 /\ silent' = silent
             \/ silent' = TRUE /\ setCb' = setCb /\ op = "SETCONFIG"
    BY <1>3 DEF SetConfig, SetOps
  <2>2. op \in Ops /\ op \in QueueOps /\ op \in Service!SetOps
    BY DEF SetOps, Ops, QueueOps, Service!SetOps
  <2>3. Service!SetConfig(op, reqs + 1) \/ Service!SetConfigSilently(reqs + 1)
    BY <1>1, <2>1, <2>2 DEF Service!SetConfig, Service!SetConfigSilently, Service!Send, Executing
  <2> QED BY <1>1, <2>1, <2>2, <2>3 DEF Service!Next
<1>4. ASSUME NEW op \in Ops, Request(op) PROVE [Service!Next]_(Service!service)
  <2>1. /\ SendCommand(op) /\ op \notin QueueOps
        /\ getCb' = getCb /\ setCb' = setCb /\ silent' = silent
    BY <1>4 DEF Request, QueueOps, SetOps, callbacks
  <2> QED BY <1>1, <2>1, ServiceStutters
<1> QED BY <1>2, <1>3, <1>4

LEMMA PopCommandRefines == ASSUME IInv, PopCommand PROVE [Service!Next]_(Service!service)
<1>1. /\ commandQueue \in Seq(Commands) /\ commandQueue # <<>>
      /\ command' = Head(commandQueue) /\ commandQueue' = Tail(commandQueue)
      /\ command = NoCommand /\ state # "IDLE" /\ state' \in {"IDLE", "BUSY", "READY"}
      /\ getCb' = getCb /\ setCb' = setCb /\ silent' = silent
      /\ Head(commandQueue) \in ConfigRequest => state' = "BUSY"
      /\ Head(commandQueue).op # "SETNONE"
  BY DEF IInv, TypeOK, IdleIsIdle, Commands, PopCommand, main, callbacks, asked, ConfigRequest, SetOps
<1>2. ConfigAnswers' = ConfigAnswers
  BY PopCommandInv
<1>3. /\ Head(commandQueue) \notin ConfigRequest => ConfigCommands' = ConfigCommands
      /\ Head(commandQueue) \in ConfigRequest =>
           ConfigCommands # <<>> /\ Head(ConfigCommands) = Head(commandQueue)
           /\ ConfigCommands' = Tail(ConfigCommands)
  BY <1>1, ConfigCommandsTail
<1>4. Executing = NoCommand
  BY <1>1 DEF Executing
<1>5. CASE Head(commandQueue) \in ConfigRequest
  <2>1. Executing' = Head(commandQueue)
    BY <1>1, <1>5 DEF Executing
  <2>2. Service!Execute
    BY <1>1, <1>2, <1>3, <1>4, <1>5, <2>1
       DEF Service!Execute, Service!Nothing, NoCommand, Executing
  <2> QED BY <2>2 DEF Service!Next
<1>6. CASE Head(commandQueue) \notin ConfigRequest
  <2>1. Executing' = NoCommand
    BY <1>1, <1>6 DEF Executing
  <2> QED BY <1>1, <1>2, <1>3, <1>4, <1>6, <2>1, ServiceLinkChange
<1> QED BY <1>5, <1>6

LEMMA PopThrowsRefines == ASSUME IInv, PopThrows PROVE [Service!Next]_(Service!service)
<1>1. /\ commandQueue \in Seq(Commands) /\ commandQueue # <<>> /\ commandQueue' = Tail(commandQueue)
      /\ Head(commandQueue).op = "SETNONE" /\ command = NoCommand /\ command' = command
      /\ state # "IDLE" /\ state' = "BUSY"
      /\ getCb' = getCb /\ setCb' = setCb /\ silent' = silent
  BY DEF IInv, TypeOK, IdleIsIdle, Commands, PopThrows, main, callbacks, asked
<1>2. ConfigAnswers' = ConfigAnswers
  BY PopThrowsInv
<1>3. Head(commandQueue) \in ConfigRequest
  <2>1. Head(commandQueue) \in Commands
    BY <1>1, CommandTail
  <2> QED BY <1>1, <2>1 DEF Commands, ConfigRequest, SetOps
<1>4. /\ ConfigCommands # <<>> /\ Head(ConfigCommands) = Head(commandQueue)
      /\ ConfigCommands' = Tail(ConfigCommands)
  BY <1>1, <1>3, ConfigCommandsTail
<1>5. Executing = NoCommand /\ Executing' = NoCommand
  BY <1>1 DEF Executing
<1>6. Service!Abandon
  BY <1>1, <1>2, <1>4, <1>5 DEF Service!Abandon, Service!Nothing, NoCommand, Executing
<1> QED BY <1>6 DEF Service!Next

LEMMA FinishRefines == ASSUME IInv, Finish PROVE [Service!Next]_(Service!service)
<1>1. /\ command' = NoCommand /\ command \in Commands /\ commandQueue' = commandQueue
      /\ state' \in {"IDLE", "BUSY", "READY"}
      /\ command \in ConfigRequest => state' = "READY"
      /\ getCb' = getCb /\ setCb' = setCb /\ silent' = silent
  BY DEF IInv, TypeOK, Commands, Finish, main, callbacks, asked, ConfigRequest, SetOps
<1>2. /\ command \in ConfigRequest => ConfigAnswers' = Append(ConfigAnswers, command)
      /\ command \notin ConfigRequest => ConfigAnswers' = ConfigAnswers
  BY FinishInv
<1>3. ConfigCommands' = ConfigCommands /\ Executing' = NoCommand
  BY <1>1, NothingExecuted DEF ConfigCommands, Executing
<1>4. CASE command \in ConfigRequest
  <2>1. Executing = command /\ command # NoCommand
    BY <1>4, NothingExecuted DEF Executing
  <2>2. Service!Complete
    BY <1>1, <1>2, <1>3, <1>4, <2>1 DEF Service!Complete, Service!Nothing, NoCommand, Executing
  <2> QED BY <2>2 DEF Service!Next
<1>5. CASE command \notin ConfigRequest
  <2>1. Executing = NoCommand
    BY <1>5 DEF Executing
  <2> QED BY <1>1, <1>2, <1>3, <1>5, <2>1, ServiceLinkChange
<1> QED BY <1>4, <1>5

(* The other steps of the thread                                           *)
LEMMA ThreadRefines ==
    ASSUME IInv, ThreadPrepare \/ Connect \/ ConnectFails \/ Yield \/ ThreadCleanup
    PROVE  [Service!Next]_(Service!service)
<1>1. PICK r : Quiet(Queue, r) /\ Becomes(r)
  <2>1. Quiet(Queue, Queue) /\ Quiet(Queue, Sent(Other))
    BY QueueIs, QuietSelf, SendQuiet DEF Sent
  <2>2. Becomes(Sent(Other)) \/ Becomes(Queue)
    BY DEF Becomes, Queue, ThreadPrepare, Connect, ConnectFails, Yield, ThreadCleanup
  <2> QED BY <2>1, <2>2
<1>2. /\ command = NoCommand /\ command' = command /\ commandQueue' = commandQueue
      /\ getCb' = getCb /\ setCb' = setCb /\ silent' = silent /\ UNCHANGED seen
      /\ state' \in {"IDLE", "BUSY", "READY"}
  BY DEF IInv, TypeOK, ThreadPrepare, Connect, ConnectFails, Yield, ThreadCleanup, main, callbacks, asked
<1>3. ConfigAnswers' = ConfigAnswers
  BY <1>1, <1>2, QuietStep
<1>4. ConfigCommands' = ConfigCommands /\ Executing = NoCommand /\ Executing' = NoCommand
  BY <1>2, NothingExecuted DEF ConfigCommands, Executing
<1> QED BY <1>2, <1>3, <1>4, ServiceLinkChange

LEMMA SilentRefines ==
    ASSUME IInv, \/ LoopDone \/ NextFrame \/ Started \/ Stop \/ Stopped \/ Check \/ PumpDone
                 \/ Pump \/ MsgCallback \/ UNCHANGED vars
    PROVE  [Service!Next]_(Service!service)
<1>1. /\ command' = command /\ commandQueue' = commandQueue /\ state' = state
      /\ getCb' = getCb /\ setCb' = setCb /\ silent' = silent
  BY DEF IInv, TypeOK, LoopDone, NextFrame, Started, Stop, Stopped, Check, PumpDone, Pump, MsgCallback,
         vars, main, thread, callbacks, asked, queues
<1>2. ConfigAnswers' = ConfigAnswers
  <2>1. CASE Pump \/ MsgCallback
    BY <2>1, MsgInv
  <2>2. CASE ~(Pump \/ MsgCallback)
    <3>1. eventQueue' = eventQueue
      BY <2>2 DEF LoopDone, NextFrame, Started, Stop, Stopped, Check, PumpDone, vars, queues
    <3> QED BY <3>1, ConfigAnswersIs
  <2> QED BY <2>1, <2>2
<1>3. ConfigCommands' = ConfigCommands /\ Executing' = Executing
  BY <1>1 DEF ConfigCommands, Executing
<1> QED BY <1>1, <1>2, <1>3, ServiceStutters

LEMMA StepRefines == ASSUME IInv, [Next]_vars PROVE [Service!Next]_(Service!service)
  BY LoopEventRefines, StartRefines, RequestRefines, PopCommandRefines, PopThrowsRefines, FinishRefines,
     ThreadRefines, SilentRefines DEF Next, Main, Receiver

(* To its callers the receiver is a ReceiverService: one request of a kind *)
(* at a time, executed in order, its answer delivered to the callback of   *)
(* the request it belongs to, although the uid does not tell them apart.   *)
THEOREM Refinement == Spec => ImplementsService
<1>1. Init => Service!Init
  BY ServiceInit
<1>2. IInv /\ [Next]_vars => [Service!Next]_(Service!service)
  BY StepRefines
<1> QED BY <1>1, <1>2, Invariant, PTL DEF Spec, ImplementsService, Service!Spec

=============================================================================
