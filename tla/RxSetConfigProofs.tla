------------------------- MODULE RxSetConfigProofs -------------------------
(***************************************************************************)
(* Theorems about RxSetConfig, for all lists of keys and all limits of the *)
(* messages: what rxSetConfig() returns can be trusted, and a transaction  *)
(* is applied as a whole, as long as no late answer is taken for another.  *)
(***************************************************************************)
EXTENDS RxSetConfig, SequenceTheorems, TLAPS

-----------------------------------------------------------------------------
(***************************************************************************)
(* The messages of a call: together they have all its keys.                *)
(***************************************************************************)
LEMMA MinIs ==
    ASSUME NEW a \in Int, NEW b \in Int
    PROVE  Min({a, b}) = IF a <= b THEN a ELSE b
<1> DEFINE m == IF a <= b THEN a ELSE b
<1>1. m \in {a, b} /\ \A y \in {a, b} : m <= y
  OBVIOUS
<1>2. \A x \in {a, b} : (\A y \in {a, b} : x <= y) => x = m
  OBVIOUS
<1> QED BY <1>1, <1>2 DEF Min

LEMMA RangeOfSubSeq ==
    ASSUME NEW T, NEW s \in Seq(T), NEW a \in Nat \ {0}, NEW b \in Nat, b <= Len(s)
    PROVE  SubSeq(s, a, b) \in Seq(T) /\ Range(SubSeq(s, a, b)) = {s[n] : n \in a .. b}
<1> DEFINE r == SubSeq(s, a, b)
<1>1. /\ Len(r) = IF a <= b THEN b - a + 1 ELSE 0
      /\ \A i \in 1 .. Len(r) : r[i] = s[a + i - 1]
      /\ DOMAIN r = 1 .. Len(r)
  OBVIOUS
<1>2. r \in Seq(T)
  OBVIOUS
<1> HIDE DEF r
<1>3. Range(r) = {r[i] : i \in 1 .. Len(r)}
  BY <1>1 DEF Range
<1>4. ASSUME NEW i \in 1 .. Len(r) PROVE r[i] \in {s[n] : n \in a .. b}
  <2>1. a + i - 1 \in a .. b
    BY <1>1
  <2> QED BY <1>1, <2>1
<1>5. ASSUME NEW n \in a .. b PROVE s[n] \in {r[i] : i \in 1 .. Len(r)}
  <2>1. n - a + 1 \in 1 .. Len(r) /\ a + (n - a + 1) - 1 = n
    BY <1>1
  <2> QED BY <1>1, <2>1
<1> QED BY <1>2, <1>3, <1>4, <1>5 DEF r

MaxKv == UBX_CFG_VALSET_V1_MAX_KV

(* The keys of the messages up to the i-th                                 *)
KeysUpTo(kv, i) == {kv[n] : n \in {m \in 1 .. Len(kv) : m <= i * MaxKv}}

(* Enough messages, and none too many                                      *)
LEMMA NumMsgsIs ==
    ASSUME NEW n \in Nat
    PROVE  /\ NumMsgs(n) \in Nat
           /\ n <= NumMsgs(n) * MaxKv
           /\ n > 0 => NumMsgs(n) > 0 /\ (NumMsgs(n) - 1) * MaxKv < n
<1> DEFINE b == MaxKv
           q == n \div b
           r == n % b
<1>0. b \in Nat \ {0}
  BY SetConfigAssumption DEF MaxKv
<1> HIDE DEF b
<1>1. n = (b * q) + r /\ r \in 0 .. b - 1 /\ q \in Nat
  BY <1>0
<1>2. NumMsgs(n) = q + (IF r # 0 THEN 1 ELSE 0)
  BY DEF NumMsgs, b, MaxKv
<1> HIDE DEF q, r
<1>3. q * b = b * q /\ (q + 1) * b = (b * q) + b /\ b * q \in Nat
  BY <1>0, <1>1
<1>4. CASE r = 0
  <2>1. NumMsgs(n) = q /\ n = q * b
    BY <1>0, <1>1, <1>2, <1>3, <1>4
  <2>2. n > 0 => q > 0
    BY <1>0, <1>1, <2>1
  <2>3. (q - 1) * b = (q * b) - b
    BY <1>0, <1>1
  <2>4. n > 0 => (q - 1) * b < n
    BY <1>0, <1>1, <2>1, <2>3
  <2> QED BY <1>1, <2>1, <2>2, <2>4 DEF b
<1>5. CASE r # 0
  <2>1. NumMsgs(n) = q + 1
    BY <1>2, <1>5
  <2>2. n <= (q + 1) * b /\ q * b < n
    BY <1>0, <1>1, <1>3, <1>5
  <2> QED BY <1>1, <2>1, <2>2 DEF b
<1> QED BY <1>4, <1>5

(* A message that is not the one to end the transaction                    *)
LEMMA ItemsAre ==
    ASSUME NEW kv \in Seq(Keys), NEW i \in 1 .. NumMsgs(Len(kv))
    PROVE  /\ Items(kv, i) \in Seq(Keys)
           /\ Range(Items(kv, i)) \cup KeysUpTo(kv, i - 1) = KeysUpTo(kv, i)
           /\ i = 1 => Range(Items(kv, i)) = KeysUpTo(kv, 1)
<1> DEFINE b == MaxKv
           l == Len(kv)
           lo == (i - 1) * b
           hi == i * b
           top == IF hi <= l THEN hi ELSE l
<1>1. b \in Nat \ {0} /\ l \in Nat /\ i \in Nat /\ i >= 1
  BY SetConfigAssumption, NumMsgsIs DEF MaxKv
<1> HIDE DEF b, l
<1>2. lo \in Nat /\ hi \in Nat /\ hi = lo + b /\ (i = 1 => lo = 0 /\ hi = b)
  BY <1>1
<1>3. Items(kv, i) = SubSeq(kv, lo + 1, Min({hi, l}))
  BY DEF Items, b, MaxKv, l
<1> HIDE DEF lo, hi
<1>4. Min({hi, l}) = top
  BY <1>1, <1>2, MinIs
<1>5. top \in Nat /\ top <= l /\ lo + 1 \in Nat \ {0}
  BY <1>1, <1>2
<1>6. Items(kv, i) \in Seq(Keys) /\ Range(Items(kv, i)) = {kv[n] : n \in lo + 1 .. top}
  <2>1. SubSeq(kv, lo + 1, top) \in Seq(Keys)
        /\ Range(SubSeq(kv, lo + 1, top)) = {kv[n] : n \in lo + 1 .. top}
    <3> DEFINE a == lo + 1
    <3>1. a \in Nat \ {0} /\ top \in Nat /\ top <= Len(kv)
      BY <1>5 DEF l
    <3> HIDE DEF a, top
    <3>2. SubSeq(kv, a, top) \in Seq(Keys) /\ Range(SubSeq(kv, a, top)) = {kv[n] : n \in a .. top}
      BY <3>1, RangeOfSubSeq
    <3> QED BY <3>2 DEF a
  <2> QED BY <1>3, <1>4, <2>1
<1>7. /\ KeysUpTo(kv, i) = {kv[n] : n \in {m \in 1 .. l : m <= hi}}
      /\ KeysUpTo(kv, i - 1) = {kv[n] : n \in {m \in 1 .. l : m <= lo}}
  BY DEF KeysUpTo, hi, lo, b, l
<1>8. {m \in 1 .. l : m <= hi} = lo + 1 .. top \cup {m \in 1 .. l : m <= lo}
  BY <1>1, <1>2
<1>9. KeysUpTo(kv, i) = {kv[n] : n \in lo + 1 .. top} \cup KeysUpTo(kv, i - 1)
  BY <1>7, <1>8
<1>10. i = 1 => KeysUpTo(kv, i - 1) = {}
  BY <1>1, <1>2, <1>7
<1> QED BY <1>6, <1>9, <1>10

LEMMA AllKeys ==
    ASSUME NEW kv \in Seq(Keys)
    PROVE  KeysUpTo(kv, NumMsgs(Len(kv))) = Range(kv)
<1>1. Len(kv) \in Nat /\ DOMAIN kv = 1 .. Len(kv)
  OBVIOUS
<1>2. Len(kv) <= NumMsgs(Len(kv)) * MaxKv /\ NumMsgs(Len(kv)) \in Nat /\ MaxKv \in Nat
  BY <1>1, NumMsgsIs, SetConfigAssumption DEF MaxKv
<1>3. NumMsgs(Len(kv)) * MaxKv \in Nat
  BY <1>2
<1>4. {m \in 1 .. Len(kv) : m <= NumMsgs(Len(kv)) * MaxKv} = 1 .. Len(kv)
  BY <1>1, <1>2, <1>3
<1> QED BY <1>1, <1>4 DEF KeysUpTo, Range

LEMMA Joined ==
    ASSUME NEW T, NEW r \in Seq(T), NEW t \in Seq(T)
    PROVE  /\ Len(r \o t) = Len(r) + Len(t)
           /\ \A i \in 1 .. Len(r) : (r \o t)[i] = r[i]
           /\ Len(t) = 1 => (r \o t)[Len(r) + 1] = t[1]
<1>1. Len(r \o t) = Len(r) + Len(t)
  OBVIOUS
<1>2. \A i \in 1 .. Len(r) : (r \o t)[i] = r[i]
  OBVIOUS
<1>3. Len(t) = 1 => (r \o t)[Len(r) + 1] = t[1]
  OBVIOUS
<1> QED BY <1>1, <1>2, <1>3

LEMMA ValsetIs ==
    ASSUME NEW kv \in Seq(Keys)
    PROVE  LET n == NumMsgs(Len(kv))
               s == Valset(kv)
           IN  /\ n \in Nat /\ (Len(kv) > 0 => n > 0) /\ (Len(kv) = 0 => n = 0)
               /\ Len(s) = IF n > 1 THEN n + 1 ELSE n
               /\ \A i \in 1 .. n : s[i] = [kv |-> Items(kv, i), transaction |-> Transaction(i, n)]
               /\ n > 1 => s[n + 1] = [kv |-> <<>>, transaction |-> "END"]
<1> DEFINE n == NumMsgs(Len(kv))
           e == [kv |-> <<>>, transaction |-> "END"]
           r == [i \in 1 .. n |-> [kv |-> Items(kv, i), transaction |-> Transaction(i, n)]]
           t == IF n > 1 THEN <<e>> ELSE <<>>
           s == Valset(kv)
<1>1. n \in Nat /\ (Len(kv) > 0 => n > 0)
  BY NumMsgsIs
<1>2. Len(kv) = 0 => n = 0
  <2>1. 0 \div MaxKv = 0 /\ 0 % MaxKv = 0
    BY SetConfigAssumption DEF MaxKv
  <2> QED BY <2>1 DEF NumMsgs, MaxKv
<1>3. s = r \o t
  BY DEF Valset
<1> DEFINE T == {r[i] : i \in 1 .. n} \cup {e}
<1>4. r \in Seq(T) /\ Len(r) = n
  BY <1>1
<1>5. t \in Seq(T) /\ Len(t) = (IF n > 1 THEN 1 ELSE 0) /\ (n > 1 => t[1] = e)
  <2>1. e \in T
    OBVIOUS
  <2> HIDE DEF T, e
  <2>2. CASE n > 1
    BY <2>1, <2>2
  <2>3. CASE ~(n > 1)
    BY <2>3
  <2> QED BY <2>2, <2>3
<1>6. \A i \in 1 .. n : r[i] = [kv |-> Items(kv, i), transaction |-> Transaction(i, n)]
  OBVIOUS
<1> HIDE DEF n, e, r, t, s, T
<1>7. /\ Len(s) = n + Len(t)
      /\ \A i \in 1 .. n : s[i] = r[i]
      /\ n > 1 => s[n + 1] = t[1]
  BY <1>1, <1>3, <1>4, <1>5, Joined
<1>8. Len(s) = IF n > 1 THEN n + 1 ELSE n
  BY <1>1, <1>5, <1>7
<1>9. \A i \in 1 .. n : s[i] = [kv |-> Items(kv, i), transaction |-> Transaction(i, n)]
  BY <1>6, <1>7
<1>10. n > 1 => s[n + 1] = e
  BY <1>5, <1>7
<1> QED BY <1>1, <1>2, <1>8, <1>9, <1>10 DEF s, n, e

(* What each message of a call is for                                      *)
Begins(kv, q) == q.transaction = "BEGIN" /\ Range(q.kv) = KeysUpTo(kv, 1)
Continues(kv, i, q) ==
    q.transaction = "CONTINUE" /\ Range(q.kv) \cup KeysUpTo(kv, i - 1) = KeysUpTo(kv, i)
Ends(kv, i, q) == q.transaction = "END" /\ KeysUpTo(kv, i - 1) = Range(kv)

LEMMA MessageIs ==
    ASSUME NEW kv \in Seq(Keys), NEW i \in 1 .. Len(Valset(kv))
    PROVE  LET q == Valset(kv)[i]
               n == Len(Valset(kv))
           IN  /\ n \in Nat /\ Len(kv) > 0
               /\ q = [kv |-> q.kv, transaction |-> q.transaction] /\ q.kv \in Seq(Keys)
               /\ \/ i = 1 /\ n = 1 /\ q.transaction = "NONE" /\ Range(q.kv) = Range(kv)
                  \/ i = 1 /\ n > 1 /\ Begins(kv, q)
                  \/ i > 1 /\ i < n /\ Continues(kv, i, q)
                  \/ i > 1 /\ i = n /\ Ends(kv, i, q)
<1> DEFINE m == NumMsgs(Len(kv))
           n == Len(Valset(kv))
           q == Valset(kv)[i]
<1>1. /\ m \in Nat /\ (Len(kv) > 0 => m > 0) /\ (Len(kv) = 0 => m = 0)
      /\ n = (IF m > 1 THEN m + 1 ELSE m)
      /\ \A j \in 1 .. m : Valset(kv)[j] = [kv |-> Items(kv, j), transaction |-> Transaction(j, m)]
      /\ m > 1 => Valset(kv)[m + 1] = [kv |-> <<>>, transaction |-> "END"]
  BY ValsetIs
<1>2. \A j \in 1 .. m : /\ Items(kv, j) \in Seq(Keys)
                        /\ Range(Items(kv, j)) \cup KeysUpTo(kv, j - 1) = KeysUpTo(kv, j)
                        /\ j = 1 => Range(Items(kv, j)) = KeysUpTo(kv, 1)
  BY ItemsAre
<1>3. KeysUpTo(kv, m) = Range(kv)
  BY AllKeys
<1>4. Len(kv) \in Nat /\ n \in Nat /\ i \in 1 .. n
  BY <1>1
<1> HIDE DEF m, n
<1>5. Len(kv) > 0
  BY <1>1, <1>4
<1>6. CASE i \in 1 .. m
  <2>0. q = [kv |-> Items(kv, i), transaction |-> Transaction(i, m)]
    BY <1>1, <1>6
  <2> HIDE DEF q
  <2>1. q.kv = Items(kv, i) /\ q.transaction = Transaction(i, m)
        /\ q = [kv |-> q.kv, transaction |-> q.transaction]
    BY <2>0
  <2>2. q.kv \in Seq(Keys)
    BY <1>2, <1>6, <2>1
  <2>3. Range(q.kv) \cup KeysUpTo(kv, i - 1) = KeysUpTo(kv, i)
        /\ (i = 1 => Range(q.kv) = KeysUpTo(kv, 1))
    BY <1>2, <1>6, <2>1
  <2>4. n \in Nat /\ Len(kv) > 0 /\ n = (IF m > 1 THEN m + 1 ELSE m) /\ m \in Nat
    BY <1>1, <1>4, <1>5
  <2>5. \/ i = 1 /\ n = 1 /\ q.transaction = "NONE" /\ Range(q.kv) = Range(kv)
        \/ i = 1 /\ n > 1 /\ Begins(kv, q)
        \/ i > 1 /\ i < n /\ Continues(kv, i, q)
    <3>1. CASE m = 1
      <4>1. i = 1 /\ n = 1 /\ q.transaction = "NONE"
        BY <1>6, <2>1, <2>4, <3>1 DEF Transaction
      <4> QED BY <1>3, <2>3, <3>1, <4>1
    <3>2. CASE m > 1 /\ i = 1
      <4>1. n > 1 /\ q.transaction = "BEGIN"
        BY <2>1, <2>4, <3>2 DEF Transaction
      <4> QED BY <2>3, <3>2, <4>1 DEF Begins
    <3>3. CASE m > 1 /\ i > 1
      <4>1. i < n /\ q.transaction = "CONTINUE"
        BY <1>6, <2>1, <2>4, <3>3 DEF Transaction
      <4> QED BY <2>3, <3>3, <4>1 DEF Continues
    <3> QED BY <1>6, <2>4, <3>1, <3>2, <3>3
  <2> QED BY <2>1, <2>2, <2>4, <2>5 DEF n, q
<1>7. CASE i = m + 1 /\ m > 1
  <2>1. q.kv = <<>> /\ q.transaction = "END" /\ q = [kv |-> q.kv, transaction |-> q.transaction]
    BY <1>1, <1>7
  <2>2. q.kv \in Seq(Keys)
    BY <2>1
  <2>3. i - 1 = m /\ i = n /\ i > 1
    BY <1>1, <1>7
  <2> HIDE DEF q
  <2>4. Ends(kv, i, q)
    BY <1>3, <2>1, <2>3 DEF Ends
  <2> QED BY <1>4, <1>5, <2>1, <2>2, <2>3, <2>4 DEF n, q
<1> QED BY <1>1, <1>4, <1>6, <1>7

-----------------------------------------------------------------------------
(***************************************************************************)
(* The invariant.                                                          *)
(***************************************************************************)

(* What is on the link is in the order in which the host sent it           *)
Before(x, y) == x.call < y.call \/ (x.call = y.call /\ x.ix < y.ix)
InOrder(s) == \A i, j \in 1 .. Len(s) : i < j => Before(s[i], s[j])
LinkInOrder ==
    /\ InOrder(requests) /\ InOrder(answers)
    /\ \A i \in 1 .. Len(answers), j \in 1 .. Len(requests) : Before(answers[i], requests[j])

Current == [call |-> call, ix |-> ix]
Sent(x, p, y) ==
    \/ p = "idle" /\ x.call <= y.call
    \/ p \in {"send", "wait"} /\ Before(x, y)
    \/ p = "wait" /\ x.call = y.call /\ x.ix = y.ix
LinkSent ==
    /\ \A i \in 1 .. Len(requests) : Sent(requests[i], pc, Current)
    /\ \A i \in 1 .. Len(answers) : Sent(answers[i], pc, Current)

(* A request is a message of a call                                        *)
IsMessage(q) ==
    /\ q.ix \in 1 .. Len(Valset(Calls[q.call]))
    /\ q.kv = Valset(Calls[q.call])[q.ix].kv
    /\ q.transaction = Valset(Calls[q.call])[q.ix].transaction

Working ==
    IF pc = "idle" THEN Len(results) = call
    ELSE /\ Len(results) = call - 1 /\ call \in 1 .. Len(Calls)
         /\ ix \in 1 .. Len(Msgs) /\ ~TooMany(Calls[call]) /\ Calls[call] # <<>>

(* What the receiver has after the messages of a call up to the i-th       *)
Staged(c, i) == staged = [k \in KeysUpTo(Calls[c], i) |-> c]
Set(c) == \A k \in Range(Calls[c]) : config[k] = c
Done(c, i) == IF i < Len(Valset(Calls[c])) THEN Staged(c, i) ELSE Set(c)

(* A further message of a call that is not misled finds it so              *)
InTurn ==
    \A j \in 1 .. Len(requests) :
        requests[j].ix > 1 /\ requests[j].call \notin misled =>
            j = 1 /\ Staged(requests[j].call, requests[j].ix - 1)

(* What the host knows of it                                               *)
Known ==
    call \notin misled =>
        /\ pc = "send" /\ ix > 1 =>
                requests = <<>> /\ answers = <<>> /\ Staged(call, ix - 1)
        /\ pc = "wait" => \A i \in 1 .. Len(answers) :
                answers[i].call = call /\ answers[i].ix = ix /\ answers[i].ack => Done(call, ix)
        /\ pc = "idle" /\ call > 0 /\ results[call] /\ Calls[call] # <<>> =>
                requests = <<>> /\ Set(call)

(* Later calls win                                                         *)
InCallOrder ==
    misled = {} =>
        \A k \in Keys : /\ config[k] <= call
                        /\ \A j \in 1 .. Len(requests) : config[k] <= requests[j].call

IInv ==
    /\ TypeOK /\ LinkInOrder /\ LinkSent /\ Working
    /\ \A j \in 1 .. Len(requests) : IsMessage(requests[j])
    /\ InTurn /\ Known /\ InCallOrder /\ AllOrNothing

-----------------------------------------------------------------------------
(***************************************************************************)
(* Sequences and functions.                                                *)
(***************************************************************************)
Requests == [kv : Seq(Keys), call : 1 .. Len(Calls), ix : Nat \ {0},
             transaction : {"NONE", "BEGIN", "CONTINUE", "END"}]
Acks == [ack : BOOLEAN, call : 1 .. Len(Calls), ix : Nat \ {0}]

LEMMA TailIs ==
    ASSUME NEW T, NEW s \in Seq(T), s # <<>>
    PROVE  /\ Tail(s) \in Seq(T) /\ Head(s) \in T /\ Head(s) = s[1] /\ 1 \in 1 .. Len(s)
           /\ Len(s) = Len(Tail(s)) + 1 /\ Len(Tail(s)) \in Nat
           /\ \A i \in 1 .. Len(Tail(s)) : i + 1 \in 1 .. Len(s) /\ i + 1 > 1 /\ Tail(s)[i] = s[i + 1]
  OBVIOUS

LEMMA AppendIs ==
    ASSUME NEW T, NEW s \in Seq(T), NEW x \in T
    PROVE  /\ Append(s, x) \in Seq(T) /\ Len(s) \in Nat /\ Len(Append(s, x)) = Len(s) + 1
           /\ Append(s, x)[Len(s) + 1] = x
           /\ \A i \in 1 .. Len(s) : Append(s, x)[i] = s[i]
  OBVIOUS

LEMMA InOrderTail ==
    ASSUME NEW T, NEW s \in Seq(T), s # <<>>, InOrder(s)
    PROVE  InOrder(Tail(s)) /\ \A i \in 1 .. Len(Tail(s)) : Before(Head(s), Tail(s)[i])
<1> DEFINE r == Tail(s)
           h == Head(s)
<1>1. /\ h = s[1] /\ 1 \in 1 .. Len(s) /\ Len(r) \in Nat
      /\ \A i \in 1 .. Len(r) : i + 1 \in 1 .. Len(s) /\ i + 1 > 1 /\ r[i] = s[i + 1]
  BY TailIs
<1> HIDE DEF r, h
<1>2. InOrder(r)
  <2> SUFFICES ASSUME NEW i \in 1 .. Len(r), NEW j \in 1 .. Len(r), i < j PROVE Before(r[i], r[j])
    BY DEF InOrder
  <2>1. i + 1 < j + 1
    BY <1>1
  <2>2. Before(s[i + 1], s[j + 1])
    BY <1>1, <2>1 DEF InOrder
  <2> QED BY <1>1, <2>2
<1>3. ASSUME NEW i \in 1 .. Len(r) PROVE Before(h, r[i])
  <2>1. 1 < i + 1
    BY <1>1
  <2>2. Before(s[1], s[i + 1])
    BY <1>1, <2>1 DEF InOrder
  <2> QED BY <1>1, <2>2
<1> QED BY <1>2, <1>3 DEF r, h

LEMMA InOrderAppend ==
    ASSUME NEW T, NEW s \in Seq(T), NEW x \in T, InOrder(s), \A i \in 1 .. Len(s) : Before(s[i], x)
    PROVE  InOrder(Append(s, x))
<1> DEFINE r == Append(s, x)
           n == Len(s)
<1>1. n \in Nat /\ Len(r) = n + 1 /\ r[n + 1] = x /\ \A i \in 1 .. n : r[i] = s[i]
  BY AppendIs
<1> HIDE DEF r
<1>2. InOrder(r)
  <2> SUFFICES ASSUME NEW i \in 1 .. n + 1, NEW j \in 1 .. n + 1, i < j PROVE Before(r[i], r[j])
    BY <1>1 DEF InOrder
  <2>1. i \in 1 .. n
    BY <1>1
  <2>2. CASE j \in 1 .. n
    BY <1>1, <2>1, <2>2 DEF InOrder
  <2>3. CASE j = n + 1
    BY <1>1, <2>1, <2>3
  <2> QED BY <1>1, <2>2, <2>3
<1> QED BY <1>2 DEF r

LEMMA TypesAre ==
    ASSUME TypeOK
    PROVE  /\ requests \in Seq(Requests) /\ answers \in Seq(Acks)
           /\ Len(requests) \in Nat /\ Len(answers) \in Nat
           /\ \A j \in 1 .. Len(requests) : requests[j] \in Requests
           /\ \A i \in 1 .. Len(answers) : answers[i] \in Acks
           /\ Calls \in Seq(Seq(Keys)) /\ Len(Calls) \in Nat
           /\ \A c \in 1 .. Len(Calls) : Calls[c] \in Seq(Keys)
<1>1. requests \in Seq(Requests) /\ answers \in Seq(Acks)
  BY DEF TypeOK, Requests, Acks
<1>2. Calls \in Seq(Seq(Keys))
  BY SetConfigAssumption
<1>3. \A c \in 1 .. Len(Calls) : Calls[c] \in Seq(Keys)
  BY <1>2
<1> QED BY <1>1, <1>2, <1>3

(***************************************************************************)
(* A message leaves the link.                                              *)
(***************************************************************************)
LEMMA TakeRequest ==
    ASSUME IInv, requests # <<>>, requests' = Tail(requests), UNCHANGED host,
           \/ answers' = answers
           \/ \E ack \in BOOLEAN : Answer(Head(requests), ack)
    PROVE  /\ requests' \in Seq(Requests) /\ answers' \in Seq(Acks)
           /\ LinkInOrder' /\ LinkSent' /\ \A j \in 1 .. Len(requests') : IsMessage(requests'[j])
           /\ \A j \in 1 .. Len(requests') : requests'[j].ix > 1 => requests'[j].call \in misled'
           /\ \A j \in 1 .. Len(requests') : requests'[j].call >= Head(requests).call
<1> DEFINE q == Head(requests)
<1>1. requests \in Seq(Requests) /\ answers \in Seq(Acks)
  BY TypesAre DEF IInv
<1>2. /\ requests' \in Seq(Requests) /\ q \in Requests /\ q = requests[1] /\ 1 \in 1 .. Len(requests)
      /\ \A j \in 1 .. Len(requests') : j + 1 \in 1 .. Len(requests) /\ j + 1 > 1
                                        /\ requests'[j] = requests[j + 1]
  BY <1>1, TailIs
<1>3. /\ InOrder(requests) /\ InOrder(answers)
      /\ \A i \in 1 .. Len(answers), j \in 1 .. Len(requests) : Before(answers[i], requests[j])
  BY DEF IInv, LinkInOrder
<1>4. InOrder(requests') /\ \A j \in 1 .. Len(requests') : Before(q, requests'[j])
  BY <1>1, <1>3, InOrderTail
<1>5. pc' = pc /\ call' = call /\ ix' = ix /\ misled' = misled
  BY DEF host
<1>6. Current' = Current /\ \A i \in 1 .. Len(requests') : Sent(requests'[i], pc, Current)
  BY <1>2, <1>5 DEF IInv, LinkSent, Current
<1>7. Sent(q, pc, Current) /\ \A i \in 1 .. Len(answers) : Sent(answers[i], pc, Current)
  BY <1>2 DEF IInv, LinkSent
<1>8. \A j \in 1 .. Len(requests') : IsMessage(requests'[j])
  BY <1>2 DEF IInv
<1>9. \A j \in 1 .. Len(requests') : requests'[j].ix > 1 => requests'[j].call \in misled'
  <2> SUFFICES ASSUME NEW j \in 1 .. Len(requests'), requests'[j].ix > 1,
                      requests'[j].call \notin misled
               PROVE  FALSE
    BY <1>5
  <2>1. j + 1 = 1
    BY <1>2 DEF IInv, InTurn
  <2> QED BY <1>2, <2>1
<1>10. \A j \in 1 .. Len(requests') : requests'[j].call >= q.call
  <2> SUFFICES ASSUME NEW j \in 1 .. Len(requests') PROVE requests'[j].call >= q.call
    OBVIOUS
  <2>1. requests'[j] \in Requests
    BY <1>2
  <2>2. \A x \in Requests : x.call \in 1 .. Len(Calls)
    BY DEF Requests
  <2>3. requests'[j].call \in 1 .. Len(Calls) /\ q.call \in 1 .. Len(Calls) /\ Len(Calls) \in Nat
    BY <1>2, <2>1, <2>2, TypesAre DEF IInv
  <2> QED BY <1>4, <2>3 DEF Before
<1>11. CASE answers' = answers
  <2>1. LinkInOrder'
    BY <1>2, <1>3, <1>4, <1>11 DEF LinkInOrder
  <2>2. LinkSent'
    BY <1>5, <1>6, <1>7, <1>11 DEF LinkSent
  <2> QED BY <1>1, <1>2, <1>8, <1>9, <1>10, <1>11, <2>1, <2>2
<1>12. ASSUME NEW ack \in BOOLEAN, Answer(q, ack)
       PROVE  answers' \in Seq(Acks) /\ LinkInOrder' /\ LinkSent'
  <2> DEFINE a == [ack |-> ack, call |-> q.call, ix |-> q.ix]
             n == Len(answers)
  <2>1. a \in Acks /\ answers' = Append(answers, a)
    BY <1>2, <1>12 DEF Answer, Acks, Requests
  <2>2. a.call = q.call /\ a.ix = q.ix
    OBVIOUS
  <2> HIDE DEF a
  <2>3. /\ answers' \in Seq(Acks) /\ n \in Nat /\ Len(answers') = n + 1 /\ answers'[n + 1] = a
        /\ \A i \in 1 .. n : answers'[i] = answers[i]
    BY <1>1, <2>1, AppendIs
  <2>4. \A x : (Before(x, a) <=> Before(x, q)) /\ (Before(a, x) <=> Before(q, x))
    BY <2>2 DEF Before
  <2>5. InOrder(answers')
    <3>1. \A i \in 1 .. Len(answers) : Before(answers[i], a)
      BY <1>2, <1>3, <2>4
    <3> QED BY <1>1, <1>3, <2>1, <3>1, InOrderAppend
  <2>6. \A i \in 1 .. n + 1 : i \in 1 .. n \/ i = n + 1
    BY <2>3
  <2>7. \A i \in 1 .. Len(answers'), j \in 1 .. Len(requests') : Before(answers'[i], requests'[j])
    BY <1>2, <1>3, <1>4, <2>3, <2>4, <2>6
  <2>8. Sent(a, pc, Current)
    BY <1>7, <2>2, <2>4 DEF Sent
  <2>9. \A i \in 1 .. Len(answers') : Sent(answers'[i], pc, Current)
    BY <1>7, <2>3, <2>6, <2>8
  <2>10. LinkSent'
    BY <1>5, <1>6, <2>9 DEF LinkSent
  <2> QED BY <1>4, <2>3, <2>5, <2>7, <2>10 DEF LinkInOrder
<1> QED BY <1>2, <1>8, <1>9, <1>10, <1>11, <1>12

LEMMA TakeAnswer ==
    ASSUME IInv, answers # <<>>, answers' = Tail(answers), UNCHANGED requests
    PROVE  /\ answers' \in Seq(Acks) /\ LinkInOrder'
           /\ \A i \in 1 .. Len(answers') : i + 1 \in 1 .. Len(answers) /\ i + 1 > 1
                                            /\ answers'[i] = answers[i + 1]
           /\ Head(answers) \in Acks /\ Head(answers) = answers[1] /\ 1 \in 1 .. Len(answers)
           /\ \A i \in 1 .. Len(answers') : Before(Head(answers), answers'[i])
           /\ \A j \in 1 .. Len(requests) : Before(Head(answers), requests[j])
<1>1. requests \in Seq(Requests) /\ answers \in Seq(Acks)
  BY TypesAre DEF IInv
<1>2. /\ answers' \in Seq(Acks) /\ Head(answers) \in Acks
      /\ Head(answers) = answers[1] /\ 1 \in 1 .. Len(answers)
      /\ \A i \in 1 .. Len(answers') : i + 1 \in 1 .. Len(answers) /\ i + 1 > 1
                                       /\ answers'[i] = answers[i + 1]
  BY <1>1, TailIs
<1>3. /\ InOrder(requests) /\ InOrder(answers)
      /\ \A i \in 1 .. Len(answers), j \in 1 .. Len(requests) : Before(answers[i], requests[j])
  BY DEF IInv, LinkInOrder
<1>4. InOrder(answers') /\ \A i \in 1 .. Len(answers') : Before(Head(answers), answers'[i])
  BY <1>1, <1>3, InOrderTail
<1>5. LinkInOrder'
  BY <1>2, <1>3, <1>4 DEF LinkInOrder
<1> QED BY <1>2, <1>3, <1>4, <1>5

(* What the receiver makes of a message of call c, its i-th                *)
LEMMA ApplyEffect ==
    ASSUME IInv, Apply, NEW c, NEW i, c = Head(requests).call, i = Head(requests).ix
    PROVE  /\ c \in 1 .. Len(Calls)
           /\ config' \in [Keys -> 0 .. Len(Calls)]
           /\ \E K \in SUBSET Keys : staged' \in [K -> 1 .. Len(Calls)]
           /\ c \notin misled => Done(c, i)'
           /\ \/ config' = config
              \/ c \notin misled =>
                    config' = [k \in Keys |-> IF k \in Range(Calls[c]) THEN c ELSE config[k]]
<1> DEFINE q == Head(requests)
           kv == Calls[c]
           n == Len(Valset(kv))
           V == [k \in Range(q.kv) |-> c]
<1>1. /\ requests \in Seq(Requests) /\ requests # <<>> /\ q \in Requests /\ q = requests[1]
      /\ 1 \in 1 .. Len(requests)
  BY TypesAre, TailIs DEF IInv, Apply
<1>2. c \in 1 .. Len(Calls) /\ kv \in Seq(Keys)
  BY <1>1, TypesAre DEF IInv, Requests
<1>3. /\ i \in 1 .. n /\ q.kv = Valset(kv)[i].kv /\ q.transaction = Valset(kv)[i].transaction
  BY <1>1 DEF IInv, IsMessage
<1>4. /\ n \in Nat
      /\ \/ i = 1 /\ n = 1 /\ q.transaction = "NONE" /\ Range(q.kv) = Range(kv)
         \/ i = 1 /\ n > 1 /\ Begins(kv, q)
         \/ i > 1 /\ i < n /\ Continues(kv, i, q)
         \/ i > 1 /\ i = n /\ Ends(kv, i, q)
  <2> DEFINE w == Valset(kv)[i]
  <2>1. /\ n \in Nat
        /\ \/ i = 1 /\ n = 1 /\ w.transaction = "NONE" /\ Range(w.kv) = Range(kv)
           \/ i = 1 /\ n > 1 /\ Begins(kv, w)
           \/ i > 1 /\ i < n /\ Continues(kv, i, w)
           \/ i > 1 /\ i = n /\ Ends(kv, i, w)
    <3> HIDE DEF kv
    <3> QED BY <1>2, <1>3, MessageIs
  <2>2. q.kv = w.kv /\ q.transaction = w.transaction
    BY <1>3
  <2> HIDE DEF w, q, n, kv
  <2> QED BY <2>1, <2>2 DEF Begins, Continues, Ends
<1>5. i > 1 /\ c \notin misled => staged = [k \in KeysUpTo(kv, i - 1) |-> c]
  BY <1>1 DEF IInv, InTurn, Staged
<1>6. Values(q) = V
  BY DEF Values
<1>7. config \in [Keys -> 0 .. Len(Calls)] /\ config = [k \in Keys |-> config[k]]
  BY DEF IInv, TypeOK
<1>8. PICK K \in SUBSET Keys : staged \in [K -> 1 .. Len(Calls)]
  BY DEF IInv, TypeOK
<1>9. staged = [k \in K |-> staged[k]]
  BY <1>8
<1>10. Range(q.kv) \subseteq Keys
  BY <1>1 DEF Requests, Range
<1>11. KeysUpTo(kv, i) \subseteq Keys
  BY <1>2 DEF KeysUpTo
<1>12. Done(c, i)' <=> IF i < n THEN staged' = [k \in KeysUpTo(kv, i) |-> c]
                       ELSE \A k \in Range(kv) : config'[k] = c
  BY DEF Done, Staged, Set
<1>13. /\ Over(V, config) = [k \in Range(q.kv) \cup Keys |-> IF k \in Range(q.kv) THEN c ELSE config[k]]
       /\ Over(V, staged) = [k \in Range(q.kv) \cup K |-> IF k \in Range(q.kv) THEN c ELSE staged[k]]
  <2>1. DOMAIN V = Range(q.kv) /\ \A k \in Range(q.kv) : V[k] = c
    OBVIOUS
  <2>2. DOMAIN config = Keys /\ DOMAIN staged = K
    BY <1>7, <1>8
  <2> HIDE DEF V
  <2> QED BY <2>1, <2>2 DEF Over
<1>14. \/ /\ q.transaction = "NONE"
          /\ config' = Over(V, config) /\ staged' = NoTransaction
       \/ /\ q.transaction = "BEGIN"
          /\ staged' = V /\ config' = config
       \/ /\ q.transaction = "CONTINUE"
          /\ staged' = Over(V, staged) /\ config' = config
       \/ /\ q.transaction = "END"
          /\ config' = Over(staged, config) /\ staged' = NoTransaction
  BY <1>6 DEF Apply
<1>15. \E S \in SUBSET Keys : NoTransaction \in [S -> 1 .. Len(Calls)]
  <2>1. NoTransaction \in [{} -> 1 .. Len(Calls)] /\ {} \in SUBSET Keys
    BY DEF NoTransaction
  <2> QED BY <2>1
<1>16. Range(kv) \subseteq Keys
  BY <1>2 DEF Range
<1> HIDE DEF q, kv, n
<1>17. CASE q.transaction = "NONE"
  <2>1. config' = Over(V, config) /\ staged' = NoTransaction /\ i = 1 /\ n = 1 /\ Range(q.kv) = Range(kv)
    BY <1>4, <1>14, <1>17 DEF Begins, Continues, Ends
  <2>2. config' = [k \in Keys |-> IF k \in Range(kv) THEN c ELSE config[k]]
    BY <1>10, <1>13, <2>1
  <2>3. config' \in [Keys -> 0 .. Len(Calls)]
    BY <1>2, <1>7, <2>2
  <2>4. \A k \in Range(kv) : config'[k] = c
    BY <1>16, <2>2
  <2>5. \E S \in SUBSET Keys : staged' \in [S -> 1 .. Len(Calls)]
    BY <1>15, <2>1
  <2>6. Done(c, i)'
    BY <1>12, <2>1, <2>4
  <2> QED BY <1>2, <2>2, <2>3, <2>5, <2>6 DEF kv
<1>18. CASE q.transaction = "BEGIN"
  <2>1. staged' = V /\ config' = config /\ i = 1 /\ n > 1 /\ Range(q.kv) = KeysUpTo(kv, 1)
    BY <1>4, <1>14, <1>18 DEF Begins, Continues, Ends
  <2>2. staged' = [k \in KeysUpTo(kv, i) |-> c]
    BY <2>1
  <2>3. staged' \in [KeysUpTo(kv, i) -> 1 .. Len(Calls)]
    BY <1>2, <2>2
  <2> QED BY <1>2, <1>4, <1>7, <1>11, <1>12, <2>1, <2>2, <2>3
<1>19. CASE q.transaction = "CONTINUE"
  <2>1. /\ staged' = Over(V, staged) /\ config' = config /\ i > 1 /\ i < n
        /\ Range(q.kv) \cup KeysUpTo(kv, i - 1) = KeysUpTo(kv, i)
    BY <1>4, <1>14, <1>19 DEF Begins, Continues, Ends
  <2>2. staged' = [k \in Range(q.kv) \cup K |-> IF k \in Range(q.kv) THEN c ELSE staged[k]]
    BY <1>13, <2>1
  <2>3. staged' \in [Range(q.kv) \cup K -> 1 .. Len(Calls)] /\ Range(q.kv) \cup K \in SUBSET Keys
    BY <1>2, <1>8, <1>10, <2>2
  <2>4. ASSUME c \notin misled PROVE staged' = [k \in KeysUpTo(kv, i) |-> c]
    <3>1. staged = [k \in KeysUpTo(kv, i - 1) |-> c]
      BY <1>5, <2>1, <2>4
    <3>2. K = KeysUpTo(kv, i - 1) /\ \A k \in K : staged[k] = c
      BY <1>9, <3>1
    <3> QED BY <2>1, <2>2, <3>2
  <2> QED BY <1>2, <1>7, <1>12, <2>1, <2>3, <2>4
<1>20. CASE q.transaction = "END"
  <2>1. /\ config' = Over(staged, config) /\ staged' = NoTransaction /\ i > 1 /\ i = n
        /\ KeysUpTo(kv, i - 1) = Range(kv)
    BY <1>4, <1>14, <1>20 DEF Begins, Continues, Ends
  <2>2. config' = [k \in Keys |-> IF k \in K THEN staged[k] ELSE config[k]]
    <3>1. DOMAIN staged = K /\ DOMAIN config = Keys /\ K \cup Keys = Keys
      BY <1>7, <1>8
    <3> QED BY <2>1, <3>1 DEF Over
  <2>3. config' \in [Keys -> 0 .. Len(Calls)]
    BY <1>7, <1>8, <2>2
  <2>4. ASSUME c \notin misled PROVE config' = [k \in Keys |-> IF k \in Range(kv) THEN c ELSE config[k]]
    <3>1. staged = [k \in Range(kv) |-> c]
      BY <1>5, <2>1, <2>4
    <3>2. K = Range(kv) /\ \A k \in K : staged[k] = c
      BY <1>9, <3>1
    <3> QED BY <2>2, <3>2
  <2>5. c \notin misled => \A k \in Range(kv) : config'[k] = c
    BY <1>16, <2>4
  <2> QED BY <1>2, <1>4, <1>12, <1>15, <2>1, <2>3, <2>4, <2>5 DEF kv
<1> QED BY <1>14, <1>17, <1>18, <1>19, <1>20

(* Nothing is sent behind the message that the host waits for              *)
LEMMA LastOnLink ==
    ASSUME IInv, pc = "wait", NEW n \in 1 .. Len(answers), answers[n].call = call, answers[n].ix = ix
    PROVE  requests = <<>> /\ n = Len(answers)
<1>1. /\ \A x \in Requests : x.call \in 1 .. Len(Calls) /\ x.ix \in Nat
      /\ \A x \in Acks : x.call \in 1 .. Len(Calls) /\ x.ix \in Nat
  BY DEF Requests, Acks
<1>2. /\ requests \in Seq(Requests) /\ answers \in Seq(Acks)
      /\ \A j \in 1 .. Len(requests) : requests[j] \in Requests
      /\ \A j \in 1 .. Len(answers) : answers[j] \in Acks
      /\ Len(Calls) \in Nat /\ Len(requests) \in Nat /\ Len(answers) \in Nat
      /\ call \in Nat /\ ix \in Nat
  <2>1. TypeOK
    BY DEF IInv
  <2>2. Len(Calls) \in Nat
    BY <2>1, TypesAre
  <2>3. call \in Nat /\ ix \in Nat
    BY <2>1, <2>2, SetConfigAssumption DEF TypeOK
  <2> QED BY <2>1, <2>3, TypesAre
<1>3. \A x : x.call \in Nat /\ x.ix \in Nat /\ Before(answers[n], x) => ~Sent(x, pc, Current)
  BY <1>2 DEF Before, Sent, Current
<1>4. ASSUME NEW j \in 1 .. Len(requests) PROVE FALSE
  <2>1. Before(answers[n], requests[j]) /\ Sent(requests[j], pc, Current)
    BY DEF IInv, LinkInOrder, LinkSent
  <2>2. requests[j].call \in Nat /\ requests[j].ix \in Nat
    <3>1. requests[j].call \in 1 .. Len(Calls) /\ requests[j].ix \in Nat
      BY <1>1, <1>2
    <3> QED BY <1>2, <3>1
  <2> QED BY <1>3, <2>1, <2>2
<1>5. ASSUME n # Len(answers) PROVE FALSE
  <2> DEFINE m == Len(answers)
  <2>1. m \in 1 .. Len(answers) /\ n < m
    BY <1>2, <1>5
  <2>2. Before(answers[n], answers[m]) /\ Sent(answers[m], pc, Current)
    BY <2>1 DEF IInv, LinkInOrder, InOrder, LinkSent
  <2>3. answers[m].call \in Nat /\ answers[m].ix \in Nat
    <3>1. answers[m].call \in 1 .. Len(Calls) /\ answers[m].ix \in Nat
      BY <1>1, <1>2, <2>1
    <3> QED BY <1>2, <3>1
  <2> QED BY <1>3, <2>2, <2>3
<1>6. Len(requests) = 0
  BY <1>2, <1>4
<1>7. requests = <<>>
  BY <1>2, <1>6
<1> QED BY <1>5, <1>7

LEMMA ApplyInv == ASSUME IInv, Apply PROVE IInv'
<1> DEFINE q == Head(requests)
<1>1. PICK c, i : c = q.call /\ i = q.ix
  OBVIOUS
<1>2. /\ c \in 1 .. Len(Calls)
      /\ config' \in [Keys -> 0 .. Len(Calls)]
      /\ \E K \in SUBSET Keys : staged' \in [K -> 1 .. Len(Calls)]
      /\ c \notin misled => Done(c, i)'
      /\ \/ config' = config
         \/ c \notin misled =>
               config' = [k \in Keys |-> IF k \in Range(Calls[c]) THEN c ELSE config[k]]
  BY <1>1, ApplyEffect
<1>3. /\ requests # <<>> /\ requests' = Tail(requests) /\ UNCHANGED host
      /\ \E ack \in BOOLEAN : Answer(q, ack)
  BY DEF Apply
<1>4. /\ requests' \in Seq(Requests) /\ answers' \in Seq(Acks)
      /\ LinkInOrder' /\ LinkSent' /\ \A j \in 1 .. Len(requests') : IsMessage(requests'[j])
      /\ \A j \in 1 .. Len(requests') : requests'[j].ix > 1 => requests'[j].call \in misled'
      /\ \A j \in 1 .. Len(requests') : requests'[j].call >= q.call
  BY <1>3, TakeRequest
<1>5. pc' = pc /\ call' = call /\ ix' = ix /\ misled' = misled /\ results' = results
  BY <1>3 DEF host
<1>6. /\ requests \in Seq(Requests) /\ answers \in Seq(Acks) /\ q \in Requests /\ q = requests[1]
      /\ 1 \in 1 .. Len(requests)
      /\ \A j \in 1 .. Len(requests') : j + 1 \in 1 .. Len(requests) /\ requests'[j] = requests[j + 1]
      /\ Len(Calls) \in Nat
  BY <1>3, TypesAre, TailIs DEF IInv
<1>7. TypeOK'
  BY <1>2, <1>4, <1>5 DEF IInv, TypeOK, Requests, Acks
<1>8. Working'
  BY <1>5 DEF IInv, Working, Msgs
<1>9. InTurn'
  BY <1>4 DEF InTurn
<1>10. Known'
  <2> SUFFICES ASSUME call \notin misled PROVE Known'
    BY <1>5 DEF Known
  <2>1. ASSUME pc = "wait", NEW n \in 1 .. Len(answers'), answers'[n].call = call, answers'[n].ix = ix
        PROVE  Done(call, ix)'
    <3> DEFINE l == Len(answers)
    <3>1. PICK a \in Acks : answers' = Append(answers, a) /\ a.call = q.call /\ a.ix = q.ix
      <4>1. PICK ack \in BOOLEAN : Answer(q, ack)
        BY <1>3
      <4>2. [ack |-> ack, call |-> q.call, ix |-> q.ix] \in Acks
        BY <1>6 DEF Acks, Requests
      <4> QED BY <4>1, <4>2 DEF Answer
    <3>2. /\ l \in Nat /\ Len(answers') = l + 1 /\ answers'[l + 1] = a
          /\ \A k \in 1 .. l : answers'[k] = answers[k]
      BY <1>6, <3>1, AppendIs
    <3>3. CASE n = l + 1
      <4>1. c = call /\ i = ix
        BY <1>1, <2>1, <3>1, <3>2, <3>3
      <4> QED BY <1>2, <1>5, <4>1 DEF Done, Staged, Set
    <3>4. CASE n \in 1 .. l
      <4>1. answers[n].call = call /\ answers[n].ix = ix
        BY <2>1, <3>2, <3>4
      <4> QED BY <1>3, <2>1, <3>4, <4>1, LastOnLink
    <3> QED BY <2>1, <3>2, <3>3, <3>4
  <2>2. pc = "send" => ix <= 1
    BY <1>3 DEF IInv, Known, TypeOK
  <2>3. pc = "idle" => ~(call > 0 /\ results[call] /\ Calls[call] # <<>>)
    BY <1>3 DEF IInv, Known
  <2> QED BY <1>5, <2>1, <2>2, <2>3 DEF IInv, TypeOK, Known
<1>11. ASSUME misled = {}
       PROVE  /\ \A k \in Keys : config[k] <= c /\ config[k] \in Nat
              /\ \A k \in Keys : config'[k] \in {config[k], c}
              /\ \A k \in Keys : config'[k] # config[k] => \A o \in Range(Calls[c]) : config'[o] = c
  <2>1. \A k \in Keys : config[k] <= c /\ config[k] \in Nat
    BY <1>1, <1>6, <1>11 DEF IInv, TypeOK, InCallOrder
  <2>2. Range(Calls[c]) \subseteq Keys
    BY <1>2, TypesAre DEF IInv, Range
  <2> QED BY <1>2, <1>11, <2>1, <2>2
<1>12. InCallOrder'
  <2> SUFFICES ASSUME misled = {}, NEW k \in Keys
               PROVE  /\ config'[k] <= call
                      /\ \A j \in 1 .. Len(requests') : config'[k] <= requests'[j].call
    BY <1>5 DEF InCallOrder
  <2>1. c <= call
    <3>1. Sent(q, pc, Current)
      BY <1>6 DEF IInv, LinkSent
    <3>2. call \in Nat
      BY <1>6 DEF IInv, TypeOK
    <3> QED BY <1>1, <1>2, <3>1, <3>2 DEF Before, Sent, Current
  <2>2. config[k] <= call /\ \A j \in 1 .. Len(requests') : config[k] <= requests'[j].call
    BY <1>6 DEF IInv, InCallOrder
  <2>3. \A j \in 1 .. Len(requests') : c <= requests'[j].call
    BY <1>1, <1>2, <1>4, <1>6
  <2> QED BY <1>11, <2>1, <2>2, <2>3
<1>13. AllOrNothing'
  <2> SUFFICES ASSUME misled = {}, NEW k \in Keys, config'[k] # 0, NEW o \in Range(Calls[config'[k]])
               PROVE  config'[o] >= config'[k]
    BY <1>5 DEF AllOrNothing
  <2>1. CASE config'[k] # config[k]
    BY <1>2, <1>11, <2>1
  <2>2. CASE config'[k] = config[k]
    <3>1. config[k] \in 1 .. Len(Calls)
      BY <2>2 DEF IInv, TypeOK
    <3>2. o \in Keys
      <4>1. Calls[config[k]] \in Seq(Keys)
        BY <3>1, TypesAre DEF IInv
      <4> QED BY <2>2, <4>1 DEF Range
    <3>3. config[o] >= config[k] /\ config[o] \in Nat /\ config[k] <= c
      BY <2>2, <1>11, <3>2 DEF IInv, AllOrNothing
    <3> QED BY <1>2, <1>11, <2>2, <3>1, <3>2, <3>3
  <2> QED BY <2>1, <2>2
<1> QED BY <1>4, <1>7, <1>8, <1>9, <1>10, <1>12, <1>13 DEF IInv, IsMessage

(* A message that is rejected, or lost                                     *)
LEMMA RejectInv == ASSUME IInv, Reject \/ LoseRequest PROVE IInv'
<1> DEFINE q == Head(requests)
           l == Len(answers)
<1>1. /\ requests # <<>> /\ requests' = Tail(requests) /\ UNCHANGED host /\ config' = config
      /\ staged' \in {staged, NoTransaction}
      /\ answers' = answers \/ \E ack \in BOOLEAN : Answer(q, ack)
      /\ answers' = answers \/ Answer(q, FALSE)
  BY DEF Reject, LoseRequest, receiver
<1>2. /\ requests' \in Seq(Requests) /\ answers' \in Seq(Acks)
      /\ LinkInOrder' /\ LinkSent' /\ \A j \in 1 .. Len(requests') : IsMessage(requests'[j])
      /\ \A j \in 1 .. Len(requests') : requests'[j].ix > 1 => requests'[j].call \in misled'
      /\ \A j \in 1 .. Len(requests') : requests'[j].call >= q.call
  BY <1>1, TakeRequest
<1>3. pc' = pc /\ call' = call /\ ix' = ix /\ misled' = misled /\ results' = results
  BY <1>1 DEF host
<1>4. /\ requests \in Seq(Requests) /\ answers \in Seq(Acks) /\ q \in Requests
      /\ \A j \in 1 .. Len(requests') : j + 1 \in 1 .. Len(requests) /\ requests'[j] = requests[j + 1]
  BY <1>1, TypesAre, TailIs DEF IInv
<1>5. \E K \in SUBSET Keys : staged' \in [K -> 1 .. Len(Calls)]
  <2>1. NoTransaction \in [{} -> 1 .. Len(Calls)] /\ {} \in SUBSET Keys
    BY DEF NoTransaction
  <2>2. \E K \in SUBSET Keys : staged \in [K -> 1 .. Len(Calls)]
    BY DEF IInv, TypeOK
  <2> QED BY <1>1, <2>1, <2>2
<1>6. TypeOK'
  BY <1>1, <1>2, <1>3, <1>5 DEF IInv, TypeOK, Requests, Acks
<1>7. Working' /\ InTurn'
  BY <1>2, <1>3 DEF IInv, Working, Msgs, InTurn
<1>8. ASSUME pc = "wait", NEW n \in 1 .. Len(answers'), answers'[n].call = call, answers'[n].ix = ix
      PROVE  ~answers'[n].ack
  <2>1. ASSUME NEW m \in 1 .. l, answers[m].call = call, answers[m].ix = ix PROVE FALSE
    BY <1>1, <1>8, <2>1, LastOnLink
  <2>2. CASE answers' = answers
    BY <1>8, <2>1, <2>2
  <2>3. CASE Answer(q, FALSE)
    <3> DEFINE a == [ack |-> FALSE, call |-> q.call, ix |-> q.ix]
    <3>1. a \in Acks /\ answers' = Append(answers, a) /\ ~a.ack
      BY <1>4, <2>3 DEF Answer, Acks, Requests
    <3> HIDE DEF a
    <3>2. /\ l \in Nat /\ Len(answers') = l + 1 /\ answers'[l + 1] = a
          /\ \A k \in 1 .. l : answers'[k] = answers[k]
      BY <1>4, <3>1, AppendIs
    <3>3. CASE n \in 1 .. l
      BY <1>8, <2>1, <3>2, <3>3
    <3>4. CASE n = l + 1
      BY <3>1, <3>2, <3>4
    <3> QED BY <1>8, <3>2, <3>3, <3>4
  <2> QED BY <1>1, <2>2, <2>3
<1>9. Known'
  <2>1. call \notin misled /\ pc = "send" => ix <= 1
    BY <1>1 DEF IInv, Known, TypeOK
  <2>2. call \notin misled /\ pc = "idle" => ~(call > 0 /\ results[call] /\ Calls[call] # <<>>)
    BY <1>1 DEF IInv, Known
  <2> QED BY <1>3, <1>8, <2>1, <2>2 DEF IInv, TypeOK, Known
<1>10. InCallOrder' /\ AllOrNothing'
  BY <1>1, <1>3, <1>4 DEF IInv, InCallOrder, AllOrNothing
<1> QED BY <1>2, <1>6, <1>7, <1>9, <1>10 DEF IInv, IsMessage

(* An answer that is lost, or dropped by the caller                        *)
LEMMA LoseAnswerInv == ASSUME IInv, LoseAnswer \/ Pump PROVE IInv'
<1>1. /\ answers # <<>> /\ answers' = Tail(answers) /\ requests' = requests
      /\ UNCHANGED <<host, receiver>>
  BY DEF LoseAnswer, Pump
<1>2. /\ answers' \in Seq(Acks) /\ LinkInOrder'
      /\ \A i \in 1 .. Len(answers') : i + 1 \in 1 .. Len(answers) /\ i + 1 > 1
                                        /\ answers'[i] = answers[i + 1]
  BY <1>1, TakeAnswer
<1>3. /\ pc' = pc /\ call' = call /\ ix' = ix /\ misled' = misled /\ results' = results
      /\ config' = config /\ staged' = staged
  BY <1>1 DEF host, receiver
<1>4. TypeOK'
  BY <1>1, <1>2, <1>3 DEF IInv, TypeOK, Acks
<1>5. LinkSent'
  BY <1>1, <1>2, <1>3 DEF IInv, LinkSent, Current
<1>6. Working' /\ InTurn' /\ InCallOrder' /\ AllOrNothing'
  BY <1>1, <1>3 DEF IInv, Working, Msgs, InTurn, Staged, InCallOrder, AllOrNothing
<1>7. Known'
  BY <1>1, <1>2, <1>3 DEF IInv, Known, Staged, Done, Set
<1>8. (\A j \in 1 .. Len(requests) : IsMessage(requests[j]))'
  BY <1>1 DEF IInv, IsMessage
<1> QED BY <1>2, <1>4, <1>5, <1>6, <1>7, <1>8 DEF IInv

LEMMA InitInv == ASSUME Init PROVE IInv
<1>1. Len(Calls) \in Nat /\ UBX_CFG_VALSET_MSG_MAX \in Nat
  <2>1. Calls \in Seq(Seq(Keys))
    BY SetConfigAssumption
  <2> QED BY <2>1, SetConfigAssumption
<1>2. /\ requests = <<>> /\ answers = <<>> /\ results = <<>> /\ misled = {} /\ pc = "idle"
      /\ call = 0 /\ ix = 0 /\ config = [k \in Keys |-> 0]
  BY DEF Init
<1>3. TypeOK
  <2>1. NoTransaction \in [{} -> 1 .. Len(Calls)] /\ {} \in SUBSET Keys /\ staged = NoTransaction
    BY DEF NoTransaction, Init
  <2>2. requests \in Seq(Requests) /\ answers \in Seq(Acks) /\ results \in Seq(BOOLEAN)
    BY <1>2
  <2>3. \E K \in SUBSET Keys : staged \in [K -> 1 .. Len(Calls)]
    BY <2>1
  <2>4. config \in [Keys -> 0 .. Len(Calls)] /\ call \in 0 .. Len(Calls)
        /\ ix \in 0 .. UBX_CFG_VALSET_MSG_MAX
    BY <1>1, <1>2
  <2> QED BY <1>2, <2>2, <2>3, <2>4 DEF TypeOK, Requests, Acks
<1>4. LinkInOrder /\ LinkSent /\ Working /\ InTurn /\ (\A j \in 1 .. Len(requests) : IsMessage(requests[j]))
  BY <1>2 DEF LinkInOrder, InOrder, LinkSent, Working, InTurn
<1>5. Known /\ InCallOrder /\ AllOrNothing
  BY <1>2 DEF Known, InCallOrder, AllOrNothing
<1> QED BY <1>3, <1>4, <1>5 DEF IInv

(* The host: the receiver and the requests are as they were                *)
LEMMA HostKeeps ==
    ASSUME IInv, UNCHANGED <<receiver, requests>>, misled \subseteq misled', call <= call',
           call' \in Nat
    PROVE  /\ InTurn' /\ InCallOrder' /\ AllOrNothing' /\ (\A j \in 1 .. Len(requests) : IsMessage(requests[j]))'
           /\ config' \in [Keys -> 0 .. Len(Calls)]
           /\ \E K \in SUBSET Keys : staged' \in [K -> 1 .. Len(Calls)]
<1>1. requests' = requests /\ config' = config /\ staged' = staged
  BY DEF receiver
<1>2. InTurn'
  BY <1>1 DEF IInv, InTurn, Staged
<1>3. InCallOrder'
  <2> SUFFICES ASSUME misled = {} PROVE InCallOrder'
    BY DEF InCallOrder
  <2>1. call \in Nat /\ Len(Calls) \in Nat
    BY TypesAre DEF IInv, TypeOK
  <2>2. \A k \in Keys : config[k] \in Nat /\ config[k] <= call
    BY <2>1 DEF IInv, TypeOK, InCallOrder
  <2>3. \A k \in Keys : config[k] <= call'
    BY <2>1, <2>2
  <2> QED BY <1>1, <2>3 DEF IInv, InCallOrder
<1>4. AllOrNothing'
  BY <1>1 DEF IInv, AllOrNothing
<1>5. (\A j \in 1 .. Len(requests) : IsMessage(requests[j]))'
  BY <1>1 DEF IInv, IsMessage
<1> QED BY <1>1, <1>2, <1>3, <1>4, <1>5 DEF IInv, TypeOK

LEMMA BeginInv == ASSUME IInv, Begin PROVE IInv'
<1> DEFINE kv == Calls[call']
           n == NumMsgs(Len(kv))
<1>1. /\ pc = "idle" /\ call' = call + 1 /\ call < Len(Calls) /\ ix' = 1
      /\ requests' = requests /\ answers' = answers /\ misled' = misled /\ UNCHANGED receiver
      /\ \/ (TooMany(kv) \/ kv = <<>>) /\ pc' = "idle" /\ results' = Append(results, ~TooMany(kv))
         \/ ~TooMany(kv) /\ kv # <<>> /\ pc' = "send" /\ results' = results
  BY DEF Begin, Return
<1>2. call' \in 1 .. Len(Calls) /\ call \in Nat /\ call <= call' /\ call' \in Nat
  BY <1>1, TypesAre DEF IInv, TypeOK
<1>3. kv \in Seq(Keys) /\ Len(kv) \in Nat /\ (kv # <<>> => Len(kv) > 0)
  <2>1. kv \in Seq(Keys)
    BY <1>2, TypesAre DEF IInv
  <2> QED BY <2>1
<1>4. /\ InTurn' /\ InCallOrder' /\ AllOrNothing' /\ (\A j \in 1 .. Len(requests) : IsMessage(requests[j]))'
      /\ config' \in [Keys -> 0 .. Len(Calls)]
      /\ \E K \in SUBSET Keys : staged' \in [K -> 1 .. Len(Calls)]
  BY <1>1, <1>2, HostKeeps
<1>5. /\ n \in Nat /\ (Len(kv) > 0 => n > 0)
      /\ Len(Valset(kv)) = IF n > 1 THEN n + 1 ELSE n
  BY <1>3, ValsetIs
<1>6. LinkInOrder'
  BY <1>1 DEF IInv, LinkInOrder
<1>7. LinkSent'
  <2>1. /\ \A j \in 1 .. Len(requests) : requests[j].call <= call /\ requests[j].call \in Nat
        /\ \A j \in 1 .. Len(answers) : answers[j].call <= call /\ answers[j].call \in Nat
    <3>1. /\ \A j \in 1 .. Len(requests) : Sent(requests[j], pc, Current)
          /\ \A j \in 1 .. Len(answers) : Sent(answers[j], pc, Current)
      BY DEF IInv, LinkSent
    <3>2. /\ \A x \in Requests : x.call \in 1 .. Len(Calls)
          /\ \A x \in Acks : x.call \in 1 .. Len(Calls)
      BY DEF Requests, Acks
    <3>3. /\ \A j \in 1 .. Len(requests) : requests[j] \in Requests
          /\ \A j \in 1 .. Len(answers) : answers[j] \in Acks
          /\ Len(Calls) \in Nat
      BY TypesAre DEF IInv
    <3>4. \A m \in 1 .. Len(Calls) : m \in Nat
      BY <3>3
    <3> QED BY <1>1, <3>1, <3>2, <3>3, <3>4 DEF Sent, Current
  <2>2. \A x : x.call \in Nat /\ x.call <= call =>
            Before(x, Current') /\ x.call <= call'
    BY <1>1, <1>2 DEF Before, Current
  <2>3. Current'.call = call'
    BY DEF Current
  <2>4. \A x : x.call \in Nat /\ x.call <= call => Sent(x, pc', Current')
    BY <1>1, <2>2, <2>3 DEF Sent
  <2> QED BY <1>1, <2>1, <2>4 DEF LinkSent
<1>8. results' \in Seq(BOOLEAN)
      /\ (pc' = "idle" => Len(results') = call' /\ (results'[call'] => kv = <<>>))
      /\ (pc' = "send" => Len(results') = call' - 1)
  <2>1. results \in Seq(BOOLEAN) /\ Len(results) = call
    BY <1>1 DEF IInv, TypeOK, Working
  <2>2. CASE pc' = "idle"
    <3> DEFINE b == ~TooMany(kv)
    <3>1. results' = Append(results, b) /\ (TooMany(kv) \/ kv = <<>>)
      BY <1>1, <2>2
    <3>2. b \in BOOLEAN /\ (b => kv = <<>>)
      BY <3>1
    <3> HIDE DEF b
    <3>3. results' \in Seq(BOOLEAN) /\ Len(results') = call + 1 /\ results'[call + 1] = b
      BY <2>1, <3>1, <3>2
    <3> QED BY <1>1, <2>2, <3>2, <3>3
  <2>3. CASE pc' = "send"
    BY <1>1, <1>2, <2>1, <2>3
  <2> QED BY <1>1, <2>2, <2>3
<1>9. pc' = "send" => 1 \in 1 .. Len(Valset(kv)) /\ UBX_CFG_VALSET_MSG_MAX >= 1
  <2>1. pc' = "send" => n > 0 /\ ~(n > UBX_CFG_VALSET_MSG_MAX - 1)
    BY <1>1, <1>3, <1>5 DEF TooMany
  <2> QED BY <1>5, <2>1, SetConfigAssumption
<1>10. Working'
  BY <1>1, <1>2, <1>8, <1>9 DEF Working, Msgs
<1>11. TypeOK'
  <2>1. ix' \in 0 .. UBX_CFG_VALSET_MSG_MAX
    BY <1>1, SetConfigAssumption
  <2>2. call' \in 0 .. Len(Calls)
    BY <1>2, TypesAre DEF IInv
  <2> QED BY <1>1, <1>4, <1>8, <2>1, <2>2 DEF IInv, TypeOK
<1>12. Known'
  BY <1>1, <1>8 DEF Known
<1> QED BY <1>4, <1>6, <1>7, <1>10, <1>11, <1>12 DEF IInv

(* The call of the host that is not done                                   *)
LEMMA Busy ==
    ASSUME IInv, pc \in {"send", "wait"}
    PROVE  /\ call \in 1 .. Len(Calls) /\ call \in Nat \ {0} /\ Calls[call] \in Seq(Keys)
           /\ Len(results) = call - 1 /\ results \in Seq(BOOLEAN)
           /\ ix \in 1 .. Len(Msgs) /\ ix \in Nat \ {0} /\ Len(Msgs) \in Nat
           /\ Len(Msgs) <= UBX_CFG_VALSET_MSG_MAX
           /\ ~TooMany(Calls[call]) /\ Calls[call] # <<>>
<1>1. /\ call \in 1 .. Len(Calls) /\ Len(results) = call - 1 /\ results \in Seq(BOOLEAN)
      /\ ix \in 1 .. Len(Msgs) /\ ~TooMany(Calls[call]) /\ Calls[call] # <<>>
  BY DEF IInv, Working, TypeOK
<1>2. Calls[call] \in Seq(Keys) /\ call \in Nat \ {0}
  BY <1>1, TypesAre DEF IInv
<1> DEFINE kv == Calls[call]
           n == NumMsgs(Len(kv))
<1>3. n \in Nat /\ Len(Valset(kv)) = IF n > 1 THEN n + 1 ELSE n
  <2> HIDE DEF kv
  <2> QED BY <1>2, ValsetIs DEF kv
<1>4. ~(n > UBX_CFG_VALSET_MSG_MAX - 1) /\ Len(Msgs) = Len(Valset(kv))
  BY <1>1 DEF TooMany, Msgs
<1> HIDE DEF n, kv
<1>5. Len(Msgs) \in Nat /\ Len(Msgs) <= UBX_CFG_VALSET_MSG_MAX
  BY <1>3, <1>4, SetConfigAssumption
<1> QED BY <1>1, <1>2, <1>5

(* What is sent is sent also when the host is further on                   *)
LEMMA LinkStillSent ==
    ASSUME IInv, pc \in {"send", "wait"}, call' = call,
           \/ pc' = "idle"
           \/ pc = "send" /\ pc' = "wait" /\ ix' = ix
           \/ pc = "wait" /\ pc' = "send" /\ ix' = ix + 1
    PROVE  /\ \A i \in 1 .. Len(requests) : Sent(requests[i], pc', Current')
           /\ \A i \in 1 .. Len(answers) : Sent(answers[i], pc', Current')
<1>1. ix \in Nat /\ call \in Nat
  BY Busy
<1>2. /\ \A j \in 1 .. Len(requests) : requests[j].call \in Nat /\ requests[j].ix \in Nat
      /\ \A j \in 1 .. Len(answers) : answers[j].call \in Nat /\ answers[j].ix \in Nat
  <2>1. /\ \A x \in Requests : x.call \in 1 .. Len(Calls) /\ x.ix \in Nat
        /\ \A x \in Acks : x.call \in 1 .. Len(Calls) /\ x.ix \in Nat
    BY DEF Requests, Acks
  <2>2. /\ \A j \in 1 .. Len(requests) : requests[j] \in Requests
        /\ \A j \in 1 .. Len(answers) : answers[j] \in Acks
        /\ \A m \in 1 .. Len(Calls) : m \in Nat
    BY TypesAre DEF IInv
  <2> QED BY <2>1, <2>2
<1>3. Current'.call = call /\ Current'.ix = ix' /\ Current.call = call /\ Current.ix = ix
  BY DEF Current
<1>4. ASSUME NEW x, x.call \in Nat, x.ix \in Nat, Sent(x, pc, Current) PROVE Sent(x, pc', Current')
  <2>1. CASE pc' = "idle"
    BY <1>1, <1>3, <1>4, <2>1 DEF Sent, Before
  <2>2. CASE pc = "send" /\ pc' = "wait" /\ ix' = ix
    BY <1>1, <1>3, <1>4, <2>2 DEF Sent, Before
  <2>3. CASE pc = "wait" /\ pc' = "send" /\ ix' = ix + 1
    BY <1>1, <1>3, <1>4, <2>3 DEF Sent, Before
  <2> QED BY <2>1, <2>2, <2>3
<1> QED BY <1>2, <1>4 DEF IInv, LinkSent

(* rxSetConfig() returns false                                             *)
LEMMA FailInv ==
    ASSUME IInv, pc \in {"send", "wait"}, Return(FALSE),
           UNCHANGED <<receiver, call, ix, requests, answers, misled>>
    PROVE  IInv'
<1>1. /\ call \in Nat \ {0} /\ Len(results) = call - 1 /\ results \in Seq(BOOLEAN)
  BY Busy
<1>2. pc' = "idle" /\ results' = Append(results, FALSE)
  BY DEF Return
<1>3. call' = call /\ ix' = ix /\ requests' = requests /\ answers' = answers /\ misled' = misled
  OBVIOUS
<1>4. /\ InTurn' /\ InCallOrder' /\ AllOrNothing' /\ (\A j \in 1 .. Len(requests) : IsMessage(requests[j]))'
      /\ config' \in [Keys -> 0 .. Len(Calls)]
      /\ \E K \in SUBSET Keys : staged' \in [K -> 1 .. Len(Calls)]
  BY <1>1, <1>3, HostKeeps
<1>5. results' \in Seq(BOOLEAN) /\ Len(results') = call' /\ ~results'[call']
  BY <1>1, <1>2, <1>3
<1>6. LinkInOrder'
  BY <1>3 DEF IInv, LinkInOrder
<1>7. LinkSent'
  BY <1>2, <1>3, LinkStillSent DEF LinkSent
<1>8. Working' /\ Known'
  BY <1>2, <1>5 DEF Working, Known
<1>9. TypeOK'
  BY <1>2, <1>3, <1>4, <1>5 DEF IInv, TypeOK
<1> QED BY <1>4, <1>6, <1>7, <1>8, <1>9 DEF IInv

LEMMA TimeoutInv == ASSUME IInv, Timeout PROVE IInv'
BY FailInv DEF Timeout

LEMMA SendInv == ASSUME IInv, Send PROVE IInv'
<1> DEFINE q == [kv |-> Msgs[ix].kv, call |-> call, ix |-> ix, transaction |-> Msgs[ix].transaction]
<1>1. pc = "send" /\ call' = call /\ ix' = ix /\ answers' = answers /\ misled' = misled
      /\ UNCHANGED receiver
  BY DEF Send
<1>2. \/ requests' = Append(requests, q) /\ pc' = "wait" /\ results' = results
      \/ Return(FALSE) /\ requests' = requests
  BY DEF Send
<1>3. ASSUME Return(FALSE), requests' = requests PROVE IInv'
  BY <1>1, <1>3, FailInv
<1>4. ASSUME requests' = Append(requests, q), pc' = "wait", results' = results PROVE IInv'
  <2> DEFINE n == Len(requests)
  <2>1. /\ call \in 1 .. Len(Calls) /\ call \in Nat \ {0} /\ Calls[call] \in Seq(Keys)
        /\ ix \in 1 .. Len(Msgs) /\ ix \in Nat \ {0}
    BY <1>1, Busy
  <2>2. Msgs[ix].kv \in Seq(Keys) /\ Msgs[ix].transaction \in {"NONE", "BEGIN", "CONTINUE", "END"}
    BY <2>1, MessageIs DEF Msgs, Begins, Continues, Ends
  <2>3. q \in Requests
    BY <2>1, <2>2 DEF Requests
  <2>4. /\ q.call = call /\ q.ix = ix
        /\ q.kv = Valset(Calls[q.call])[q.ix].kv
        /\ q.transaction = Valset(Calls[q.call])[q.ix].transaction
        /\ q.ix \in 1 .. Len(Valset(Calls[q.call]))
    BY <2>1 DEF Msgs
  <2> HIDE DEF q
  <2>5. /\ requests \in Seq(Requests) /\ answers \in Seq(Acks) /\ Len(Calls) \in Nat
    BY TypesAre DEF IInv
  <2>6. /\ requests' \in Seq(Requests) /\ n \in Nat /\ Len(requests') = n + 1 /\ requests'[n + 1] = q
        /\ \A i \in 1 .. n : requests'[i] = requests[i]
    BY <1>4, <2>3, <2>5, AppendIs
  <2>7. \A j \in 1 .. n + 1 : j \in 1 .. n \/ j = n + 1
    BY <2>6
  <2>8. \A x : Sent(x, pc, Current) => Before(x, q)
    BY <1>1, <2>4 DEF Sent, Current, Before
  <2>9. LinkInOrder'
    <3>1. /\ \A i \in 1 .. Len(answers) : Before(answers[i], q)
          /\ \A i \in 1 .. Len(requests) : Before(requests[i], q)
      BY <2>8 DEF IInv, LinkSent
    <3>2. InOrder(requests')
      BY <1>4, <2>3, <2>5, <3>1, InOrderAppend DEF IInv, LinkInOrder
    <3>3. \A i \in 1 .. Len(answers), j \in 1 .. n + 1 : Before(answers[i], requests'[j])
      BY <2>6, <2>7, <3>1 DEF IInv, LinkInOrder
    <3>4. InOrder(answers)
      BY DEF IInv, LinkInOrder
    <3> QED BY <1>1, <2>6, <3>2, <3>3, <3>4 DEF LinkInOrder
  <2>10. LinkSent'
    <3>1. /\ \A i \in 1 .. Len(requests) : Sent(requests[i], pc', Current')
          /\ \A i \in 1 .. Len(answers) : Sent(answers[i], pc', Current')
      BY <1>1, <1>4, LinkStillSent
    <3>2. Sent(q, pc', Current')
      BY <1>1, <1>4, <2>4 DEF Sent, Current
    <3> QED BY <1>1, <2>6, <2>7, <3>1, <3>2 DEF LinkSent
  <2>11. \A j \in 1 .. Len(requests') : IsMessage(requests'[j])
    <3>1. IsMessage(q)
      BY <2>4 DEF IsMessage
    <3> QED BY <2>6, <2>7, <3>1 DEF IInv
  <2>12. Working'
    BY <1>1, <1>4 DEF IInv, Working, Msgs
  <2>13. InTurn'
    <3> SUFFICES ASSUME NEW j \in 1 .. n + 1, requests'[j].ix > 1, requests'[j].call \notin misled
                 PROVE  j = 1 /\ Staged(requests'[j].call, requests'[j].ix - 1)
      BY <1>1, <2>6 DEF InTurn, Staged, receiver
    <3>1. CASE j \in 1 .. n
      BY <2>6, <3>1 DEF IInv, InTurn
    <3>2. CASE j = n + 1
      <4>1. requests = <<>> /\ Staged(call, ix - 1)
        BY <1>1, <2>4, <2>6, <3>2 DEF IInv, Known
      <4> QED BY <2>4, <2>6, <3>2, <4>1
    <3> QED BY <2>7, <3>1, <3>2
  <2>14. Known'
    <3>1. ASSUME NEW i \in 1 .. Len(answers), answers[i].call = call, answers[i].ix = ix PROVE FALSE
      <4>1. Before(answers[i], q)
        BY <2>8 DEF IInv, LinkSent
      <4> QED BY <2>1, <2>4, <3>1, <4>1 DEF Before
    <3> QED BY <1>1, <1>4, <3>1 DEF Known
  <2>15. InCallOrder'
    <3>1. misled = {} => \A k \in Keys : config[k] <= call
      BY DEF IInv, InCallOrder
    <3>2. config' = config
      BY <1>1 DEF receiver
    <3> QED BY <1>1, <2>4, <2>6, <2>7, <3>1, <3>2 DEF IInv, InCallOrder
  <2>16. AllOrNothing'
    BY <1>1 DEF IInv, AllOrNothing, receiver
  <2>17. TypeOK'
    BY <1>1, <1>4, <2>6 DEF IInv, TypeOK, Requests, Acks, receiver
  <2> QED BY <2>9, <2>10, <2>11, <2>12, <2>13, <2>14, <2>15, <2>16, <2>17 DEF IInv, IsMessage
<1> QED BY <1>2, <1>3, <1>4

(* An answer; one to another message misleads the call                     *)
LEMMA RecvInv == ASSUME IInv, Recv PROVE IInv'
<1> DEFINE a == Head(answers)
           own == a.call = call /\ a.ix = ix
           ok == a.ack
<1>1. /\ pc = "wait" /\ answers # <<>> /\ answers' = Tail(answers) /\ call' = call
      /\ requests' = requests /\ UNCHANGED receiver
      /\ misled' = IF own THEN misled ELSE misled \cup {call}
      /\ \/ ok /\ ix < Len(Msgs) /\ pc' = "send" /\ ix' = ix + 1 /\ results' = results
         \/ ~(ok /\ ix < Len(Msgs)) /\ pc' = "idle" /\ results' = Append(results, ok) /\ ix' = ix
  BY DEF Recv, Return
<1>2. /\ call \in 1 .. Len(Calls) /\ call \in Nat \ {0}
      /\ Len(results) = call - 1 /\ results \in Seq(BOOLEAN)
      /\ ix \in 1 .. Len(Msgs) /\ ix \in Nat \ {0} /\ Len(Msgs) \in Nat
      /\ Len(Msgs) <= UBX_CFG_VALSET_MSG_MAX
      /\ ~TooMany(Calls[call]) /\ Calls[call] # <<>>
  BY <1>1, Busy
<1>3. /\ answers' \in Seq(Acks) /\ LinkInOrder'
      /\ \A i \in 1 .. Len(answers') : i + 1 \in 1 .. Len(answers) /\ i + 1 > 1
                                        /\ answers'[i] = answers[i + 1]
      /\ a \in Acks /\ a = answers[1] /\ 1 \in 1 .. Len(answers)
  BY <1>1, TakeAnswer
<1>4. misled \subseteq misled' /\ misled' \subseteq 1 .. Len(Calls) /\ (call \notin misled' => own)
  BY <1>1, <1>2 DEF IInv, TypeOK
<1>5. /\ InTurn' /\ InCallOrder' /\ AllOrNothing' /\ (\A j \in 1 .. Len(requests) : IsMessage(requests[j]))'
      /\ config' \in [Keys -> 0 .. Len(Calls)]
      /\ \E K \in SUBSET Keys : staged' \in [K -> 1 .. Len(Calls)]
  <2>1. UNCHANGED <<receiver, requests>> /\ misled \subseteq misled' /\ call <= call' /\ call' \in Nat
    BY <1>1, <1>2, <1>4
  <2> HIDE DEF own, ok, a
  <2> QED BY <2>1, HostKeeps
<1>6. LinkSent'
  <2>1. /\ \A i \in 1 .. Len(requests) : Sent(requests[i], pc', Current')
        /\ \A i \in 1 .. Len(answers) : Sent(answers[i], pc', Current')
    BY <1>1, LinkStillSent
  <2> QED BY <1>1, <1>3, <2>1 DEF LinkSent
<1>7. config' = config /\ staged' = staged
  BY <1>1 DEF receiver
<1>8. ok \in BOOLEAN
  BY <1>3 DEF Acks
<1>9. own => requests = <<>> /\ answers' = <<>>
  <2>1. ASSUME own PROVE requests = <<>> /\ 1 = Len(answers)
    BY <1>1, <1>3, <2>1, LastOnLink
  <2>2. Len(answers) = Len(answers') + 1 /\ answers' \in Seq(Acks)
    BY <1>1, TypesAre, TailIs DEF IInv
  <2>3. Len(answers') = 0 => answers' = <<>>
    BY <2>2
  <2> QED BY <2>1, <2>2, <2>3
<1>10. call \notin misled' /\ ok => Done(call, ix)
  BY <1>1, <1>3, <1>4 DEF IInv, Known
<1> HIDE DEF own, ok, a
<1>11. CASE ok /\ ix < Len(Msgs) /\ pc' = "send" /\ ix' = ix + 1 /\ results' = results
  <2>1. ix' \in 1 .. Len(Msgs) /\ ix' \in 0 .. UBX_CFG_VALSET_MSG_MAX /\ ix' - 1 = ix
    BY <1>2, <1>11, SetConfigAssumption
  <2>2. Working'
    BY <1>1, <1>2, <1>11, <2>1 DEF Working, Msgs
  <2>3. Known'
    <3>1. call \notin misled' => Staged(call, ix)
      BY <1>10, <1>11 DEF Done, Msgs
    <3> QED BY <1>1, <1>4, <1>7, <1>9, <1>11, <2>1, <3>1 DEF Known, Staged
  <2>4. TypeOK'
    BY <1>1, <1>3, <1>4, <1>5, <1>11, <2>1 DEF IInv, TypeOK, Acks
  <2> QED BY <1>3, <1>5, <1>6, <2>2, <2>3, <2>4 DEF IInv
<1>12. CASE ~(ok /\ ix < Len(Msgs)) /\ pc' = "idle" /\ results' = Append(results, ok) /\ ix' = ix
  <2>1. results' \in Seq(BOOLEAN) /\ Len(results') = call /\ results'[call] = ok
    BY <1>2, <1>8, <1>12
  <2>2. Working'
    BY <1>1, <1>12, <2>1 DEF Working
  <2>3. Known'
    <3>1. call \notin misled' /\ ok => Set(call)
      <4>1. ok => ~(ix < Len(Msgs))
        BY <1>12
      <4> QED BY <1>10, <4>1 DEF Done, Msgs
    <3> QED BY <1>1, <1>4, <1>7, <1>9, <1>12, <2>1, <3>1 DEF Known, Set
  <2>4. TypeOK'
    BY <1>1, <1>3, <1>4, <1>5, <1>12, <2>1 DEF IInv, TypeOK, Acks
  <2> QED BY <1>3, <1>5, <1>6, <2>2, <2>3, <2>4 DEF IInv
<1> QED BY <1>1, <1>11, <1>12

LEMMA StutterInv == ASSUME IInv, UNCHANGED vars PROVE IInv'
<1>1. /\ pc' = pc /\ call' = call /\ ix' = ix /\ results' = results /\ misled' = misled
      /\ config' = config /\ staged' = staged /\ requests' = requests /\ answers' = answers
  BY DEF vars, host, receiver
<1>2. TypeOK'
  BY <1>1 DEF IInv, TypeOK
<1>3. LinkInOrder' /\ LinkSent' /\ Working'
  BY <1>1 DEF IInv, LinkInOrder, LinkSent, Current, Working, Msgs
<1>4. InTurn' /\ InCallOrder' /\ AllOrNothing'
  BY <1>1 DEF IInv, InTurn, Staged, InCallOrder, AllOrNothing
<1>5. Known'
  BY <1>1 DEF IInv, Known, Staged, Done, Set
<1>6. (\A j \in 1 .. Len(requests) : IsMessage(requests[j]))'
  BY <1>1 DEF IInv, IsMessage
<1> QED BY <1>2, <1>3, <1>4, <1>5, <1>6 DEF IInv

-----------------------------------------------------------------------------
(* The invariant, for all keys, calls and limits: messages and answers stay *)
(* in the order of rxSetConfig()'s calls, and the receiver is where the     *)
(* host thinks that it is, unless a late answer misled the host.            *)
THEOREM Invariant == Spec => []IInv
<1>1. Init => IInv
  BY InitInv
<1>2. IInv /\ [Next]_vars => IInv'
  <2> SUFFICES ASSUME IInv, [Next]_vars PROVE IInv'
    OBVIOUS
  <2>1. CASE Begin
    BY <2>1, BeginInv
  <2>2. CASE Send
    BY <2>2, SendInv
  <2>3. CASE Timeout
    BY <2>3, TimeoutInv
  <2>4. CASE Recv
    BY <2>4, RecvInv
  <2>5. CASE LoseAnswer \/ Pump
    BY <2>5, LoseAnswerInv
  <2>6. CASE Apply
    BY <2>6, ApplyInv
  <2>7. CASE Reject \/ LoseRequest
    BY <2>7, RejectInv
  <2>8. CASE UNCHANGED vars
    BY <2>8, StutterInv
  <2> QED BY <2>1, <2>2, <2>3, <2>4, <2>5, <2>6, <2>7, <2>8 DEF Next, Host
<1> QED BY <1>1, <1>2, PTL DEF Spec

(* A call never has more messages than rxSetConfig() has room for, and all  *)
(* that is on the link and in the receiver has its type.                    *)
THEOREM TypeCorrect == Spec => []TypeOK
<1>1. IInv => TypeOK
  BY DEF IInv
<1> QED BY <1>1, Invariant, PTL

(* When rxSetConfig() has returned true the receiver has all its values,    *)
(* whatever was lost, late or rejected, if no late answer misled the call.  *)
THEOREM TrueMeansSet == Spec => []SetConfigExact
<1>1. ASSUME IInv PROVE SetConfigExact
  <2> DEFINE c == Len(results)
  <2> SUFFICES ASSUME pc = "idle", c > 0, c \notin misled, results[c],
                      NEW k \in Range(Calls[c])
               PROVE  config[k] = c
    BY DEF SetConfigExact
  <2>1. c = call
    BY <1>1 DEF IInv, Working
  <2>2. Calls[c] # <<>>
    <3>1. <<>> \in Seq(Keys) /\ Range(<<>>) = {}
      BY DEF Range
    <3> QED BY <3>1
  <2>3. Set(call)
    BY <1>1, <2>1, <2>2 DEF IInv, Known
  <2> QED BY <2>1, <2>3 DEF Set
<1> QED BY <1>1, Invariant, PTL

(* The receiver never has some of the values of a call to rxSetConfig() but *)
(* not all, as long as no call was misled by a late answer.                 *)
THEOREM WholeOrNot == Spec => []AllOrNothing
<1>1. IInv => AllOrNothing
  BY DEF IInv
<1> QED BY <1>1, Invariant, PTL

=============================================================================
