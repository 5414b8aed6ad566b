--------------------------- MODULE NetworkProofs ---------------------------
(***************************************************************************)
(* Theorems about the two components that talk to servers. MapTiles: for   *)
(* any number of maps, threads and tiles and any limit of the queue the    *)
(* threads never insert a tile while the main thread looks one up, and no  *)
(* tile that is loading is forgotten but for those whose download failed   *)
(* or whose map was closed. Telnet: what is written to the port, what is   *)
(* returned from it and what was agreed on when it opens, for all sizes of *)
(* the buffers, all servers and all that is written.                       *)
(***************************************************************************)
EXTENDS MapTiles, Telnet, SequenceTheorems, FiniteSetTheorems, WellFoundedInduction, TLAPS

(* What a thread works on, and for whom                                    *)
Threads ==
    /\ \A th \in Thread : pc[th] = "process" <=> job[th] # NoTile
    /\ \A th \in Thread : pc[th] \in {"loop", "process"} => Exists(th[1])
    /\ closing # NoInstance => \A n \in 1..joined : pc[<<closing, n>>] = "exited"

(* Only tiles that are known have a path                                   *)
Paths == \A t \in hasPath : tiles[t] # "NONE"

IInv == TypeOK /\ Threads /\ Paths /\ RequestedOnce /\ LoadingIsRequested

LEMMA ConstantFacts ==
    /\ NumThreads \in Nat /\ MAX_TILES_IN_QUEUE \in Nat /\ MAX_TILES_IN_QUEUE > 0
    /\ Covered \subseteq Tile /\ NoTile \notin Tile /\ NoInstance \notin Instance
BY MapTilesAssumption, NoTileAssumption

LEMMA ThreadFacts == \A th \in Thread : th[1] \in Instance /\ th[2] \in 1..NumThreads /\ th = <<th[1], th[2]>>
BY DEF Thread

LEMMA InitInv == Init => IInv
<1> SUFFICES ASSUME Init PROVE IInv
  OBVIOUS
<1> USE DEF Init
<1>1. TypeOK
  BY ConstantFacts DEF TypeOK
<1>2. Threads /\ Paths
  BY DEF Threads, Paths
<1>3. \A i \in Instance : _requestQueue[i] = <<>> /\ InQueue(i) = {}
  BY DEF InQueue
<1>4. \A t \in Tile : ~Requested(t)
  BY <1>3, ConstantFacts DEF Requested
<1>5. RequestedOnce
  BY <1>3, <1>4 DEF RequestedOnce
<1>6. LoadingIsRequested
  BY DEF LoadingIsRequested
<1> QED BY <1>1, <1>2, <1>5, <1>6 DEF IInv
-----------------------------------------------------------------------------
(* Steps that leave the tiles, the queues and the requests in work alone   *)
LEMMA SameRequests ==
    ASSUME IInv, UNCHANGED <<tiles, hasPath, _requestQueue, job, lost>>,
           \A i \in Instance : Exists(i) => Exists(i)'
    PROVE  RequestedOnce' /\ LoadingIsRequested' /\ Paths'
<1>1. \A i \in Instance : InQueue(i)' = InQueue(i)
  BY DEF InQueue
<1>2. \A t \in Tile : Requested(t)' <=> Requested(t)
  BY <1>1 DEF Requested
<1>3. RequestedOnce'
  BY <1>1, <1>2 DEF RequestedOnce, IInv
<1>4. LoadingIsRequested'
  BY <1>2 DEF LoadingIsRequested, IInv
<1> QED BY <1>3, <1>4 DEF Paths, IInv

LEMMA OpenInv == ASSUME IInv, NEW i \in Instance, OpenMap(i) PROVE IInv'
<1> USE DEF OpenMap, IInv
<1>1. TypeOK'
  BY DEF TypeOK
<1>2. \A k \in Instance : Exists(k) => Exists(k)'
  BY DEF Exists
<1>3. RequestedOnce' /\ LoadingIsRequested' /\ Paths'
  BY <1>2, SameRequests
<1>4. ~Exists(i) /\ Exists(i)'
  BY ConstantFacts DEF Exists, Drawing
<1>5. Threads'
  <2>1. \A th \in Thread : th[1] = i => pc[th] # "process" /\ job[th] = NoTile
    BY <1>4 DEF Threads
  <2>2. \A th \in Thread : pc'[th] = IF th[1] = i THEN "loop" ELSE pc[th]
    OBVIOUS
  <2>3. \A th \in Thread : pc'[th] = "process" <=> job'[th] # NoTile
    BY <2>1, <2>2 DEF Threads
  <2>4. \A th \in Thread : pc'[th] \in {"loop", "process"} => Exists(th[1])'
    BY <1>2, <1>4, <2>2, ThreadFacts DEF Threads
  <2>5. closing' = NoInstance
    BY DEF Drawing
  <2> QED BY <2>3, <2>4, <2>5 DEF Threads
<1> QED BY <1>1, <1>3, <1>5

LEMMA CloseInv == ASSUME IInv, NEW i \in Instance, CloseMap(i) PROVE IInv'
<1> USE DEF CloseMap, IInv
<1>1. TypeOK'
  BY ConstantFacts DEF TypeOK
<1>2. \A k \in Instance : Exists(k) => Exists(k)'
  BY ConstantFacts DEF Exists, Drawing
<1>3. RequestedOnce' /\ LoadingIsRequested' /\ Paths'
  BY <1>2, SameRequests
<1>4. Threads'
  <2>1. \A th \in Thread : pc'[th] \in {"loop", "process"} => Exists(th[1])'
    BY <1>2, ThreadFacts DEF Threads
  <2>2. 1..joined' = {}
    OBVIOUS
  <2> QED BY <2>1, <2>2 DEF Threads
<1> QED BY <1>1, <1>3, <1>4

LEMMA JoinInv == ASSUME IInv, Join PROVE IInv'
<1> USE DEF Join, IInv
<1>1. TypeOK'
  BY ConstantFacts DEF TypeOK
<1>2. RequestedOnce' /\ LoadingIsRequested' /\ Paths'
  BY SameRequests DEF Exists
<1>3. Threads'
  <2>1. \A n \in 1..joined + 1 : n \in 1..joined \/ n = joined + 1
    BY DEF TypeOK
  <2> QED BY <2>1 DEF Threads, Exists, Drawing
<1> QED BY <1>1, <1>2, <1>3

LEMMA ExitInv == ASSUME IInv, NEW th \in Thread, Exit(th) PROVE IInv'
<1> USE DEF Exit, IInv, mainVars
<1>1. TypeOK'
  BY DEF TypeOK
<1>2. RequestedOnce' /\ LoadingIsRequested' /\ Paths'
  BY SameRequests DEF Exists
<1>3. \A u \in Thread : pc'[u] = IF u = th THEN "exited" ELSE pc[u]
  BY DEF TypeOK
<1>4. job[th] = NoTile
  BY DEF Threads
<1>5. closing # NoInstance => \A n \in 1..joined : <<closing, n>> \in Thread
  BY ConstantFacts DEF TypeOK, Thread
<1>6. Threads'
  BY <1>3, <1>4, <1>5 DEF Threads, Exists
<1> QED BY <1>1, <1>2, <1>6

(* The main thread asks for a tile, or finds what became of one            *)
LEMMA DrawInv == ASSUME IInv, NEW i \in Instance, NEW t \in Tile, GetTileTex(i, t) PROVE IInv'
<1> USE DEF IInv
<1>1. PICK old \in SUBSET {u \in Tile : MayExpire(u)} :
        /\ hasPath' = hasPath \ old
        /\ \/ /\ Without(old)[t] = "NONE" /\ t \in Covered
              /\ tiles' = [Without(old) EXCEPT ![t] = "LOADING"]
              /\ _requestQueue' = [_requestQueue EXCEPT ![i] = Append(@, t)]
           \/ /\ _requestQueue' = _requestQueue
              /\ \/ /\ Without(old)[t] = "NONE" /\ tiles' = [Without(old) EXCEPT ![t] = "OUTSIDE"]
                 \/ /\ tiles[t] = "LOADING" /\ t \in hasPath
                    /\ \E state \in {"AVAILABLE", "FAILED"} : tiles' = [Without(old) EXCEPT ![t] = state]
                 \/ tiles' = Without(old)
  BY DEF GetTileTex
<1>2. /\ i \in open /\ Exists(i)
      /\ UNCHANGED <<files, pc, job, lost, open, closing, joined>>
  BY DEF GetTileTex, mainVars, Exists
<1>3. Without(old) \in [Tile -> {"NONE", "LOADING", "AVAILABLE", "FAILED", "OUTSIDE"}]
      /\ \A u \in Tile : Without(old)[u] = IF u \in old THEN "NONE" ELSE tiles[u]
  BY DEF Without, TypeOK
<1>4. \A u \in old : u \in Tile /\ tiles[u] \in {"AVAILABLE", "FAILED"}
  BY DEF MayExpire
<1>5. TypeOK'
  <2>1. tiles' \in [Tile -> {"NONE", "LOADING", "AVAILABLE", "FAILED", "OUTSIDE"}]
    BY <1>1, <1>3
  <2>2. _requestQueue' \in [Instance -> Seq(Tile)]
    <3>1. Append(_requestQueue[i], t) \in Seq(Tile)
      BY DEF TypeOK
    <3> QED BY <1>1, <3>1 DEF TypeOK
  <2> QED BY <1>1, <1>2, <2>1, <2>2 DEF TypeOK
<1>6. Threads'
  BY <1>2 DEF Threads, Exists
(* What the tiles were that are asked for or are loading                   *)
<1>7. \A u \in Tile : Requested(u) => tiles'[u] = "LOADING" /\ u \notin hasPath'
  <2> SUFFICES ASSUME NEW u \in Tile, Requested(u) PROVE tiles'[u] = "LOADING" /\ u \notin hasPath'
    OBVIOUS
  <2>1. tiles[u] = "LOADING" /\ u \notin hasPath /\ u \notin old
    BY <1>4 DEF RequestedOnce
  <2>2. Without(old)[u] = "LOADING"
    BY <1>3, <2>1
  <2> QED BY <1>1, <1>3, <2>1, <2>2
<1>8. CASE /\ Without(old)[t] = "NONE"
           /\ tiles' = [Without(old) EXCEPT ![t] = "LOADING"]
           /\ _requestQueue' = [_requestQueue EXCEPT ![i] = Append(@, t)]
  <2> DEFINE q == _requestQueue[i]
  <2>1. /\ ~Requested(t) /\ t \notin hasPath'
    BY <1>1, <1>3, <1>4, <1>8 DEF RequestedOnce, Paths
  <2>2. /\ q \in Seq(Tile) /\ _requestQueue'[i] = Append(q, t)
        /\ \A k \in Instance : k # i => _requestQueue'[k] = _requestQueue[k]
    BY <1>8 DEF TypeOK
  <2>3. /\ DOMAIN _requestQueue'[i] = 1..Len(q) + 1 /\ DOMAIN q = 1..Len(q) /\ Len(q) \in Nat
        /\ \A n \in 1..Len(q) : _requestQueue'[i][n] = q[n]
        /\ _requestQueue'[i][Len(q) + 1] = t
    BY <2>2
  <2> HIDE DEF q
  <2>4. InQueue(i)' = InQueue(i) \cup {t}
    BY <2>3 DEF InQueue, q
  <2>5. \A k \in Instance : k # i => InQueue(k)' = InQueue(k)
    BY <2>2 DEF InQueue
  <2>6. \A u \in Tile : Requested(u)' <=> Requested(u) \/ u = t
    BY <1>2, <2>4, <2>5 DEF Requested
  <2>7. Paths'
    BY <1>1, <1>3, <1>5, <1>8 DEF Paths, TypeOK
  <2>8. LoadingIsRequested'
    <3> SUFFICES ASSUME NEW u \in Tile, tiles'[u] = "LOADING", u \notin hasPath', u # t
                 PROVE  Requested(u) \/ u \in lost
      BY <1>2, <2>6 DEF LoadingIsRequested
    <3>1. tiles[u] = "LOADING" /\ u \notin old
      BY <1>3, <1>8
    <3> QED BY <1>1, <3>1 DEF LoadingIsRequested
  <2>9. RequestedOnce'
    <3>1. \A k \in Instance : _requestQueue'[k] # <<>> => Exists(k)'
      BY <1>2, <2>2 DEF RequestedOnce, Exists
    <3>2. \A u \in Tile : Requested(u)' => tiles'[u] = "LOADING" /\ u \notin hasPath'
      BY <1>3, <1>7, <1>8, <2>1, <2>6
    <3>3. ASSUME NEW k \in Instance, NEW l \in Instance, NEW m \in DOMAIN _requestQueue'[k], NEW n \in DOMAIN _requestQueue'[l],
                 _requestQueue'[k][m] = _requestQueue'[l][n]
          PROVE  k = l /\ m = n
      <4>1. \A j \in Instance : \A p \in DOMAIN _requestQueue[j] : _requestQueue[j][p] # t
        BY <2>1 DEF Requested, InQueue
      <4>2. \A j \in Instance : \A p \in DOMAIN _requestQueue'[j] :
                \/ p \in DOMAIN _requestQueue[j] /\ _requestQueue'[j][p] = _requestQueue[j][p]
                \/ j = i /\ p = Len(q) + 1 /\ _requestQueue'[j][p] = t
        <5> SUFFICES ASSUME NEW j \in Instance, NEW p \in DOMAIN _requestQueue'[j]
                     PROVE  \/ p \in DOMAIN _requestQueue[j] /\ _requestQueue'[j][p] = _requestQueue[j][p]
                            \/ j = i /\ p = Len(q) + 1 /\ _requestQueue'[j][p] = t
          OBVIOUS
        <5>1. CASE j # i
          BY <5>1, <2>2
        <5>2. CASE j = i /\ p \in 1..Len(q)
          BY <5>2, <2>3 DEF q
        <5>3. CASE j = i /\ p \notin 1..Len(q)
          <6>1. p \in 1..Len(q) + 1 /\ Len(q) \in Nat
            BY <5>3, <2>3
          <6>2. p = Len(q) + 1
            BY <6>1, <5>3
          <6> QED BY <6>2, <5>3, <2>3
        <5> QED BY <5>1, <5>2, <5>3
      <4>3. CASE _requestQueue'[k][m] = t
        <5>1. k = i /\ m = Len(q) + 1
          BY <3>3, <4>1, <4>2, <4>3
        <5>2. l = i /\ n = Len(q) + 1
          BY <3>3, <4>1, <4>2, <4>3
        <5> QED BY <5>1, <5>2
      <4>4. CASE _requestQueue'[k][m] # t
        <5>1. m \in DOMAIN _requestQueue[k] /\ _requestQueue'[k][m] = _requestQueue[k][m]
          BY <3>3, <4>2, <4>4
        <5>2. n \in DOMAIN _requestQueue[l] /\ _requestQueue'[l][n] = _requestQueue[l][n]
          BY <3>3, <4>2, <4>4
        <5>3. _requestQueue[k][m] = _requestQueue[l][n]
          BY <3>3, <5>1, <5>2
        <5>4. \A x, y \in Instance : \A a \in DOMAIN _requestQueue[x], b \in DOMAIN _requestQueue[y] :
                _requestQueue[x][a] = _requestQueue[y][b] => x = y /\ a = b
          BY DEF RequestedOnce
        <5> QED BY <5>1, <5>2, <5>3, <5>4
      <4> QED BY <4>3, <4>4
    <3>4. \A th \in Thread : \A k \in Instance : job'[th] \notin InQueue(k)'
      <4>1. \A th \in Thread : job[th] # t
        BY <2>1 DEF Requested
      <4> QED BY <1>2, <2>4, <2>5, <4>1 DEF RequestedOnce
    <3>5. \A th, u \in Thread : job'[th] # NoTile /\ job'[th] = job'[u] => th = u
      BY <1>2 DEF RequestedOnce
    <3> QED BY <3>1, <3>2, <3>3, <3>4, <3>5 DEF RequestedOnce
  <2> QED BY <1>5, <1>6, <2>7, <2>8, <2>9
<1>9. CASE /\ _requestQueue' = _requestQueue
           /\ \/ /\ Without(old)[t] = "NONE" /\ tiles' = [Without(old) EXCEPT ![t] = "OUTSIDE"]
              \/ /\ tiles[t] = "LOADING" /\ t \in hasPath
                 /\ \E state \in {"AVAILABLE", "FAILED"} : tiles' = [Without(old) EXCEPT ![t] = state]
              \/ tiles' = Without(old)
  <2>1. (\A k \in Instance : InQueue(k)' = InQueue(k)) /\ (\A u \in Tile : Requested(u)' <=> Requested(u))
    BY <1>2, <1>9 DEF InQueue, Requested
  <2>2. \A u \in Tile : tiles'[u] = "LOADING" => tiles[u] = "LOADING" /\ u \notin old
    BY <1>3, <1>9
  <2>3. LoadingIsRequested'
    BY <1>1, <1>2, <2>1, <2>2 DEF LoadingIsRequested
  <2>4. RequestedOnce'
    BY <1>2, <1>7, <1>9, <2>1 DEF RequestedOnce, Exists
  <2>5. Paths'
    BY <1>1, <1>3, <1>5, <1>9 DEF Paths, TypeOK
  <2> QED BY <1>5, <1>6, <2>3, <2>4, <2>5
<1> QED BY <1>1, <1>8, <1>9

(* An instance is gone: all its threads have ended                         *)
LEMMA DestroyedInv == ASSUME IInv, Destroyed PROVE IInv'
<1> USE DEF IInv
<1>1. /\ closing \in Instance /\ joined = NumThreads /\ closing' = NoInstance /\ joined' = 0
      /\ _requestQueue' = [_requestQueue EXCEPT ![closing] = <<>>]
      /\ UNCHANGED <<files, pc, job, open>>
      /\ tiles' = IF open = {} THEN [t \in Tile |-> "NONE"] ELSE tiles
      /\ hasPath' = IF open = {} THEN {} ELSE hasPath
      /\ lost' = IF open = {} THEN {} ELSE lost \cup InQueue(closing)
  BY DEF Destroyed, Drawing, TypeOK
<1>2. /\ _requestQueue'[closing] = <<>>
      /\ \A k \in Instance : k # closing => _requestQueue'[k] = _requestQueue[k]
  BY <1>1 DEF TypeOK
<1>3. InQueue(closing) \subseteq Tile
  BY <1>1 DEF InQueue, TypeOK
<1>4. TypeOK'
  BY <1>1, <1>3, ConstantFacts DEF TypeOK
<1>5. \A th \in Thread : th[1] = closing => pc[th] = "exited" /\ job[th] = NoTile
  <2> SUFFICES ASSUME NEW th \in Thread, th[1] = closing PROVE pc[th] = "exited" /\ job[th] = NoTile
    OBVIOUS
  <2>1. th = <<closing, th[2]>> /\ th[2] \in 1..joined /\ closing # NoInstance
    BY <1>1, ThreadFacts, ConstantFacts
  <2>2. pc[th] = "exited"
    BY <2>1 DEF Threads
  <2> QED BY <2>2 DEF Threads
<1>6. \A k \in Instance : Exists(k)' <=> Exists(k) /\ (k # closing \/ k \in open)
  BY <1>1, ConstantFacts DEF Exists
<1>7. Threads'
  BY <1>1, <1>5, <1>6, ThreadFacts DEF Threads
<1>8. \A k \in Instance : InQueue(k)' = IF k = closing THEN {} ELSE InQueue(k)
  BY <1>2 DEF InQueue
<1>9. CASE open = {}
  <2>1. \A k \in Instance : _requestQueue'[k] = <<>> /\ InQueue(k)' = {}
    BY <1>2, <1>9 DEF RequestedOnce, Exists, InQueue
  <2>2. \A th \in Thread : job'[th] = NoTile
    BY <1>1, <1>5, <1>9, ThreadFacts DEF Threads, Exists, TypeOK
  <2>3. \A t \in Tile : tiles'[t] = "NONE" /\ ~Requested(t)'
    BY <1>1, <1>9, <2>1, <2>2, ConstantFacts DEF Requested
  <2>4. RequestedOnce'
    BY <2>1, <2>2, <2>3 DEF RequestedOnce
  <2>5. LoadingIsRequested' /\ Paths'
    BY <1>1, <1>9, <2>3 DEF LoadingIsRequested, Paths
  <2> QED BY <1>4, <1>7, <2>4, <2>5
<1>10. CASE open # {}
  <2>1. tiles' = tiles /\ hasPath' = hasPath /\ lost' = lost \cup InQueue(closing)
    BY <1>1, <1>10
  <2>2. \A t \in Tile : Requested(t)' => Requested(t)
    BY <1>1, <1>8 DEF Requested
  <2>3. \A t \in Tile : Requested(t) => Requested(t)' \/ t \in lost'
    BY <1>1, <1>8, <2>1 DEF Requested
  <2>4. RequestedOnce'
    <3>1. \A k \in Instance : _requestQueue'[k] # <<>> => Exists(k)'
      BY <1>2, <1>6 DEF RequestedOnce
    <3>2. \A k \in Instance : \A n \in DOMAIN _requestQueue'[k] :
              k # closing /\ n \in DOMAIN _requestQueue[k] /\ _requestQueue'[k][n] = _requestQueue[k][n]
      BY <1>2
    <3> QED BY <1>1, <1>8, <2>1, <2>2, <3>1, <3>2 DEF RequestedOnce
  <2>5. LoadingIsRequested' /\ Paths'
    BY <2>1, <2>3 DEF LoadingIsRequested, Paths
  <2> QED BY <1>4, <1>7, <2>4, <2>5
<1> QED BY <1>9, <1>10
-----------------------------------------------------------------------------
(* What a thread takes out of the queue: the oldest tiles that are too many
   and the one after them                                                  *)
LEMMA QueueTaken ==
    ASSUME IInv, NEW i \in Instance, _requestQueue[i] # <<>>
    PROVE  LET q == _requestQueue[i]
               rest == SubSeq(q, Excess(i) + 2, Len(q))
           IN /\ Excess(i) \in Nat /\ Len(q) \in Nat /\ Excess(i) + 1 \in 1..Len(q)
              /\ q \in Seq(Tile) /\ rest \in Seq(Tile) /\ Len(rest) = Len(q) - (Excess(i) + 1)
              /\ \A n \in 1..Len(rest) : n + Excess(i) + 1 \in 1..Len(q) /\ rest[n] = q[n + Excess(i) + 1]
<1> DEFINE q == _requestQueue[i]
           k == Excess(i)
           rest == SubSeq(q, k + 2, Len(q))
<1>1. q \in Seq(Tile) /\ Len(q) \in Nat /\ Len(q) > 0
  BY DEF IInv, TypeOK
<1>2. k \in Nat /\ k + 1 \in 1..Len(q)
  BY <1>1, ConstantFacts DEF Excess
<1> HIDE DEF q, k
<1>3. \A n \in (k + 2)..Len(q) : q[n] \in Tile
  BY <1>1, <1>2
<1>4. rest \in Seq(Tile) /\ Len(rest) = Len(q) - (k + 1)
  BY <1>1, <1>2
<1>5. \A n \in 1..Len(rest) : n + k + 1 \in 1..Len(q) /\ rest[n] = q[n + k + 1]
  BY <1>1, <1>2, <1>4
<1> QED BY <1>1, <1>2, <1>4, <1>5 DEF q, k

LEMMA TakeInv == ASSUME IInv, NEW th \in Thread, TakeRequest(th) PROVE IInv'
<1> USE DEF IInv
<1> DEFINE i == th[1]
           q == _requestQueue[i]
           k == Excess(i)
           rest == SubSeq(q, k + 2, Len(q))
<1>1. /\ pc[th] = "loop" /\ q # <<>> /\ i \in Instance
      /\ tiles' = [t \in Tile |-> IF t \in TooMany(i) THEN "FAILED" ELSE tiles[t]]
      /\ job' = [job EXCEPT ![th] = q[k + 1]]
      /\ _requestQueue' = [_requestQueue EXCEPT ![i] = rest]
      /\ pc' = [pc EXCEPT ![th] = "process"]
      /\ UNCHANGED <<hasPath, files, lost, open, closing, joined>>
  BY ThreadFacts DEF TakeRequest, mainVars
<1>2. /\ k \in Nat /\ Len(q) \in Nat /\ k + 1 \in 1..Len(q) /\ DOMAIN q = 1..Len(q)
      /\ q \in Seq(Tile) /\ rest \in Seq(Tile) /\ Len(rest) = Len(q) - (k + 1) /\ DOMAIN rest = 1..Len(rest)
      /\ \A n \in 1..Len(rest) : n + k + 1 \in 1..Len(q) /\ rest[n] = q[n + k + 1]
  <2>1. i \in Instance /\ _requestQueue[i] # <<>>
    BY <1>1
  <2>2. /\ k \in Nat /\ Len(q) \in Nat /\ k + 1 \in 1..Len(q)
        /\ q \in Seq(Tile) /\ rest \in Seq(Tile) /\ Len(rest) = Len(q) - (k + 1)
        /\ \A n \in 1..Len(rest) : n + k + 1 \in 1..Len(q) /\ rest[n] = q[n + k + 1]
    BY <2>1, QueueTaken
  <2> HIDE DEF q, k, rest, i, IInv
  <2>3. DOMAIN q = 1..Len(q) /\ DOMAIN rest = 1..Len(rest)
    BY <2>2
  <2> QED BY <2>2, <2>3
<1>3. TooMany(i) = {q[n] : n \in 1..k} /\ InQueue(i) = {q[n] : n \in 1..Len(q)}
  BY <1>2 DEF TooMany, InQueue
<1>4. _requestQueue'[i] = rest /\ \A j \in Instance : j # i => _requestQueue'[j] = _requestQueue[j]
  BY <1>1 DEF TypeOK
<1>5. job'[th] = q[k + 1] /\ job[th] = NoTile /\ \A u \in Thread : u # th => job'[u] = job[u]
  BY <1>1 DEF TypeOK, Threads
<1> HIDE DEF q, k, rest, i
<1>6. InQueue(i)' = {rest[n] : n \in 1..Len(rest)} /\ \A j \in Instance : j # i => InQueue(j)' = InQueue(j)
  BY <1>2, <1>4 DEF InQueue
<1>7. q[k + 1] \in Tile /\ q[k + 1] \in InQueue(i) /\ InQueue(i)' \subseteq InQueue(i) /\ TooMany(i) \subseteq InQueue(i)
      /\ InQueue(i) \subseteq Tile
  BY <1>2, <1>3, <1>6
(* No tile is twice in the queue                                           *)
<1>8. \A m, n \in 1..Len(q) : q[m] = q[n] => m = n
  <2>1. \A m, n \in DOMAIN _requestQueue[i] : _requestQueue[i][m] = _requestQueue[i][n] => m = n
    BY <1>1 DEF RequestedOnce
  <2> QED BY <2>1, <1>2 DEF q
<1>9. q[k + 1] \notin InQueue(i)' /\ q[k + 1] \notin TooMany(i) /\ InQueue(i)' \cap TooMany(i) = {}
  <2>1. \A n \in 1..Len(rest) : n + k + 1 # k + 1 /\ ~(n + k + 1 \in 1..k)
    BY <1>2
  <2>2. 1..k \subseteq 1..Len(q)
    BY <1>2
  <2> QED BY <1>2, <1>3, <1>6, <1>8, <2>1, <2>2
<1>10. InQueue(i) \subseteq TooMany(i) \cup {q[k + 1]} \cup InQueue(i)'
  <2> SUFFICES ASSUME NEW n \in 1..Len(q), n \notin 1..k, n # k + 1 PROVE q[n] \in InQueue(i)'
    BY <1>3
  <2>1. n - (k + 1) \in 1..Len(rest) /\ n = n - (k + 1) + k + 1
    BY <1>2
  <2>2. rest[n - (k + 1)] = q[n]
    BY <1>2, <2>1
  <2> QED BY <1>6, <2>1, <2>2
<1>11. \A j \in Instance : j # i => InQueue(j) \cap InQueue(i) = {}
  BY <1>1 DEF RequestedOnce, InQueue
<1>12. \A u \in Thread : job[u] \notin InQueue(i)
  BY <1>1 DEF RequestedOnce
<1>13. TypeOK'
  BY <1>1, <1>2, <1>7 DEF TypeOK
<1>14. Threads'
  <2>1. pc'[th] = "process" /\ \A u \in Thread : u # th => pc'[u] = pc[u]
    BY <1>1 DEF TypeOK
  <2>2. job'[th] # NoTile
    BY <1>5, <1>7, ConstantFacts
  <2>3. closing # NoInstance => \A n \in 1..joined : <<closing, n>> \in Thread /\ <<closing, n>> # th
    BY <1>1, ConstantFacts DEF Threads, TypeOK, Thread
  <2> QED BY <1>1, <1>5, <2>1, <2>2, <2>3 DEF Threads, Exists
<1>15. \A t \in Tile : Requested(t)' => Requested(t) /\ t \notin TooMany(i)
  BY <1>1, <1>5, <1>6, <1>7, <1>9, <1>11, <1>12 DEF Requested
<1>16. \A t \in Tile : Requested(t) => Requested(t)' \/ t \in TooMany(i)
  BY <1>1, <1>5, <1>6, <1>7, <1>10, ConstantFacts DEF Requested
<1>17. RequestedOnce'
  <2>1. \A j \in Instance : _requestQueue'[j] # <<>> => Exists(j)'
    BY <1>1, <1>4 DEF RequestedOnce, Exists, q
  <2>2. \A t \in Tile : Requested(t)' => tiles'[t] = "LOADING" /\ t \notin hasPath'
    BY <1>1, <1>15 DEF RequestedOnce
  <2>3. ASSUME NEW j \in Instance, NEW l \in Instance, NEW m \in DOMAIN _requestQueue'[j], NEW n \in DOMAIN _requestQueue'[l],
               _requestQueue'[j][m] = _requestQueue'[l][n]
        PROVE  j = l /\ m = n
    <3>1. \A o \in Instance : \A p \in DOMAIN _requestQueue'[o] :
             \/ o # i /\ p \in DOMAIN _requestQueue[o] /\ _requestQueue'[o][p] = _requestQueue[o][p]
             \/ o = i /\ p \in 1..Len(rest) /\ p + k + 1 \in DOMAIN _requestQueue[o] /\ _requestQueue'[o][p] = _requestQueue[o][p + k + 1]
      BY <1>2, <1>4 DEF q
    <3>2. \A p, r \in 1..Len(rest) : p + k + 1 = r + k + 1 => p = r
      BY <1>2
    <3> QED BY <2>3, <3>1, <3>2 DEF RequestedOnce
  <2>4. \A u \in Thread : \A j \in Instance : job'[u] \notin InQueue(j)'
    BY <1>5, <1>6, <1>7, <1>9, <1>11 DEF RequestedOnce
  <2>5. \A u, v \in Thread : job'[u] # NoTile /\ job'[u] = job'[v] => u = v
    BY <1>5, <1>7, <1>12 DEF RequestedOnce
  <2> QED BY <2>1, <2>2, <2>3, <2>4, <2>5 DEF RequestedOnce
<1>18. LoadingIsRequested' /\ Paths'
  BY <1>1, <1>13, <1>16 DEF LoadingIsRequested, Paths, TypeOK
<1> QED BY <1>13, <1>14, <1>17, <1>18

(* A request has been processed                                            *)
LEMMA ProcessedFacts ==
    ASSUME IInv, NEW th \in Thread, pc[th] = "process",
           UNCHANGED <<tiles, _requestQueue, open, closing, joined>>,
           pc' = [pc EXCEPT ![th] = "loop"], job' = [job EXCEPT ![th] = NoTile],
           hasPath' \subseteq hasPath \cup {job[th]}
    PROVE  /\ job[th] \in Tile /\ tiles[job[th]] = "LOADING"
           /\ Threads' /\ RequestedOnce' /\ Paths'
           /\ \A t \in Tile : Requested(t) => Requested(t)' \/ t = job[th]
<1> USE DEF IInv
<1>1. job[th] \in Tile /\ Exists(th[1]) /\ Requested(job[th])
  BY ConstantFacts DEF Threads, TypeOK, Requested
<1>2. tiles[job[th]] = "LOADING"
  BY <1>1 DEF RequestedOnce
<1>3. /\ \A u \in Thread : job'[u] = IF u = th THEN NoTile ELSE job[u]
      /\ \A u \in Thread : pc'[u] = IF u = th THEN "loop" ELSE pc[u]
  BY DEF TypeOK
<1>4. Threads'
  <2>1. closing # NoInstance => \A n \in 1..joined : <<closing, n>> \in Thread /\ <<closing, n>> # th
    BY ConstantFacts DEF Threads, TypeOK, Thread
  <2> QED BY <1>1, <1>3, <2>1 DEF Threads, Exists
<1>5. \A i \in Instance : InQueue(i)' = InQueue(i)
  BY DEF InQueue
<1>6. \A t \in Tile : Requested(t)' <=> Requested(t) /\ t # job[th]
  <2>1. \A i \in Instance : job[th] \notin InQueue(i)
    BY DEF RequestedOnce
  <2>2. \A u \in Thread : u # th => job[u] # job[th]
    BY <1>1, ConstantFacts DEF RequestedOnce
  <2> QED BY <1>1, <1>3, <1>5, <2>1, <2>2, ConstantFacts DEF Requested
<1>7. RequestedOnce'
  <2>1. \A i \in Instance : _requestQueue'[i] # <<>> => Exists(i)'
    BY DEF RequestedOnce, Exists
  <2>2. \A t \in Tile : Requested(t)' => tiles'[t] = "LOADING" /\ t \notin hasPath'
    BY <1>6 DEF RequestedOnce
  <2>3. \A u \in Thread : \A i \in Instance : job'[u] \notin InQueue(i)'
    <3>1. \A i \in Instance : InQueue(i) \subseteq Tile
      BY DEF InQueue, TypeOK
    <3> QED BY <1>3, <1>5, <3>1, ConstantFacts DEF RequestedOnce
  <2>4. \A u, v \in Thread : job'[u] # NoTile /\ job'[u] = job'[v] => u = v
    BY <1>3 DEF RequestedOnce
  <2> QED BY <2>1, <2>2, <2>3, <2>4 DEF RequestedOnce
<1>8. Paths'
  BY <1>2 DEF Paths
<1> QED BY <1>1, <1>2, <1>4, <1>6, <1>7, <1>8

LEMMA LoadedInv == ASSUME IInv, NEW th \in Thread, Loaded(th) PROVE IInv'
<1>1. /\ pc[th] = "process" /\ UNCHANGED <<tiles, _requestQueue, open, closing, joined, lost>>
      /\ pc' = [pc EXCEPT ![th] = "loop"] /\ job' = [job EXCEPT ![th] = NoTile]
      /\ hasPath' = hasPath \cup {job[th]} /\ files' = files \cup {job[th]}
  BY DEF Loaded, mainVars
<1>2. /\ job[th] \in Tile /\ Threads' /\ RequestedOnce' /\ Paths'
      /\ \A t \in Tile : Requested(t) => Requested(t)' \/ t = job[th]
  BY <1>1, ProcessedFacts
<1>3. TypeOK'
  BY <1>1, <1>2 DEF TypeOK, IInv
<1>4. LoadingIsRequested'
  BY <1>1, <1>2 DEF LoadingIsRequested, IInv
<1> QED BY <1>2, <1>3, <1>4 DEF IInv

LEMMA FailsInv == ASSUME IInv, NEW th \in Thread, DownloadFails(th) PROVE IInv'
<1>1. /\ pc[th] = "process" /\ UNCHANGED <<tiles, _requestQueue, open, closing, joined, hasPath>>
      /\ pc' = [pc EXCEPT ![th] = "loop"] /\ job' = [job EXCEPT ![th] = NoTile]
      /\ lost' = lost \cup {job[th]} /\ files' \in {files, files \cup {job[th]}}
  BY DEF DownloadFails, mainVars
<1>2. /\ job[th] \in Tile /\ Threads' /\ RequestedOnce' /\ Paths'
      /\ \A t \in Tile : Requested(t) => Requested(t)' \/ t = job[th]
  BY <1>1, ProcessedFacts
<1>3. TypeOK'
  BY <1>1, <1>2 DEF TypeOK, IInv
<1>4. LoadingIsRequested'
  BY <1>1, <1>2 DEF LoadingIsRequested, IInv
<1> QED BY <1>2, <1>3, <1>4 DEF IInv
-----------------------------------------------------------------------------
LEMMA NextInv == IInv /\ [Next]_vars => IInv'
<1> SUFFICES ASSUME IInv, [Next]_vars PROVE IInv'
  OBVIOUS
<1>1. ASSUME NEW i \in Instance, NEW t \in Tile, GetTileTex(i, t) PROVE IInv'
  BY <1>1, DrawInv
<1>2. ASSUME NEW i \in Instance, OpenMap(i) \/ CloseMap(i) PROVE IInv'
  BY <1>2, OpenInv, CloseInv
<1>3. CASE Join \/ Destroyed
  BY <1>3, JoinInv, DestroyedInv
<1>4. ASSUME NEW th \in Thread, Run(th) PROVE IInv'
  BY <1>4, ExitInv, TakeInv, LoadedInv, FailsInv DEF Run
<1>5. CASE UNCHANGED vars
  <2>1. UNCHANGED <<tiles, hasPath, files, open, _requestQueue, pc, job, closing, joined, lost>>
    BY <1>5 DEF vars, mainVars
  <2>2. (RequestedOnce' <=> RequestedOnce) /\ (LoadingIsRequested' <=> LoadingIsRequested)
    BY <2>1 DEF RequestedOnce, LoadingIsRequested, Requested, Exists, InQueue
  <2>3. TypeOK' /\ Threads' /\ Paths'
    BY <2>1 DEF IInv, TypeOK, Threads, Paths, Exists
  <2> QED BY <2>2, <2>3 DEF IInv
<1> QED BY <1>1, <1>2, <1>3, <1>4, <1>5 DEF Next, Main, Draw

(* The inductive invariant holds in every state of the cache.              *)
THEOREM Invariance == Spec => []IInv
BY InitInv, NextInv, PTL DEF Spec

(* Every state of the cache has the type of its variables.                 *)
THEOREM TypeCorrect == Spec => []TypeOK
BY Invariance, PTL DEF IInv

(* Tiles are requested once, by instances that exist, and are there as long
   as they are requested, so that no thread ever inserts one.              *)
THEOREM NoTileTwice == Spec => []RequestedOnce
BY Invariance, PTL DEF IInv

(* A tile that is loading is on its way, unless its download failed or its
   instance was closed.                                                    *)
THEOREM NoTileForgotten == Spec => []LoadingIsRequested
BY Invariance, PTL DEF IInv
-----------------------------------------------------------------------------
(***************************************************************************)
(* Sequences, one after the other. Induction is by the least element of a  *)
(* set of naturals.                                                        *)
(***************************************************************************)
Less == {p \in Nat \X Nat : p[1] < p[2]}

LEMMA LessWellFounded == IsWellFoundedOn(Less, Nat)
  BY NatLessThanWellFounded DEF Less, OpToRel

(* A set of naturals with 0 and all successors is all of them              *)
LEMMA Induction ==
    ASSUME NEW S \in SUBSET Nat, 0 \in S, \A n \in S : n + 1 \in S
    PROVE  S = Nat
<1> SUFFICES ASSUME Nat \ S # {} PROVE FALSE
  OBVIOUS
<1>1. PICK m \in Nat \ S : \A k \in Nat \ S : <<k, m>> \notin Less
  BY LessWellFounded, WFMin
<1>2. m - 1 \in Nat /\ <<m - 1, m>> \in Less
  BY DEF Less
<1>3. m - 1 \in S
  BY <1>1, <1>2
<1> QED BY <1>2, <1>3

(* f[i] is the first i sequences of s, one after the other                 *)
Joined(f, s, i) == IF i = 1 THEN s[i] ELSE f[i - 1] \o s[i]
Joins(f, s, n) == f = [i \in 1..n |-> Joined(f, s, i)]
SameUpTo(s, t, n) == \A i \in 1..n : s[i] = t[i]

LEMMA JoinsExists ==
    ASSUME NEW s
    PROVE  \A n \in Nat : \E f : Joins(f, s, n)
<1> DEFINE S == {n \in Nat : \E f : Joins(f, s, n)}
<1>1. 0 \in S
  <2>1. Joins([i \in 1..0 |-> <<>>], s, 0)
    BY DEF Joins
  <2> QED BY <2>1
<1>2. ASSUME NEW n \in S PROVE n + 1 \in S
  <2>1. PICK f : f = [i \in 1..n |-> Joined(f, s, i)]
    BY DEF Joins
  <2> DEFINE g == [i \in 1..n + 1 |-> IF i = n + 1 THEN Joined(f, s, n + 1) ELSE f[i]]
  <2>2. \A i \in 1..n : g[i] = f[i]
    OBVIOUS
  <2>3. ASSUME NEW i \in 1..n + 1 PROVE g[i] = Joined(g, s, i)
    <3>1. i # 1 => i - 1 \in 1..n
      OBVIOUS
    <3>2. Joined(g, s, i) = Joined(f, s, i)
      BY <2>2, <3>1 DEF Joined
    <3>3. i # n + 1 => i \in 1..n
      OBVIOUS
    <3>4. i # n + 1 => f[i] = Joined(f, s, i)
      BY <2>1, <3>3
    <3> QED BY <3>2, <3>4
  <2>4. g = [i \in 1..n + 1 |-> Joined(g, s, i)]
    BY <2>3
  <2>5. Joins(g, s, n + 1) /\ n + 1 \in Nat
    BY <2>4 DEF Joins
  <2> HIDE DEF g
  <2> QED BY <2>5
<1>3. S = Nat
  <2>1. S \in SUBSET Nat
    OBVIOUS
  <2> HIDE DEF S
  <2> QED BY <1>1, <1>2, <2>1, Induction
<1> QED BY <1>3

LEMMA JoinsUnique ==
    ASSUME NEW s, NEW t, NEW n \in Nat, NEW m \in Nat, NEW f, NEW g,
           Joins(f, s, n), Joins(g, t, m), n <= m, SameUpTo(s, t, n)
    PROVE  \A i \in 1..n : f[i] = g[i]
<1> DEFINE S == {i \in Nat : 1 <= i /\ i <= n => f[i] = g[i]}
<1>1. \A i \in 1..n : f[i] = Joined(f, s, i)
  BY DEF Joins
<1>2. \A i \in 1..m : g[i] = Joined(g, t, i)
  BY DEF Joins
<1>3. 0 \in S
  OBVIOUS
<1>4. ASSUME NEW i \in S PROVE i + 1 \in S
  <2> SUFFICES ASSUME i + 1 <= n PROVE f[i + 1] = g[i + 1]
    OBVIOUS
  <2>1. s[i + 1] = t[i + 1] /\ (i # 0 => f[i] = g[i])
    BY DEF SameUpTo
  <2>2. i + 1 \in 1..n /\ i + 1 \in 1..m /\ (i + 1) - 1 = i /\ (i + 1 = 1 <=> i = 0)
    OBVIOUS
  <2>3. f[i + 1] = Joined(f, s, i + 1) /\ g[i + 1] = Joined(g, t, i + 1)
    BY <1>1, <1>2, <2>2
  <2> QED BY <2>1, <2>2, <2>3 DEF Joined
<1>5. S = Nat
  <2>1. S \in SUBSET Nat
    OBVIOUS
  <2> HIDE DEF S
  <2> QED BY <1>3, <1>4, <2>1, Induction
<1> QED BY <1>5

LEMMA FlattenIs ==
    ASSUME NEW s, Len(s) \in Nat \ {0}, NEW f, Joins(f, s, Len(s))
    PROVE  FlattenSeq(s) = f[Len(s)]
<1> DEFINE h == CHOOSE g : Joins(g, s, Len(s))
<1>1. Joins(h, s, Len(s))
  OBVIOUS
<1>2. FlattenSeq(s) = h[Len(s)]
  BY DEF FlattenSeq, Joins, Joined
<1> HIDE DEF h
<1>3. \A i \in 1..Len(s) : h[i] = f[i]
  BY <1>1, JoinsUnique DEF SameUpTo
<1> QED BY <1>2, <1>3

(* One more sequence at the end                                            *)
LEMMA FlattenAppend ==
    ASSUME NEW T, NEW s \in Seq(Seq(T)), NEW e \in Seq(T), FlattenSeq(s) \in Seq(T)
    PROVE  FlattenSeq(Append(s, e)) = FlattenSeq(s) \o e
<1> DEFINE t == Append(s, e)
           n == Len(s)
           F == FlattenSeq(s)
<1>1. /\ n \in Nat /\ Len(t) = n + 1 /\ t[n + 1] = e
      /\ \A i \in 1..n : s[i] = t[i]
  OBVIOUS
<1> HIDE DEF t, n
<1>2. n + 1 \in Nat \ {0} /\ n <= n + 1 /\ (n + 1 = 1 <=> n = 0) /\ (n + 1) - 1 = n /\ n + 1 \in 1..n + 1
  BY <1>1
<1>3. PICK g : Joins(g, t, n + 1)
  BY <1>2, JoinsExists
<1>4. FlattenSeq(t) = g[n + 1]
  BY <1>1, <1>2, <1>3, FlattenIs
<1>5. g[n + 1] = IF n = 0 THEN e ELSE g[n] \o e
  BY <1>1, <1>2, <1>3 DEF Joins, Joined
<1>6. CASE n = 0
  <2>1. s = <<>>
    BY <1>6 DEF n
  <2>2. F = s
    BY <2>1 DEF FlattenSeq
  <2>3. F \o e = e
    BY <2>1, <2>2
  <2> QED BY <1>4, <1>5, <1>6, <2>3 DEF t
<1>7. CASE n # 0
  <2>1. PICK f : Joins(f, s, n)
    BY <1>1, JoinsExists
  <2>2. F = f[n]
    BY <1>1, <1>7, <2>1, FlattenIs DEF n
  <2>3. n \in 1..n
    BY <1>1, <1>7
  <2>4. f[n] = g[n]
    <3> DEFINE m == n + 1
    <3>1. m \in Nat /\ n <= m /\ Joins(g, t, m)
      BY <1>2, <1>3
    <3> HIDE DEF m
    <3>2. n \in Nat /\ SameUpTo(s, t, n)
      BY <1>1 DEF SameUpTo
    <3>3. \A i \in 1..n : f[i] = g[i]
      BY <2>1, <3>1, <3>2, JoinsUnique
    <3> QED BY <2>3, <3>3
  <2> QED BY <1>4, <1>5, <1>7, <2>2, <2>4 DEF t
<1> QED BY <1>1, <1>6, <1>7

LEMMA FlattenEmpty == FlattenSeq(<<>>) = <<>>
BY DEF FlattenSeq

LEMMA FlattenType ==
    ASSUME NEW T, NEW s \in Seq(Seq(T))
    PROVE  FlattenSeq(s) \in Seq(T)
<1> DEFINE n == Len(s)
<1>1. n \in Nat /\ \A i \in 1..n : s[i] \in Seq(T)
  OBVIOUS
<1>2. CASE n = 0
  <2>1. s = <<>>
    BY <1>2
  <2>2. FlattenSeq(s) = <<>>
    BY <2>1, FlattenEmpty
  <2> QED BY <2>2
<1>3. CASE n # 0
  <2>1. PICK f : Joins(f, s, n)
    BY <1>1, JoinsExists
  <2> HIDE DEF n
  <2>2. \A i \in 1..n : f[i] = Joined(f, s, i)
    BY <2>1 DEF Joins
  <2> DEFINE S == {i \in Nat : 1 <= i /\ i <= n => f[i] \in Seq(T)}
  <2>3. 0 \in S
    OBVIOUS
  <2>4. ASSUME NEW i \in S PROVE i + 1 \in S
    <3> SUFFICES ASSUME i + 1 <= n PROVE f[i + 1] \in Seq(T)
      OBVIOUS
    <3>1. i + 1 \in 1..n /\ (i + 1) - 1 = i /\ (i + 1 = 1 <=> i = 0) /\ (i # 0 => f[i] \in Seq(T))
      BY <1>1
    <3>2. f[i + 1] = (IF i = 0 THEN s[i + 1] ELSE f[i] \o s[i + 1]) /\ s[i + 1] \in Seq(T)
      BY <1>1, <2>2, <3>1 DEF Joined
    <3> QED BY <3>1, <3>2
  <2>5. S = Nat
    <3>1. S \in SUBSET Nat
      OBVIOUS
    <3> HIDE DEF S
    <3> QED BY <2>3, <2>4, <3>1, Induction
  <2>6. f[n] \in Seq(T)
    BY <1>1, <1>3, <2>5
  <2>7. FlattenSeq(s) = f[n]
    BY <1>1, <1>3, <2>1, FlattenIs DEF n
  <2> QED BY <2>6, <2>7
<1> QED BY <1>2, <1>3

(* Escaped bytes, one more at the end                                      *)
LEMMA EscapeByteIs ==
    ASSUME NEW b \in Bytes
    PROVE  /\ EscapeByte(b) \in Seq(Bytes)
           /\ b = "IAC" => EscapeByte(b) = <<"IAC", "IAC">> /\ Len(EscapeByte(b)) = 2
           /\ b # "IAC" => EscapeByte(b) = <<b>> /\ Len(EscapeByte(b)) = 1
<1>1. CASE b = "IAC"
  <2>1. EscapeByte(b) = <<b, b>>
    BY <1>1 DEF EscapeByte
  <2>2. <<b, b>> \in Seq(Bytes) /\ Len(<<b, b>>) = 2
    OBVIOUS
  <2> QED BY <1>1, <2>1, <2>2
<1>2. CASE b # "IAC"
  <2>1. EscapeByte(b) = <<b>>
    BY <1>2 DEF EscapeByte
  <2>2. <<b>> \in Seq(Bytes) /\ Len(<<b>>) = 1
    OBVIOUS
  <2> QED BY <1>2, <2>1, <2>2
<1> QED BY <1>1, <1>2

Escaped(s) == [i \in 1..Len(s) |-> EscapeByte(s[i])]

LEMMA EscapeIs ==
    ASSUME NEW s \in Seq(Bytes)
    PROVE  /\ Escaped(s) \in Seq(Seq(Bytes)) /\ Escape(s) = FlattenSeq(Escaped(s))
           /\ Escape(s) \in Seq(Bytes)
<1>1. \A i \in 1..Len(s) : EscapeByte(s[i]) \in Seq(Bytes)
  BY EscapeByteIs
<1>2. Escaped(s) \in Seq(Seq(Bytes))
  BY <1>1, IsASeq DEF Escaped
<1>3. Escape(s) = FlattenSeq(Escaped(s))
  BY DEF Escape, Escaped
<1> QED BY <1>2, <1>3, FlattenType

LEMMA EscapeEmpty == Escape(<<>>) = <<>>
<1>1. [i \in 1..Len(<<>>) |-> EscapeByte(<<>>[i])] = <<>>
  OBVIOUS
<1> QED BY <1>1, FlattenEmpty DEF Escape

LEMMA EscapeAppend ==
    ASSUME NEW s \in Seq(Bytes), NEW b \in Bytes
    PROVE  Escape(Append(s, b)) = Escape(s) \o EscapeByte(b)
<1> DEFINE t == Append(s, b)
           n == Len(s)
<1>1. n \in Nat /\ t \in Seq(Bytes) /\ Len(t) = n + 1 /\ t[n + 1] = b /\ \A i \in 1..n : t[i] = s[i]
  OBVIOUS
<1>2. Escaped(s) \in Seq(Seq(Bytes)) /\ EscapeByte(b) \in Seq(Bytes) /\ Len(Escaped(s)) = n
  BY EscapeIs, EscapeByteIs DEF Escaped
<1> HIDE DEF t, n
<1>3. Escaped(t) \in Seq(Seq(Bytes)) /\ Len(Escaped(t)) = n + 1
  <2>1. Escaped(t) \in Seq(Seq(Bytes))
    BY <1>1, EscapeIs
  <2>2. Len(Escaped(t)) = Len(t)
    BY <1>1 DEF Escaped
  <2> QED BY <1>1, <2>1, <2>2
<1>4. \A i \in 1..n + 1 : Escaped(t)[i] = IF i = n + 1 THEN EscapeByte(b) ELSE Escaped(s)[i]
  BY <1>1 DEF Escaped, n
<1> DEFINE u == Append(Escaped(s), EscapeByte(b))
<1>5. /\ u \in Seq(Seq(Bytes)) /\ Len(u) = n + 1
      /\ \A i \in 1..n + 1 : u[i] = IF i = n + 1 THEN EscapeByte(b) ELSE Escaped(s)[i]
  BY <1>1, <1>2
<1> HIDE DEF u
<1>6. Escaped(t) = u
  BY <1>3, <1>4, <1>5, SeqEqual
<1>7. FlattenSeq(Escaped(s)) \in Seq(Bytes)
  BY <1>2, FlattenType
<1>8. FlattenSeq(u) = FlattenSeq(Escaped(s)) \o EscapeByte(b)
  BY <1>2, <1>7, FlattenAppend DEF u
<1> QED BY <1>1, <1>6, <1>8, EscapeIs DEF t
-----------------------------------------------------------------------------
(***************************************************************************)
(* Writing. What is still to be written is the rest of it, and the packet  *)
(* that is being collected ends with the last byte taken.                  *)
(***************************************************************************)
WriteTypes ==
    /\ data \in Seq(Bytes) /\ writing \in Seq(Bytes)
    /\ buf \in Seq(Bytes) /\ Len(buf) <= PacketSize /\ sendNow \in BOOLEAN
    /\ wire \in Seq(Seq(Bytes))

Rest ==
    /\ Len(data) <= Len(writing)
    /\ \A i \in 1..Len(data) : data[i] = writing[Len(writing) - Len(data) + i]

Piece(p, s) == \E k \in 1..Len(s) + 1, l \in 0..Len(s) : p = Escape(SubSeq(s, k, l))
Packets(ps, p, s) ==
    /\ FlattenSeq(ps) \o p = Escape(s)
    /\ \A i \in 1..Len(ps) : Len(ps[i]) <= PacketSize /\ Piece(ps[i], s)
    /\ \E k \in 1..Len(s) + 1 : p = Escape(SubSeq(s, k, Len(s)))

WInv == WriteTypes /\ Rest /\ Packets(wire, buf, Put)

LEMMA EmptyPackets == Packets(<<>>, <<>>, <<>>)
<1>1. FlattenSeq(<<>>) \o <<>> = Escape(<<>>)
  BY FlattenEmpty, EscapeEmpty
<1>2. 1 \in 1..Len(<<>>) + 1 /\ SubSeq(<<>>, 1, Len(<<>>)) = <<>>
  OBVIOUS
<1>3. <<>> = Escape(SubSeq(<<>>, 1, Len(<<>>)))
  BY <1>2, EscapeEmpty
<1>4. \E k \in 1..Len(<<>>) + 1 : <<>> = Escape(SubSeq(<<>>, k, Len(<<>>)))
  BY <1>2, <1>3
<1>5. \A i \in 1..Len(<<>>) : Len(<<>>[i]) <= PacketSize /\ Piece(<<>>[i], <<>>)
  OBVIOUS
<1> QED BY <1>1, <1>4, <1>5 DEF Packets

(* Nothing is written yet                                                  *)
LEMMA EmptyInv ==
    ASSUME wire' = <<>>, buf' = <<>>, data' = writing', writing' \in Seq(Bytes), sendNow' \in BOOLEAN
    PROVE  WInv'
<1>1. Len(writing') \in Nat /\ Put' = SubSeq(writing', 1, Len(writing') - Len(writing'))
  BY DEF Put
<1>2. Put' = <<>>
  BY <1>1
<1>3. <<>> \in Seq(Bytes) /\ <<>> \in Seq(Seq(Bytes)) /\ Len(<<>>) = 0
  OBVIOUS
<1>5. Rest'
  BY DEF Rest
<1>6. PacketSize >= 0
  BY TelnetAssumption
<1>7. WriteTypes'
  BY <1>3, <1>6 DEF WriteTypes
<1> QED BY <1>2, <1>5, <1>7, EmptyPackets DEF WInv

LEMMA PutIs ==
    ASSUME WriteTypes, Rest
    PROVE  /\ Put \in Seq(Bytes) /\ Len(Put) = Len(writing) - Len(data)
           /\ \A i \in 1..Len(Put) : Put[i] = writing[i]
<1> DEFINE n == Len(writing) - Len(data)
<1>1. writing \in Seq(Bytes) /\ n \in Nat /\ n <= Len(writing)
  BY DEF WriteTypes, Rest
<1>2. Put = SubSeq(writing, 1, n)
  BY DEF Put
<1> HIDE DEF n
<1>3. /\ SubSeq(writing, 1, n) \in Seq(Bytes) /\ Len(SubSeq(writing, 1, n)) = n
      /\ \A i \in 1..n : SubSeq(writing, 1, n)[i] = writing[i]
  BY <1>1
<1> QED BY <1>2, <1>3 DEF n

LEMMA AppendIs ==
    ASSUME NEW T, NEW s \in Seq(T), NEW e \in T
    PROVE  Append(s, e) \in Seq(T) /\ Len(Append(s, e)) = Len(s) + 1
OBVIOUS

LEMMA SubSeqIs ==
    ASSUME NEW T, NEW s \in Seq(T), NEW k \in 1..Len(s) + 1, NEW l \in 0..Len(s)
    PROVE  /\ SubSeq(s, k, l) \in Seq(T)
           /\ Len(SubSeq(s, k, l)) = IF k <= l THEN l - k + 1 ELSE 0
           /\ \A i \in 1..Len(SubSeq(s, k, l)) : SubSeq(s, k, l)[i] = s[k + i - 1]
OBVIOUS

(* One more byte                                                           *)
LEMMA SubSeqAppend ==
    ASSUME NEW T, NEW s \in Seq(T), NEW b \in T, NEW k \in 1..Len(s) + 1, NEW l \in 0..Len(s)
    PROVE  /\ SubSeq(Append(s, b), k, l) = SubSeq(s, k, l)
           /\ SubSeq(Append(s, b), k, Len(s) + 1) = Append(SubSeq(s, k, Len(s)), b)
<1> DEFINE t == Append(s, b)
           n == Len(s)
<1>1. t \in Seq(T) /\ n \in Nat /\ Len(t) = n + 1 /\ t[n + 1] = b /\ \A i \in 1..n : t[i] = s[i]
  OBVIOUS
<1> HIDE DEF t
<1>2. k \in 1..Len(t) + 1 /\ l \in 0..Len(t) /\ n \in 0..n /\ n + 1 \in 0..Len(t)
  BY <1>1
<1>3. SubSeq(t, k, l) = SubSeq(s, k, l)
  <2> DEFINE x == SubSeq(t, k, l)
             y == SubSeq(s, k, l)
  <2>1. /\ x \in Seq(T) /\ Len(x) = (IF k <= l THEN l - k + 1 ELSE 0)
        /\ \A i \in 1..Len(x) : x[i] = t[k + i - 1]
    BY <1>1, <1>2, SubSeqIs
  <2>2. /\ y \in Seq(T) /\ Len(y) = (IF k <= l THEN l - k + 1 ELSE 0)
        /\ \A i \in 1..Len(y) : y[i] = s[k + i - 1]
    BY SubSeqIs
  <2> HIDE DEF x, y
  <2>3. \A i \in 1..Len(x) : k + i - 1 \in 1..n
    BY <2>1
  <2>4. x = y
    BY <1>1, <2>1, <2>2, <2>3, SeqEqual
  <2> QED BY <2>4 DEF x, y
<1>4. SubSeq(t, k, n + 1) = Append(SubSeq(s, k, n), b)
  <2> DEFINE x == SubSeq(t, k, n + 1)
             z == SubSeq(s, k, n)
             y == Append(z, b)
  <2>1. /\ x \in Seq(T) /\ Len(x) = n + 1 - k + 1
        /\ \A i \in 1..Len(x) : x[i] = t[k + i - 1]
    BY <1>1, <1>2, SubSeqIs
  <2>2. /\ z \in Seq(T) /\ Len(z) = n - k + 1
        /\ \A i \in 1..Len(z) : z[i] = s[k + i - 1]
    BY <1>2, SubSeqIs
  <2> HIDE DEF x, z
  <2>3. /\ y \in Seq(T) /\ Len(y) = Len(z) + 1
        /\ \A i \in 1..Len(z) + 1 : y[i] = IF i = Len(z) + 1 THEN b ELSE z[i]
    BY <2>2
  <2> HIDE DEF y
  <2>4. ASSUME NEW i \in 1..Len(x) PROVE x[i] = y[i]
    <3>0. n \in Nat /\ Len(z) = n - k + 1 /\ Len(z) \in Nat /\ i \in 1..Len(z) + 1 /\ k \in Int
      BY <1>1, <2>1, <2>2
    <3>1. CASE i = Len(z) + 1
      <4>1. k + i - 1 = n + 1
        BY <3>0, <3>1
      <4> QED BY <1>1, <2>1, <2>3, <3>0, <3>1, <4>1
    <3>2. CASE i # Len(z) + 1
      <4>1. i \in 1..Len(z) /\ k + i - 1 \in 1..n
        BY <3>0, <3>2
      <4>2. x[i] = t[k + i - 1] /\ t[k + i - 1] = s[k + i - 1]
        BY <1>1, <2>1, <4>1
      <4>3. y[i] = z[i] /\ z[i] = s[k + i - 1]
        BY <2>2, <2>3, <3>0, <3>2, <4>1
      <4> QED BY <4>2, <4>3
    <3> QED BY <3>1, <3>2
  <2>5. x = y
    <3>1. Len(x) = Len(y)
      BY <1>1, <2>1, <2>2, <2>3
    <3> QED BY <2>1, <2>3, <2>4, <3>1, SeqEqual
  <2> QED BY <2>5 DEF x, y, z
<1> QED BY <1>3, <1>4 DEF t

LEMMA MorePiece ==
    ASSUME NEW s \in Seq(Bytes), NEW b \in Bytes, NEW p, Piece(p, s)
    PROVE  Piece(p, Append(s, b))
<1>1. PICK k \in 1..Len(s) + 1, l \in 0..Len(s) : p = Escape(SubSeq(s, k, l))
  BY DEF Piece
<1>2. k \in 1..Len(Append(s, b)) + 1 /\ l \in 0..Len(Append(s, b))
  OBVIOUS
<1>3. SubSeq(Append(s, b), k, l) = SubSeq(s, k, l)
  BY SubSeqAppend
<1> QED BY <1>1, <1>2, <1>3 DEF Piece

LEMMA FillInv == ASSUME WInv, Fill PROVE WInv'
<1>1. UNCHANGED <<wire, writing>> /\ data # <<>> /\ ~SendDue
  BY DEF Fill
<1>2. CASE sendNow' = TRUE /\ UNCHANGED <<data, buf>>
  BY <1>1, <1>2 DEF WInv, WriteTypes, Rest, Put
<1>3. CASE /\ data' = Tail(data) /\ buf' = buf \o EscapeByte(Head(data)) /\ sendNow' = FALSE
           /\ ~(Head(data) = "IAC" /\ Len(buf) >= PacketSize - 1)
  <2> DEFINE b == Head(data)
             n == Len(Put)
             m == Len(data)
  <2>1. /\ data \in Seq(Bytes) /\ buf \in Seq(Bytes) /\ writing \in Seq(Bytes) /\ wire \in Seq(Seq(Bytes))
        /\ Len(buf) < PacketSize /\ PacketSize \in Nat
    BY <1>1, TelnetAssumption DEF WInv, WriteTypes, SendDue
  <2>2. /\ Put \in Seq(Bytes) /\ n \in Nat /\ n = Len(writing) - m /\ m \in Nat
        /\ \A i \in 1..n : Put[i] = writing[i]
    BY <2>1, PutIs DEF WInv
  <2>3. /\ b \in Bytes /\ m > 0 /\ b = data[1] /\ Tail(data) \in Seq(Bytes) /\ Len(Tail(data)) = m - 1
        /\ \A i \in 1..m - 1 : Tail(data)[i] = data[i + 1]
    BY <1>1, <2>1
  <2>4. \A i \in 1..m : data[i] = writing[n + i]
    BY <2>2 DEF WInv, Rest
  <2>5. b = writing[n + 1]
    BY <2>2, <2>3, <2>4
  <2> HIDE DEF b, n, m
  <2>6. /\ EscapeByte(b) \in Seq(Bytes) /\ buf' \in Seq(Bytes) /\ Len(buf') = Len(buf) + Len(EscapeByte(b))
        /\ Len(buf') <= PacketSize
    <3> DEFINE e == EscapeByte(b)
    <3>1. /\ e \in Seq(Bytes) /\ Len(e) \in {1, 2} /\ (Len(e) = 2 => b = "IAC")
          /\ buf' = buf \o e /\ (b = "IAC" => Len(buf) < PacketSize - 1)
      <4>1. b \in Bytes /\ buf' = buf \o EscapeByte(b)
        BY <1>3, <2>3 DEF b
      <4>2. e \in Seq(Bytes) /\ (b = "IAC" => Len(e) = 2) /\ (b # "IAC" => Len(e) = 1)
        BY <2>3, EscapeByteIs
      <4>3. b = "IAC" => Len(buf) < PacketSize - 1
        BY <1>3, <2>1 DEF b
      <4> HIDE DEF e
      <4>4. buf' = buf \o e
        BY <4>1 DEF e
      <4>5. CASE b = "IAC"
        <5>1. Len(e) = 2
          BY <4>2, <4>5
        <5>2. Len(e) \in {1, 2}
          BY <5>1
        <5> QED BY <4>2, <4>3, <4>4, <4>5, <5>2
      <4>6. CASE b # "IAC"
        <5>1. Len(e) = 1
          BY <4>2, <4>6
        <5>2. Len(e) \in {1, 2} /\ Len(e) # 2
          BY <5>1
        <5> QED BY <4>2, <4>3, <4>4, <4>6, <5>2
      <4> QED BY <4>5, <4>6
    <3> HIDE DEF e
    <3>2. buf \o e \in Seq(Bytes) /\ Len(buf \o e) = Len(buf) + Len(e)
      BY <2>1, <3>1
    <3>3. Len(buf) + Len(e) <= PacketSize
      <4> DEFINE k == Len(buf)
                 d == Len(e)
      <4>1. d \in 1..2 /\ (d = 2 => k < PacketSize - 1)
        BY <3>1
      <4>2. k \in Nat /\ k < PacketSize /\ PacketSize \in Nat
        BY <2>1
      <4>3. k + d <= PacketSize
        <5> HIDE DEF k, d
        <5> QED BY <4>1, <4>2
      <4> QED BY <4>3
    <3>4. e \in Seq(Bytes) /\ buf' \in Seq(Bytes) /\ Len(buf') = Len(buf) + Len(e) /\ Len(buf') <= PacketSize
      BY <3>1, <3>2, <3>3
    <3> QED BY <3>4 DEF e
  <2>7. WriteTypes'
    BY <1>1, <1>3, <2>1, <2>3, <2>6 DEF WriteTypes
  <2>8. Rest'
    <3> DEFINE w == Len(writing)
               r == Tail(data)
    <3>0. w \in Nat /\ n = w - m /\ Len(r) = m - 1 /\ m \in Nat /\ n \in Nat
      BY <2>1, <2>2, <2>3
    <3> HIDE DEF w, r
    <3>1. \A i \in 1..m - 1 : i + 1 \in 1..m /\ n + (i + 1) = w - (m - 1) + i
      BY <3>0
    <3>2. \A i \in 1..Len(r) : r[i] = writing[w - Len(r) + i]
      <4> TAKE i \in 1..Len(r)
      <4>1. i \in 1..m - 1
        BY <3>0
      <4>2. r[i] = data[i + 1]
        BY <2>3, <4>1 DEF r
      <4>3. data[i + 1] = writing[n + (i + 1)]
        BY <2>4, <3>1, <4>1
      <4> QED BY <3>0, <3>1, <4>1, <4>2, <4>3
    <3>3. Len(r) <= w
      BY <3>0
    <3>4. data' = r /\ writing' = writing
      BY <1>1, <1>3 DEF r
    <3> QED BY <3>2, <3>3, <3>4 DEF Rest, w
  <2>9. Put' = Append(Put, b)
    <3>1. /\ Put' \in Seq(Bytes) /\ Len(Put') = n + 1
          /\ \A i \in 1..n + 1 : Put'[i] = writing[i]
      <4> DEFINE k == n + 1
      <4>1. Put' = SubSeq(writing, 1, k)
        <5>1. data' = Tail(data) /\ writing' = writing
          BY <1>1, <1>3
        <5>2. Len(writing) - Len(Tail(data)) = k
          BY <2>1, <2>2, <2>3 DEF m
        <5>3. Put' = SubSeq(writing', 1, Len(writing') - Len(data'))
          BY DEF Put
        <5> HIDE DEF k
        <5> QED BY <5>1, <5>2, <5>3
      <4>2. k \in 0..Len(writing)
        BY <2>2, <2>3
      <4> HIDE DEF k
      <4>3. /\ SubSeq(writing, 1, k) \in Seq(Bytes) /\ Len(SubSeq(writing, 1, k)) = k
            /\ \A i \in 1..k : SubSeq(writing, 1, k)[i] = writing[i]
        BY <2>1, <4>2
      <4> QED BY <4>1, <4>3 DEF k
    <3>2. /\ Append(Put, b) \in Seq(Bytes) /\ Len(Append(Put, b)) = n + 1
          /\ \A i \in 1..n + 1 : Append(Put, b)[i] = IF i = n + 1 THEN b ELSE Put[i]
      BY <2>2, <2>3 DEF n
    <3>3. \A i \in 1..n + 1 : Put'[i] = Append(Put, b)[i]
      BY <2>2, <2>5, <3>1, <3>2
    <3> QED BY <3>1, <3>2, <3>3, SeqEqual
  <2>10. Packets(wire, buf', Append(Put, b))
    <3> DEFINE F == FlattenSeq(wire)
               t == Append(Put, b)
    <3>1. F \o buf = Escape(Put) /\ F \in Seq(Bytes) /\ Escape(Put) \in Seq(Bytes)
      BY <2>1, <2>2, FlattenType, EscapeIs DEF WInv, Packets
    <3>2. Escape(t) = Escape(Put) \o EscapeByte(b)
      BY <2>2, <2>3, EscapeAppend
    <3>3. F \o buf' = (F \o buf) \o EscapeByte(b)
      <4>1. buf' = buf \o EscapeByte(b)
        BY <1>3 DEF b
      <4>2. F \in Seq(Bytes) /\ buf \in Seq(Bytes) /\ EscapeByte(b) \in Seq(Bytes)
        BY <2>1, <2>6, <3>1
      <4> HIDE DEF F, t
      <4>3. (F \o buf) \o EscapeByte(b) = F \o (buf \o EscapeByte(b))
        BY <4>2, ConcatAssociative
      <4> QED BY <4>1, <4>3
    <3>4. \A i \in 1..Len(wire) : Len(wire[i]) <= PacketSize /\ Piece(wire[i], t)
      BY <2>2, <2>3, MorePiece DEF WInv, Packets
    <3>5. PICK k \in 1..n + 1 : buf = Escape(SubSeq(Put, k, n))
      BY DEF WInv, Packets, n
    <3>6. SubSeq(t, k, n + 1) = Append(SubSeq(Put, k, n), b) /\ SubSeq(Put, k, n) \in Seq(Bytes)
      <4>1. k \in 1..Len(Put) + 1 /\ n \in 0..Len(Put) /\ n = Len(Put)
        BY <2>2 DEF n
      <4>2. SubSeq(Append(Put, b), k, Len(Put) + 1) = Append(SubSeq(Put, k, Len(Put)), b)
        BY <2>2, <2>3, <4>1, SubSeqAppend
      <4>3. SubSeq(Put, k, Len(Put)) \in Seq(Bytes)
        BY <2>2, <4>1, SubSeqIs
      <4> QED BY <4>1, <4>2, <4>3
    <3>7. buf' = Escape(SubSeq(t, k, n + 1))
      BY <1>3, <2>3, <3>5, <3>6, EscapeAppend DEF b
    <3>8. Len(t) = n + 1 /\ k \in 1..(n + 1) + 1
      <4>1. Len(Append(Put, b)) = Len(Put) + 1
        BY <2>2, <2>3
      <4>2. Len(t) = n + 1
        BY <4>1 DEF n
      <4> HIDE DEF t
      <4> QED BY <2>2, <4>2
    <3> HIDE DEF t, F
    <3>9. \E j \in 1..Len(t) + 1 : buf' = Escape(SubSeq(t, j, Len(t)))
      BY <3>7, <3>8
    <3> QED BY <3>1, <3>2, <3>3, <3>4, <3>9 DEF Packets, t, F
  <2> QED BY <1>1, <2>7, <2>8, <2>9, <2>10 DEF WInv
<1> QED BY <1>2, <1>3 DEF Fill

LEMMA SendInv == ASSUME WInv, Send PROVE WInv'
<1>1. /\ wire' = Append(wire, buf) /\ buf' = <<>> /\ sendNow' = FALSE /\ UNCHANGED <<data, writing>>
      /\ Put' = Put
  BY DEF Send, Put
<1>2. /\ wire \in Seq(Seq(Bytes)) /\ buf \in Seq(Bytes) /\ Put \in Seq(Bytes) /\ FlattenSeq(wire) \in Seq(Bytes)
      /\ Len(buf) <= PacketSize
  BY PutIs, FlattenType DEF WInv, WriteTypes
<1>3. WriteTypes' /\ Rest'
  <2>1. Append(wire, buf) \in Seq(Seq(Bytes)) /\ <<>> \in Seq(Bytes) /\ Len(<<>>) <= PacketSize
    BY <1>2, TelnetAssumption
  <2> QED BY <1>1, <2>1 DEF WInv, WriteTypes, Rest
<1>4. FlattenSeq(wire') \o buf' = Escape(Put)
  <2>1. FlattenSeq(wire') = FlattenSeq(wire) \o buf
    BY <1>1, <1>2, FlattenAppend
  <2>2. FlattenSeq(wire) \o buf = Escape(Put) /\ Escape(Put) \in Seq(Bytes)
    BY <1>2, EscapeIs DEF WInv, Packets
  <2> QED BY <1>1, <2>1, <2>2
<1>5. Piece(buf, Put)
  <2>1. PICK k \in 1..Len(Put) + 1 : buf = Escape(SubSeq(Put, k, Len(Put)))
    BY DEF WInv, Packets
  <2>2. Len(Put) \in 0..Len(Put)
    BY <1>2
  <2> QED BY <2>1, <2>2 DEF Piece
<1>6. \A i \in 1..Len(wire') : Len(wire'[i]) <= PacketSize /\ Piece(wire'[i], Put)
  <2>1. \A i \in 1..Len(wire) : Len(wire[i]) <= PacketSize /\ Piece(wire[i], Put)
    BY DEF WInv, Packets
  <2>2. \A i \in 1..Len(wire') : wire'[i] = buf \/ (i \in 1..Len(wire) /\ wire'[i] = wire[i])
    BY <1>1, <1>2
  <2> QED BY <1>2, <1>5, <2>1, <2>2
<1>7. \E k \in 1..Len(Put) + 1 : buf' = Escape(SubSeq(Put, k, Len(Put)))
  <2>1. Len(Put) + 1 \in 1..Len(Put) + 1 /\ SubSeq(Put, Len(Put) + 1, Len(Put)) = <<>>
    BY <1>2
  <2> QED BY <1>1, <2>1, EscapeEmpty
<1> QED BY <1>1, <1>3, <1>4, <1>6, <1>7 DEF WInv, Packets

LEMMA WriteInv == ASSUME WInv, Write \/ SendFails \/ Read PROVE WInv'
<1>1. CASE Write
  <2>1. wire' = <<>> /\ buf' = <<>> /\ data' = writing' /\ writing' \in Seq(Bytes) /\ sendNow' = sendNow
    BY <1>1, TelnetAssumption DEF Write, Idle
  <2> QED BY <2>1, EmptyInv DEF WInv, WriteTypes
<1>2. CASE SendFails
  <2>1. wire' = <<>> /\ buf' = <<>> /\ data' = writing' /\ writing' = <<>> /\ sendNow' = FALSE
    BY <1>2 DEF SendFails
  <2>2. <<>> \in Seq(Bytes)
    OBVIOUS
  <2>3. writing' \in Seq(Bytes)
    BY <2>1, <2>2, Zenon
  <2>4. sendNow' \in BOOLEAN
    BY <2>1
  <2> QED BY <2>1, <2>3, <2>4, EmptyInv, Zenon
<1>3. CASE Read
  <2>1. wire' = <<>> /\ buf' = <<>> /\ data' = <<>> /\ writing' = <<>> /\ sendNow' = sendNow
    BY <1>3 DEF Read, Idle
  <2>2. <<>> \in Seq(Bytes) /\ sendNow \in BOOLEAN
    BY DEF WInv, WriteTypes
  <2>3. writing' \in Seq(Bytes) /\ sendNow' \in BOOLEAN
    BY <2>1, <2>2, Zenon
  <2> QED BY <2>1, <2>3, EmptyInv, Zenon
<1> QED BY <1>1, <1>2, <1>3

LEMMA WriteStep == ASSUME WInv, [TelnetNext]_telnetVars PROVE WInv'
<1>1. CASE Open \/ Process \/ NegotiationRead \/ ReadReturns \/ Close \/ UNCHANGED telnetVars
  <2>1. UNCHANGED writeVars
    BY <1>1 DEF Open, Process, NegotiationRead, ReadReturns, Close, telnetVars
  <2> QED BY <2>1 DEF writeVars, WInv, WriteTypes, Rest, Put
<1> QED BY <1>1, FillInv, SendInv, WriteInv DEF TelnetNext

LEMMA WriteInvariance == TelnetSpec => []WInv
<1>1. ASSUME TelnetInit PROVE WInv
  <2>1. wire = <<>> /\ buf = <<>> /\ data = <<>> /\ writing = <<>> /\ sendNow = FALSE
    BY <1>1 DEF TelnetInit
  <2>2. <<>> \in Seq(Bytes) /\ <<>> \in Seq(Seq(Bytes)) /\ Len(<<>>) = 0
    OBVIOUS
  <2>3. Len(<<>>) <= PacketSize /\ FALSE \in BOOLEAN
    BY <2>2, TelnetAssumption
  <2>4. WriteTypes
    BY <2>1, <2>2, <2>3, Zenon DEF WriteTypes
  <2>5. Rest
    BY <2>1 DEF Rest
  <2>6. Put = <<>>
    BY <2>1 DEF Put
  <2> QED BY <2>1, <2>4, <2>5, <2>6, EmptyPackets DEF WInv
<1>2. WInv /\ [TelnetNext]_telnetVars => WInv'
  BY WriteStep
<1> QED BY <1>1, <1>2, PTL DEF TelnetSpec

(* What is written by _portWriteTelnet() is escaped exactly, also where a
   packet ends.                                                            *)
THEOREM WrittenExactly == TelnetSpec => []WireExact
<1>1. ASSUME WInv PROVE WireExact
  <2>1. FlattenSeq(wire) \o buf = Escape(Put)
    BY <1>1 DEF WInv, Packets
  <2>2. ASSUME NEW p \in {wire[i] : i \in DOMAIN wire} PROVE Len(p) <= PacketSize /\ Piece(p, Put)
    <3>1. DOMAIN wire = 1..Len(wire)
      BY <1>1 DEF WInv, WriteTypes
    <3> QED BY <1>1, <2>2, <3>1 DEF WInv, Packets
  <2>3. Len(buf) <= PacketSize /\ Piece(buf, Put)
    <3>1. Put \in Seq(Bytes) /\ Len(Put) \in 0..Len(Put)
      BY <1>1, PutIs DEF WInv
    <3> QED BY <1>1, <3>1 DEF WInv, WriteTypes, Packets, Piece
  <2> QED BY <2>1, <2>2, <2>3 DEF WireExact, Piece
<1> QED BY <1>1, WriteInvariance, PTL
-----------------------------------------------------------------------------
(***************************************************************************)
(* Reading                                                                 *)
(***************************************************************************)
LEMMA ItemIs ==
    ASSUME NEW s \in Streams, NEW i \in 1..Len(s)
    PROVE  IsItem(s[i]) /\ s[i].bytes \in Seq(Bytes)
<1>1. IsItem(s[i])
  BY ServerAssumption
<1>2. ASSUME NEW b \in Bytes, s[i] = Datum(b) PROVE s[i].bytes \in Seq(Bytes)
  BY <1>2, EscapeByteIs DEF Datum
<1>3. ASSUME NEW c \in Bytes, s[i] = Command(c) PROVE s[i].bytes \in Seq(Bytes)
  <2>1. <<"IAC", c>> \in Seq(Bytes)
    BY <1>3 DEF Bytes
  <2> QED BY <1>3, <2>1 DEF Command
<1>4. ASSUME NEW c \in Verbs, NEW o \in Bytes, s[i] = Says(c, o) PROVE s[i].bytes \in Seq(Bytes)
  <2>1. "IAC" \in Bytes /\ c \in Bytes
    BY <1>4 DEF Bytes, Verbs
  <2>2. <<"IAC", c, o>> \in Seq(Bytes)
    BY <2>1
  <2> QED BY <1>4, <2>2 DEF Says
<1>5. ASSUME NEW args \in Seq(Bytes), s[i] = Suboption(args) PROVE s[i].bytes \in Seq(Bytes)
  <2>1. <<"IAC", "SB">> \in Seq(Bytes) /\ <<"IAC", "SE">> \in Seq(Bytes)
    BY DEF Bytes
  <2>2. Escape(args) \in Seq(Bytes)
    BY EscapeIs
  <2>3. <<"IAC", "SB">> \o Escape(args) \o <<"IAC", "SE">> \in Seq(Bytes)
    BY <2>1, <2>2
  <2> QED BY <1>5, <2>3 DEF Suboption
<1> QED BY <1>1, <1>2, <1>3, <1>4, <1>5 DEF IsItem

LEMMA StreamIs ==
    ASSUME items \in Streams
    PROVE  /\ [i \in 1..Len(items) |-> items[i].bytes] \in Seq(Seq(Bytes))
           /\ Len(items) \in Nat /\ Stream \in Seq(Bytes)
<1> DEFINE f == [i \in 1..Len(items) |-> items[i].bytes]
<1>1. Len(items) \in Nat
  BY ServerAssumption
<1>2. \A i \in 1..Len(items) : items[i].bytes \in Seq(Bytes)
  BY ItemIs
<1>3. f \in Seq(Seq(Bytes))
  BY <1>1, <1>2, IsASeq
<1>4. FlattenSeq(f) \in Seq(Bytes)
  <2> HIDE DEF f
  <2> QED BY <1>3, FlattenType
<1> QED BY <1>1, <1>3, <1>4 DEF Stream

(* tnInband is never empty when its last byte is read                      *)
Buffered ==
    /\ tnState = "COMMAND" => Len(inband) = 1 /\ overflow = 0
    /\ tnState = "SUBOPTION" /\ overflow = 0 => inband # <<>>
RInv == items \in Streams /\ TelnetTypeOK /\ Buffered

LEMMA ProcessInv == ASSUME RInv, Process PROVE RInv'
<1> DEFINE b == Stream[taken + 1]
<1>1. /\ inRead /\ nIn > 0 /\ nIn' = nIn - 1 /\ taken' = taken + 1
      /\ UNCHANGED <<items, phase, inRead, got, start, writeVars>>
      /\ Normal(b) \/ AfterIac(b) \/ OptionCode(b) \/ Skip(b) \/ Collect(b) \/ IgnoreSecond(b)
  BY DEF Process
<1>2. b \in Bytes
  <2>1. Stream \in Seq(Bytes) /\ taken + 1 \in 1..Len(Stream)
    BY <1>1, StreamIs DEF RInv, TelnetTypeOK
  <2> QED BY <2>1
<1>3. /\ tnState \in {"NORMAL", "IAC", "COMMAND", "SUBOPTION"}
      /\ inband \in Seq(Bytes) /\ Len(inband) <= InbandSize /\ overflow \in {0, -1, -2}
      /\ agree \in [Options -> BOOLEAN] /\ out \in Seq(Bytes) /\ Buffered
      /\ InbandSize \in Nat /\ InbandSize >= 3
  BY TelnetAssumption DEF RInv, TelnetTypeOK
<1> HIDE DEF b
<1> DEFINE Now == /\ tnState' \in {"NORMAL", "IAC", "COMMAND", "SUBOPTION"}
                  /\ inband' \in Seq(Bytes) /\ Len(inband') <= InbandSize /\ overflow' \in {0, -1, -2}
                  /\ agree' \in [Options -> BOOLEAN] /\ out' \in Seq(Bytes) /\ Buffered'
<1>4. ASSUME Normal(b) PROVE Now
  BY <1>2, <1>3, <1>4 DEF Normal, Buffered
<1>5. ASSUME AfterIac(b) PROVE Now
  <2>1. /\ tnState' \in {"NORMAL", "COMMAND", "SUBOPTION"} /\ agree' = agree
        /\ out' = out \/ out' = Append(out, b)
        /\ (tnState' = "NORMAL" /\ inband' = inband /\ overflow' = overflow) \/ (inband' = <<b>> /\ overflow' = 0)
    BY <1>5 DEF AfterIac
  <2>2. out' \in Seq(Bytes)
    BY <1>2, <1>3, <2>1
  <2>3. <<b>> \in Seq(Bytes) /\ Len(<<b>>) = 1 /\ <<b>> # <<>>
    BY <1>2
  <2>4. CASE tnState' = "NORMAL" /\ inband' = inband /\ overflow' = overflow
    BY <1>3, <2>1, <2>2, <2>4 DEF Buffered
  <2>5. CASE inband' = <<b>> /\ overflow' = 0
    <3>1. inband' \in Seq(Bytes) /\ Len(inband') = 1 /\ inband' # <<>>
      BY <2>3, <2>5, Zenon
    <3> QED BY <1>3, <2>1, <2>2, <2>5, <3>1 DEF Buffered
  <2> QED BY <2>1, <2>4, <2>5
<1>6. ASSUME OptionCode(b) PROVE Now
  <2>1. /\ tnState = "COMMAND" /\ inband' = Append(inband, b) /\ tnState' = "NORMAL"
        /\ out' = out /\ overflow' = overflow /\ (agree' = agree \/ agree' = Negotiated(inband[1], b))
    BY <1>6 DEF OptionCode
  <2>2. inband' \in Seq(Bytes) /\ Len(inband') = 2
    <3>1. Len(inband) = 1
      BY <1>3, <2>1 DEF Buffered
    <3>2. Append(inband, b) \in Seq(Bytes) /\ Len(Append(inband, b)) = 2
      <4>1. inband \in Seq(Bytes)
        BY <1>3
      <4>2. Append(inband, b) \in Seq(Bytes) /\ Len(Append(inband, b)) = Len(inband) + 1
        BY <1>2, <4>1, AppendIs
      <4> QED BY <3>1, <4>2
    <3> QED BY <2>1, <3>2
  <2>3. agree' \in [Options -> BOOLEAN]
    <3>1. Negotiated(inband[1], b) \in [Options -> BOOLEAN]
      <4>1. ASSUME NEW o \in Options
            PROVE  (IF o[2] = b /\ <<inband[1], o[1]>> \in Agreeing \cup Refusing
                    THEN <<inband[1], o[1]>> \in Agreeing ELSE agree[o]) \in BOOLEAN
        <5>1. agree[o] \in BOOLEAN
          BY <1>3
        <5>2. (<<inband[1], o[1]>> \in Agreeing) \in BOOLEAN
          OBVIOUS
        <5> QED BY <5>1, <5>2, Zenon
      <4> QED BY <4>1, Zenon DEF Negotiated
    <3> QED BY <1>3, <2>1, <3>1
  <2> QED BY <1>3, <2>1, <2>2, <2>3 DEF Buffered
<1>7. ASSUME Skip(b) PROVE Now
  <2>1. inband' = <<>> /\ overflow' \in {-1, -2} /\ tnState' \in {"NORMAL", "SUBOPTION"} /\ UNCHANGED <<out, agree>>
    BY <1>7 DEF Skip
  <2>2. <<>> \in Seq(Bytes) /\ Len(<<>>) = 0
    OBVIOUS
  <2>3. inband' \in Seq(Bytes) /\ Len(inband') = 0
    BY <2>1, <2>2, Zenon
  <2> QED BY <1>3, <2>1, <2>3 DEF Buffered
<1>8. ASSUME Collect(b) PROVE Now
  <2>1. /\ tnState = "SUBOPTION" /\ overflow = 0 /\ Len(inband) # InbandSize /\ inband # <<>>
        /\ UNCHANGED <<overflow, out, agree>>
        /\ \/ tnState' = "NORMAL" /\ inband' = Front(inband)
           \/ tnState' = tnState /\ inband' = Append(inband, b)
    BY <1>3, <1>8 DEF Collect, TooMuch, Buffered
  <2>2. CASE tnState' = "NORMAL" /\ inband' = Front(inband)
    <3>1. Front(inband) \in Seq(Bytes) /\ Len(Front(inband)) = Len(inband) - 1
      <4>1. Front(inband) = SubSeq(inband, 1, Len(inband) - 1)
        BY DEF Front
      <4>2. Len(inband) \in Nat \ {0}
        BY <1>3, <2>1
      <4>3. inband \in Seq(Bytes) /\ 1 \in 1..Len(inband) + 1 /\ Len(inband) - 1 \in 0..Len(inband)
        BY <1>3, <4>2
      <4> DEFINE n == Len(inband) - 1
      <4>4. /\ SubSeq(inband, 1, n) \in Seq(Bytes)
            /\ Len(SubSeq(inband, 1, n)) = IF 1 <= n THEN n - 1 + 1 ELSE 0
        <5>1. n \in 0..Len(inband)
          BY <4>3
        <5> HIDE DEF n
        <5> QED BY <4>3, <5>1, SubSeqIs
      <4>5. (IF 1 <= n THEN n - 1 + 1 ELSE 0) = n
        <5>1. \A k \in Nat \ {0} : (IF 1 <= k - 1 THEN (k - 1) - 1 + 1 ELSE 0) = k - 1
          OBVIOUS
        <5> QED BY <4>2, <5>1
      <4> QED BY <4>1, <4>4, <4>5, Zenon
    <3> QED BY <1>3, <2>1, <2>2, <3>1 DEF Buffered
  <2>3. CASE tnState' = tnState /\ inband' = Append(inband, b)
    <3>1. inband' \in Seq(Bytes) /\ Len(inband') = Len(inband) + 1 /\ inband' # <<>>
      BY <1>2, <1>3, <2>3
    <3> QED BY <1>3, <2>1, <2>3, <3>1 DEF Buffered
  <2> QED BY <2>1, <2>2, <2>3
<1>9. ASSUME IgnoreSecond(b) PROVE Now
  BY <1>3, <1>9 DEF IgnoreSecond, Buffered
<1>10. Now
  BY <1>1, <1>4, <1>5, <1>6, <1>7, <1>8, <1>9
<1>11. taken' \in Nat /\ nIn' \in 0..ReadSize /\ taken' + nIn' <= Len(Stream')
  BY <1>1, TelnetAssumption DEF RInv, TelnetTypeOK, Stream
<1> QED BY <1>1, <1>10, <1>11 DEF RInv, TelnetTypeOK, writeVars

LEMMA ReadInv == ASSUME RInv, TelnetNext, WInv', ~Process PROVE RInv'
<1>1. RInv /\ TelnetTypeOK /\ Buffered
  BY DEF RInv
<1>2. WriteTypes'
  BY DEF WInv
<1>3. CASE Open \/ Close
  BY <1>1, <1>3 DEF Open, Close, readVars, writeVars, RInv, TelnetTypeOK, Buffered, Stream
<1>4. CASE Read
  <2>1. <<>> \in Seq(Bytes)
    OBVIOUS
  <2>2. out' \in Seq(Bytes)
    BY <1>4, <2>1, Zenon DEF Read
  <2>3. nIn' \in 0..ReadSize /\ taken' + nIn' <= Len(Stream')
    BY <1>1, <1>4, TelnetAssumption DEF Read, TelnetTypeOK, Stream
  <2> QED BY <1>1, <1>2, <1>4, <2>2, <2>3 DEF Read, RInv, TelnetTypeOK, Buffered, WriteTypes
<1>5. CASE NegotiationRead
  BY <1>1, <1>5 DEF NegotiationRead, writeVars, RInv, TelnetTypeOK, Buffered, Stream
<1>6. CASE ReadReturns
  <2>1. got' \in Seq(Bytes)
    BY <1>1, <1>6 DEF ReadReturns, TelnetTypeOK
  <2> QED BY <1>1, <1>6, <2>1 DEF ReadReturns, writeVars, RInv, TelnetTypeOK, Buffered, Stream
<1>7. CASE Write \/ Fill \/ Send \/ SendFails
  <2>1. UNCHANGED <<items, phase, readVars>>
    BY <1>7 DEF Write, Fill, Send, SendFails
  <2> QED BY <1>1, <1>2, <2>1 DEF readVars, RInv, TelnetTypeOK, Buffered, WriteTypes, Stream
<1> QED BY <1>3, <1>4, <1>5, <1>6, <1>7 DEF TelnetNext

LEMMA ReadInvariance == TelnetSpec => []RInv
<1>1. ASSUME TelnetInit PROVE RInv
  <2>1. /\ items \in Streams /\ inRead = FALSE /\ phase = "closed" /\ taken = 0 /\ nIn = 0 /\ start = 0
        /\ tnState = "NORMAL" /\ overflow = 0 /\ agree = [o \in Options |-> FALSE]
    BY <1>1 DEF TelnetInit
  <2>2. <<>> \in Seq(Bytes) /\ <<>> \in Seq(Seq(Bytes)) /\ Len(<<>>) = 0
    OBVIOUS
  <2>3. /\ inband \in Seq(Bytes) /\ out \in Seq(Bytes) /\ got \in Seq(Bytes) /\ Len(inband) = 0
        /\ data \in Seq(Bytes) /\ writing \in Seq(Bytes) /\ buf \in Seq(Bytes) /\ Len(buf) = 0
        /\ wire \in Seq(Seq(Bytes)) /\ sendNow \in BOOLEAN
    BY <1>1, <2>2, Zenon DEF TelnetInit
  <2>6. taken + nIn <= Len(Stream)
    <3>1. Stream \in Seq(Bytes)
      BY <2>1, StreamIs
    <3> QED BY <2>1, <3>1
  <2>5. agree \in [Options -> BOOLEAN]
    BY <2>1
  <2>7. nIn \in 0..ReadSize /\ Len(inband) <= InbandSize /\ Len(buf) <= PacketSize /\ overflow \in {0, -1, -2}
    BY <2>1, <2>3, TelnetAssumption
  <2>8. TelnetTypeOK
    BY <2>1, <2>3, <2>5, <2>6, <2>7 DEF TelnetTypeOK
  <2>9. Buffered
    BY <2>1 DEF Buffered
  <2> QED BY <2>1, <2>8, <2>9 DEF RInv
<1>2. ASSUME RInv, WInv', [TelnetNext]_telnetVars PROVE RInv'
  <2>1. CASE UNCHANGED telnetVars
    BY <1>2, <2>1 DEF telnetVars, readVars, writeVars, RInv, TelnetTypeOK, Buffered, Stream
  <2> QED BY <1>2, <2>1, ProcessInv, ReadInv
<1> QED BY <1>1, <1>2, WriteInvariance, PTL DEF TelnetSpec

(* The state has its type, and tnInband is never overrun.                  *)
THEOREM TelnetTypeCorrect == TelnetSpec => []TelnetTypeOK
<1>1. RInv => TelnetTypeOK
  BY DEF RInv
<1> QED BY <1>1, ReadInvariance, PTL
-----------------------------------------------------------------------------
(* The first i sequences of g, one after the other                         *)
Upto(g, i) == FlattenSeq([k \in 1..i |-> g[k]])

LEMMA UptoIs ==
    ASSUME NEW T, NEW g \in Seq(Seq(T)), NEW i \in 0..Len(g)
    PROVE  Upto(g, i) \in Seq(T) /\ Len(Upto(g, i)) \in Nat
<1> DEFINE f == [k \in 1..i |-> g[k]]
<1>1. i \in Nat /\ \A k \in 1..i : g[k] \in Seq(T)
  OBVIOUS
<1>2. f \in Seq(Seq(T))
  BY <1>1, IsASeq
<1> HIDE DEF f
<1>3. FlattenSeq(f) \in Seq(T)
  BY <1>2, FlattenType
<1> QED BY <1>3 DEF Upto, f

LEMMA UptoNone == ASSUME NEW g PROVE Upto(g, 0) = <<>>
<1>1. [k \in 1..0 |-> g[k]] = <<>>
  OBVIOUS
<1> QED BY <1>1, FlattenEmpty DEF Upto

LEMMA UptoNext ==
    ASSUME NEW T, NEW g \in Seq(Seq(T)), NEW i \in Nat, i < Len(g)
    PROVE  /\ Upto(g, i + 1) = Upto(g, i) \o g[i + 1]
           /\ g[i + 1] \in Seq(T) /\ Len(Upto(g, i + 1)) = Len(Upto(g, i)) + Len(g[i + 1])
<1> DEFINE f == [k \in 1..i |-> g[k]]
           h == [k \in 1..i + 1 |-> g[k]]
<1>1. i + 1 \in Nat /\ \A k \in 1..i + 1 : g[k] \in Seq(T)
  OBVIOUS
<1>2. f \in Seq(Seq(T)) /\ h \in Seq(Seq(T)) /\ Len(f) = i /\ Len(h) = i + 1
  <2>1. f \in Seq(Seq(T)) /\ h \in Seq(Seq(T))
    BY <1>1, IsASeq
  <2> QED BY <2>1
<1>3. g[i + 1] \in Seq(T)
  BY <1>1
<1>4. \A k \in 1..i + 1 : h[k] = IF k = i + 1 THEN g[i + 1] ELSE f[k]
  OBVIOUS
<1> HIDE DEF f, h
<1> DEFINE a == Append(f, g[i + 1])
<1>5. a \in Seq(Seq(T)) /\ Len(a) = i + 1 /\ \A k \in 1..i + 1 : a[k] = IF k = i + 1 THEN g[i + 1] ELSE f[k]
  BY <1>2, <1>3
<1> HIDE DEF a
<1>6. h = a
  BY <1>2, <1>4, <1>5, SeqEqual
<1>7. FlattenSeq(f) \in Seq(T)
  BY <1>2, FlattenType
<1>8. FlattenSeq(h) = FlattenSeq(f) \o g[i + 1]
  BY <1>2, <1>3, <1>6, <1>7, FlattenAppend DEF a
<1>9. Upto(g, i + 1) = FlattenSeq(h) /\ Upto(g, i) = FlattenSeq(f)
  BY DEF Upto, f, h
<1>10. Upto(g, i) \in Seq(T) /\ Upto(g, i + 1) = Upto(g, i) \o g[i + 1]
  BY <1>7, <1>8, <1>9
<1>11. \A u, v \in Seq(T) : Len(u \o v) = Len(u) + Len(v)
  OBVIOUS
<1> QED BY <1>3, <1>10, <1>11

LEMMA UptoAll == ASSUME NEW T, NEW g \in Seq(Seq(T)) PROVE Upto(g, Len(g)) = FlattenSeq(g)
<1>1. [k \in 1..Len(g) |-> g[k]] = g
  OBVIOUS
<1> QED BY <1>1 DEF Upto

LEMMA UptoPrefix ==
    ASSUME NEW T, NEW g \in Seq(Seq(T)), NEW i \in 0..Len(g), NEW n \in i..Len(g)
    PROVE  /\ Len(Upto(g, i)) <= Len(Upto(g, n))
           /\ \A k \in 1..Len(Upto(g, i)) : Upto(g, n)[k] = Upto(g, i)[k]
<1> DEFINE u == Upto(g, i)
           P(m) == Len(u) <= Len(Upto(g, m)) /\ \A k \in 1..Len(u) : Upto(g, m)[k] = u[k]
           S == {m \in Nat : i <= m /\ m <= Len(g) => P(m)}
<1>1. u \in Seq(T) /\ Len(u) \in Nat
  BY UptoIs
<1>2. Len(g) \in Nat /\ i \in Nat
  OBVIOUS
<1>3. P(i)
  BY <1>1
<1> HIDE DEF u
<1>4. 0 \in S
  <2> SUFFICES ASSUME i <= 0 PROVE P(0)
    BY <1>2
  <2>1. i = 0
    BY <1>2
  <2> QED BY <1>3, <2>1
<1>5. ASSUME NEW m \in S PROVE m + 1 \in S
  <2> SUFFICES ASSUME i <= m + 1, m + 1 <= Len(g) PROVE P(m + 1)
    OBVIOUS
  <2>1. CASE i = m + 1
    BY <1>3, <2>1
  <2>2. CASE i # m + 1
    <3>1. m \in Nat /\ m < Len(g) /\ m \in 0..Len(g) /\ P(m)
      BY <1>2, <2>2
    <3> DEFINE w == Upto(g, m)
               e == g[m + 1]
    <3>2. w \in Seq(T) /\ e \in Seq(T) /\ Upto(g, m + 1) = w \o e
      BY <3>1, UptoIs, UptoNext
    <3>3. Len(u) <= Len(w) /\ \A k \in 1..Len(u) : w[k] = u[k]
      BY <3>1
    <3> HIDE DEF w, e
    <3>4. Len(w \o e) = Len(w) + Len(e) /\ \A k \in 1..Len(w) : (w \o e)[k] = w[k]
      BY <3>2
    <3>5. Len(u) <= Len(w \o e) /\ \A k \in 1..Len(u) : (w \o e)[k] = u[k]
      BY <1>1, <3>2, <3>3, <3>4
    <3> QED BY <3>2, <3>5
  <2> QED BY <2>1, <2>2
<1>6. S = Nat
  <2>1. S \in SUBSET Nat
    OBVIOUS
  <2> HIDE DEF S
  <2> QED BY <1>4, <1>5, <2>1, Induction
<1>7. n \in S
  BY <1>2, <1>6
<1>8. P(n)
  BY <1>2, <1>7
<1> QED BY <1>8 DEF u

(* Where a byte of g[i + 1] is in the whole                                *)
LEMMA UptoAt ==
    ASSUME NEW T, NEW g \in Seq(Seq(T)), NEW i \in Nat, i < Len(g), NEW j \in 1..Len(g[i + 1])
    PROVE  /\ FlattenSeq(g)[Len(Upto(g, i)) + j] = g[i + 1][j]
           /\ Len(Upto(g, i)) + j <= Len(FlattenSeq(g))
<1> DEFINE u == Upto(g, i)
           e == g[i + 1]
           w == Upto(g, i + 1)
<1>1. /\ i \in 0..Len(g) /\ i + 1 \in 0..Len(g) /\ Len(g) \in i + 1..Len(g) /\ Len(g) \in Nat
  OBVIOUS
<1>2. u \in Seq(T) /\ e \in Seq(T) /\ w = u \o e
  BY <1>1, UptoIs, UptoNext
<1>3. /\ Len(w) <= Len(Upto(g, Len(g)))
      /\ \A k \in 1..Len(w) : Upto(g, Len(g))[k] = w[k]
  <2> DEFINE m == i + 1
  <2>1. m \in 0..Len(g) /\ Len(g) \in m..Len(g)
    BY <1>1
  <2> HIDE DEF m
  <2>2. Len(Upto(g, m)) <= Len(Upto(g, Len(g))) /\ \A k \in 1..Len(Upto(g, m)) : Upto(g, Len(g))[k] = Upto(g, m)[k]
    BY <2>1, UptoPrefix
  <2> QED BY <2>2 DEF m
<1>4. Upto(g, Len(g)) = FlattenSeq(g) /\ FlattenSeq(g) \in Seq(T)
  BY UptoAll, FlattenType
<1> HIDE DEF u, e, w
<1>5. j \in 1..Len(e)
  BY DEF e
<1>6. Len(u) + j \in 1..Len(w) /\ w[Len(u) + j] = e[j]
  BY <1>2, <1>5
<1>7. FlattenSeq(g)[Len(u) + j] = e[j] /\ Len(u) + j <= Len(FlattenSeq(g))
  <2>1. Len(w) \in Nat /\ Len(FlattenSeq(g)) \in Nat /\ Len(u) + j \in Nat
    BY <1>2, <1>4, <1>5
  <2> QED BY <1>3, <1>4, <1>6, <2>1
<1> QED BY <1>7 DEF u, e
-----------------------------------------------------------------------------
(***************************************************************************)
(* The items of a stream s: where the i-th ends, how many are finished     *)
(* with its first n bytes, and the data in the first i.                    *)
(***************************************************************************)
BytesOf(s) == [i \in 1..Len(s) |-> s[i].bytes]
Ends(s, i) == Len(FlattenSeq([k \in 1..i |-> s[k].bytes]))
Finished(s, n) == Cardinality({i \in 1..Len(s) : Ends(s, i) <= n})
Words(s, i) == FlattenSeq([k \in 1..i |-> s[k].data])

LEMMA StreamEnds ==
    /\ \A i : EndOf(i) = Ends(items, i)
    /\ \A n : Complete(n) = Finished(items, n) /\ Meant(n) = Words(items, Finished(items, n))
    /\ Stream = FlattenSeq(BytesOf(items))
BY DEF EndOf, Ends, Complete, Finished, Meant, Words, Stream, BytesOf

LEMMA ItemParts ==
    ASSUME NEW s \in Streams, NEW i \in 1..Len(s)
    PROVE  /\ s[i].bytes \in Seq(Bytes) /\ Len(s[i].bytes) >= 1 /\ s[i].data \in Seq(Bytes)
           /\ s[i].args \in Seq(Bytes)
<1>1. IsItem(s[i]) /\ s[i].bytes \in Seq(Bytes)
  BY ItemIs
<1>0. <<>> \in Seq(Bytes)
  OBVIOUS
<1>2. ASSUME NEW b \in Bytes, s[i] = Datum(b)
      PROVE Len(s[i].bytes) >= 1 /\ s[i].data \in Seq(Bytes) /\ s[i].args \in Seq(Bytes)
  <2>1. s[i].bytes = EscapeByte(b) /\ s[i].data = <<b>> /\ s[i].args = <<>>
    BY <1>2 DEF Datum
  <2>2. <<b>> \in Seq(Bytes)
    OBVIOUS
  <2>3. Len(EscapeByte(b)) >= 1
    BY EscapeByteIs
  <2> QED BY <1>0, <2>1, <2>2, <2>3, Zenon
<1>3. ASSUME NEW c \in Bytes, s[i] = Command(c)
      PROVE Len(s[i].bytes) >= 1 /\ s[i].data \in Seq(Bytes) /\ s[i].args \in Seq(Bytes)
  <2>1. s[i].bytes = <<"IAC", c>> /\ s[i].data = <<>> /\ s[i].args = <<>>
    BY <1>3 DEF Command
  <2>2. Len(<<"IAC", c>>) = 2
    OBVIOUS
  <2>3. Len(s[i].bytes) >= 1
    BY <2>1, <2>2
  <2> QED BY <1>0, <2>1, <2>3, Zenon
<1>4. ASSUME NEW c \in Verbs, NEW o \in Bytes, s[i] = Says(c, o)
      PROVE Len(s[i].bytes) >= 1 /\ s[i].data \in Seq(Bytes) /\ s[i].args \in Seq(Bytes)
  <2>1. s[i].bytes = <<"IAC", c, o>> /\ s[i].data = <<>> /\ s[i].args = <<>>
    BY <1>4 DEF Says
  <2>2. Len(<<"IAC", c, o>>) = 3
    OBVIOUS
  <2>3. Len(s[i].bytes) >= 1
    BY <2>1, <2>2
  <2> QED BY <1>0, <2>1, <2>3, Zenon
<1>5. ASSUME NEW args \in Seq(Bytes), s[i] = Suboption(args)
      PROVE Len(s[i].bytes) >= 1 /\ s[i].data \in Seq(Bytes) /\ s[i].args \in Seq(Bytes)
  <2>1. /\ s[i].bytes = <<"IAC", "SB">> \o Escape(args) \o <<"IAC", "SE">> /\ s[i].data = <<>>
        /\ s[i].args = args
    BY <1>5 DEF Suboption
  <2>2. Escape(args) \in Seq(Bytes) /\ <<"IAC", "SB">> \in Seq(Bytes) /\ <<"IAC", "SE">> \in Seq(Bytes)
        /\ Len(<<"IAC", "SB">>) = 2
    BY EscapeIs DEF Bytes
  <2>3. \A u, v, w \in Seq(Bytes) : Len(u) = 2 => Len(u \o v \o w) >= 1
    <3>1. \A u, v \in Seq(Bytes) : u \o v \in Seq(Bytes) /\ Len(u \o v) = Len(u) + Len(v)
      OBVIOUS
    <3>2. \A u \in Seq(Bytes) : Len(u) \in Nat
      OBVIOUS
    <3> SUFFICES ASSUME NEW u \in Seq(Bytes), NEW v \in Seq(Bytes), NEW w \in Seq(Bytes), Len(u) = 2
                 PROVE  Len(u \o v \o w) >= 1
      OBVIOUS
    <3> DEFINE x == u \o v
    <3>3. x \in Seq(Bytes) /\ Len(x) = 2 + Len(v)
      <4>1. u \o v \in Seq(Bytes) /\ Len(u \o v) = Len(u) + Len(v)
        BY <3>1, Zenon
      <4> QED BY <4>1
    <3> HIDE DEF x
    <3>4. Len(x \o w) = 2 + Len(v) + Len(w)
      BY <3>1, <3>3
    <3>5. Len(x \o w) >= 1
      BY <3>2, <3>4
    <3> QED BY <3>5 DEF x
  <2>4. Len(s[i].bytes) >= 1
    BY <2>1, <2>2, <2>3
  <2> QED BY <1>0, <2>1, <2>4, Zenon
<1> QED BY <1>1, <1>2, <1>3, <1>4, <1>5 DEF IsItem

LEMMA BytesOfIs ==
    ASSUME NEW s \in Streams
    PROVE  /\ Len(s) \in Nat /\ BytesOf(s) \in Seq(Seq(Bytes)) /\ Len(BytesOf(s)) = Len(s)
           /\ \A i \in 1..Len(s) : BytesOf(s)[i] = s[i].bytes
           /\ \A i \in 0..Len(s) : Ends(s, i) = Len(Upto(BytesOf(s), i)) /\ Ends(s, i) \in Nat
<1>1. Len(s) \in Nat
  BY ServerAssumption
<1>2. BytesOf(s) \in Seq(Seq(Bytes))
  BY <1>1, ItemParts, IsASeq DEF BytesOf
<1>3. Len(BytesOf(s)) = Len(s)
  BY <1>1 DEF BytesOf
<1>4. ASSUME NEW i \in 0..Len(s) PROVE Ends(s, i) = Len(Upto(BytesOf(s), i)) /\ Ends(s, i) \in Nat
  <2>1. [k \in 1..i |-> s[k].bytes] = [k \in 1..i |-> BytesOf(s)[k]]
    BY <1>1 DEF BytesOf
  <2>2. Ends(s, i) = Len(Upto(BytesOf(s), i))
    BY <2>1 DEF Ends, Upto
  <2> QED BY <1>2, <1>3, <2>2, UptoIs
<1> QED BY <1>1, <1>2, <1>3, <1>4 DEF BytesOf

LEMMA EndsNext ==
    ASSUME NEW s \in Streams, NEW i \in Nat, i < Len(s)
    PROVE  /\ Ends(s, i + 1) = Ends(s, i) + Len(s[i + 1].bytes) /\ Ends(s, i) < Ends(s, i + 1)
           /\ \A j \in 1..Len(s[i + 1].bytes) : FlattenSeq(BytesOf(s))[Ends(s, i) + j] = s[i + 1].bytes[j]
<1>1. i \in 0..Len(s) /\ i + 1 \in 0..Len(s) /\ i + 1 \in 1..Len(s)
  BY BytesOfIs
<1>2. Len(Upto(BytesOf(s), i + 1)) = Len(Upto(BytesOf(s), i)) + Len(BytesOf(s)[i + 1])
  BY BytesOfIs, UptoNext
<1>3. Ends(s, i + 1) = Ends(s, i) + Len(s[i + 1].bytes)
  BY <1>1, <1>2, BytesOfIs
<1>4. Len(s[i + 1].bytes) \in Nat /\ Len(s[i + 1].bytes) >= 1
  BY <1>1, ItemParts
<1>5. \A j \in 1..Len(BytesOf(s)[i + 1]) : FlattenSeq(BytesOf(s))[Len(Upto(BytesOf(s), i)) + j] = BytesOf(s)[i + 1][j]
  BY BytesOfIs, UptoAt
<1>6. Ends(s, i) \in Nat /\ Ends(s, i) = Len(Upto(BytesOf(s), i)) /\ BytesOf(s)[i + 1] = s[i + 1].bytes
  BY <1>1, BytesOfIs
<1>7. \A j \in 1..Len(s[i + 1].bytes) : FlattenSeq(BytesOf(s))[Ends(s, i) + j] = s[i + 1].bytes[j]
  BY <1>5, <1>6, Zenon
<1>8. Ends(s, i) < Ends(s, i + 1)
  BY <1>3, <1>4, <1>6
<1> QED BY <1>3, <1>7, <1>8

LEMMA EndsOrder ==
    ASSUME NEW s \in Streams, NEW i \in 0..Len(s), NEW n \in i..Len(s)
    PROVE  Ends(s, i) <= Ends(s, n)
<1>1. n \in 0..Len(s)
  BY BytesOfIs
<1> QED BY <1>1, BytesOfIs, UptoPrefix

LEMMA EndsAll ==
    ASSUME NEW s \in Streams
    PROVE  Ends(s, 0) = 0 /\ Ends(s, Len(s)) = Len(FlattenSeq(BytesOf(s)))
<1>1. 0 \in 0..Len(s) /\ Len(s) \in 0..Len(s)
  BY BytesOfIs
<1>2. Ends(s, 0) = Len(<<>>)
  BY <1>1, BytesOfIs, UptoNone
<1> QED BY <1>1, <1>2, BytesOfIs, UptoAll

LEMMA FinishedIs ==
    ASSUME NEW s \in Streams, NEW c \in 0..Len(s), NEW n \in Nat,
           Ends(s, c) <= n, c < Len(s) => n < Ends(s, c + 1)
    PROVE  Finished(s, n) = c
<1>1. ASSUME NEW i \in 1..Len(s) PROVE Ends(s, i) <= n <=> i <= c
  <2>1. Ends(s, i) \in Nat /\ Ends(s, c) \in Nat /\ Len(s) \in Nat /\ i \in 0..Len(s)
    BY BytesOfIs
  <2>2. i <= c => Ends(s, i) <= Ends(s, c)
    BY <2>1, EndsOrder
  <2>3. ASSUME i > c PROVE n < Ends(s, i)
    <3>1. c < Len(s) /\ c + 1 \in 0..Len(s) /\ i \in c + 1..Len(s)
      BY <2>1, <2>3
    <3>2. Ends(s, c + 1) <= Ends(s, i)
      <4> DEFINE m == c + 1
      <4>1. m \in 0..Len(s) /\ i \in m..Len(s)
        BY <3>1
      <4> HIDE DEF m
      <4>2. Ends(s, m) <= Ends(s, i)
        BY <4>1, EndsOrder
      <4> QED BY <4>2 DEF m
    <3>3. Ends(s, c + 1) \in Nat
      BY <3>1, BytesOfIs
    <3> QED BY <2>1, <3>1, <3>2, <3>3
  <2> QED BY <2>1, <2>2, <2>3
<1>2. c \in Nat /\ c <= Len(s) /\ Len(s) \in Nat
  BY BytesOfIs
<1>3. {i \in 1..Len(s) : Ends(s, i) <= n} = 1..c
  BY <1>1, <1>2
<1>4. Cardinality(1..c) = c
  BY <1>2, FS_Interval
<1> QED BY <1>3, <1>4 DEF Finished

LEMMA FinishedExists ==
    ASSUME NEW s \in Streams, NEW n \in Nat
    PROVE  \E c \in 0..Len(s) : Ends(s, c) <= n /\ (c < Len(s) => n < Ends(s, c + 1))
<1> DEFINE P(m) == \E c \in 0..m : Ends(s, c) <= n /\ (c < m => n < Ends(s, c + 1))
           S == {m \in Nat : m <= Len(s) => P(m)}
<1>1. Len(s) \in Nat
  BY BytesOfIs
<1>2. 0 \in S
  BY EndsAll
<1>3. ASSUME NEW m \in S PROVE m + 1 \in S
  <2> SUFFICES ASSUME m + 1 <= Len(s) PROVE P(m + 1)
    OBVIOUS
  <2>1. m \in Nat /\ P(m) /\ m + 1 \in 0..Len(s)
    BY <1>1
  <2>2. Ends(s, m + 1) \in Nat
    BY <2>1, BytesOfIs
  <2>3. CASE Ends(s, m + 1) <= n
    <3>1. m + 1 \in 0..m + 1 /\ ~(m + 1 < m + 1)
      BY <2>1
    <3> QED BY <2>3, <3>1
  <2>4. CASE ~(Ends(s, m + 1) <= n)
    <3>1. PICK c \in 0..m : Ends(s, c) <= n /\ (c < m => n < Ends(s, c + 1))
      BY <2>1
    <3>2. n < Ends(s, m + 1)
      BY <2>2, <2>4
    <3>3. c < m + 1 => n < Ends(s, c + 1)
      <4>1. CASE c = m
        BY <3>2, <4>1
      <4>2. CASE c # m
        BY <2>1, <3>1, <4>2
      <4> QED BY <4>1, <4>2
    <3>4. c \in 0..m + 1
      BY <2>1
    <3> QED BY <3>1, <3>3, <3>4
  <2> QED BY <2>3, <2>4
<1>4. S = Nat
  <2>1. S \in SUBSET Nat
    OBVIOUS
  <2> HIDE DEF S
  <2> QED BY <1>2, <1>3, <2>1, Induction
<1>5. Len(s) \in S
  BY <1>1, <1>4
<1>6. P(Len(s))
  BY <1>1, <1>5
<1> QED BY <1>6

LEMMA FinishedFacts ==
    ASSUME NEW s \in Streams, NEW n \in Nat
    PROVE  /\ Finished(s, n) \in 0..Len(s) /\ Ends(s, Finished(s, n)) <= n
           /\ Finished(s, n) < Len(s) => n < Ends(s, Finished(s, n) + 1)
<1>1. PICK c \in 0..Len(s) : Ends(s, c) <= n /\ (c < Len(s) => n < Ends(s, c + 1))
  BY FinishedExists
<1>2. Finished(s, n) = c
  BY <1>1, FinishedIs
<1> QED BY <1>1, <1>2

(* One more byte                                                           *)
LEMMA FinishedNext ==
    ASSUME NEW s \in Streams, NEW n \in Nat, n < Len(FlattenSeq(BytesOf(s)))
    PROVE  LET c == Finished(s, n) IN
           /\ c \in 0..Len(s) /\ c < Len(s) /\ Ends(s, c) <= n /\ n + 1 <= Ends(s, c + 1)
           /\ n + 1 < Ends(s, c + 1) => Finished(s, n + 1) = c
           /\ n + 1 = Ends(s, c + 1) => Finished(s, n + 1) = c + 1
<1> DEFINE c == Finished(s, n)
<1>1. c \in 0..Len(s) /\ Ends(s, c) <= n /\ (c < Len(s) => n < Ends(s, c + 1)) /\ Len(s) \in Nat
  BY FinishedFacts, BytesOfIs
<1> HIDE DEF c
<1>2. c \in Nat /\ c < Len(s)
  <2>1. c # Len(s)
    <3> SUFFICES ASSUME c = Len(s) PROVE FALSE
      OBVIOUS
    <3>1. Ends(s, c) = Len(FlattenSeq(BytesOf(s)))
      BY EndsAll
    <3>2. FlattenSeq(BytesOf(s)) \in Seq(Bytes)
      BY BytesOfIs, FlattenType
    <3>3. Len(FlattenSeq(BytesOf(s))) \in Nat
      BY <3>2
    <3> QED BY <1>1, <3>1, <3>3
  <2> QED BY <1>1, <2>1
<1>3. Ends(s, c) \in Nat /\ Ends(s, c + 1) \in Nat /\ c + 1 \in 0..Len(s)
  BY <1>1, <1>2, BytesOfIs
<1>4. n + 1 <= Ends(s, c + 1)
  BY <1>1, <1>2, <1>3
<1>5. ASSUME n + 1 < Ends(s, c + 1) PROVE Finished(s, n + 1) = c
  <2>1. Ends(s, c) <= n + 1 /\ n + 1 \in Nat
    BY <1>1, <1>3
  <2> QED BY <1>1, <1>5, <2>1, FinishedIs
<1>6. ASSUME n + 1 = Ends(s, c + 1) PROVE Finished(s, n + 1) = c + 1
  <2> DEFINE d == c + 1
  <2>1. d \in 0..Len(s) /\ Ends(s, d) = n + 1 /\ n + 1 \in Nat /\ d \in Nat
    BY <1>3, <1>6
  <2> HIDE DEF d
  <2>2. d < Len(s) => n + 1 < Ends(s, d + 1)
    BY <2>1, EndsNext
  <2>3. Ends(s, d) <= n + 1
    BY <2>1
  <2>4. Finished(s, n + 1) = d
    BY <2>1, <2>2, <2>3, FinishedIs
  <2> QED BY <2>4 DEF d
<1>7. /\ c \in 0..Len(s) /\ c < Len(s) /\ Ends(s, c) <= n /\ n + 1 <= Ends(s, c + 1)
      /\ n + 1 < Ends(s, c + 1) => Finished(s, n + 1) = c
      /\ n + 1 = Ends(s, c + 1) => Finished(s, n + 1) = c + 1
  BY <1>1, <1>2, <1>4, <1>5, <1>6
<1> QED BY <1>7 DEF c

LEMMA WordsType ==
    ASSUME NEW s \in Streams, NEW n \in Nat
    PROVE  Words(s, Finished(s, n)) \in Seq(Bytes)
<1> DEFINE c == Finished(s, n)
           f == [k \in 1..c |-> s[k].data]
<1>0. c \in 0..Len(s) /\ Len(s) \in Nat
  BY FinishedFacts, BytesOfIs
<1> HIDE DEF c
<1>1. c \in Nat /\ \A k \in 1..c : k \in 1..Len(s)
  BY <1>0
<1>2. f \in Seq(Seq(Bytes))
  BY <1>1, ItemParts, IsASeq
<1>3. FlattenSeq(f) \in Seq(Bytes)
  <2> HIDE DEF f
  <2> QED BY <1>2, FlattenType
<1> QED BY <1>3 DEF Words, c

(* The data of one more item                                               *)
LEMMA WordsNext ==
    ASSUME NEW s \in Streams, NEW i \in Nat, i < Len(s)
    PROVE  Words(s, i + 1) = Words(s, i) \o s[i + 1].data /\ Words(s, i) \in Seq(Bytes)
<1> DEFINE g == [k \in 1..Len(s) |-> s[k].data]
<1>1. Len(s) \in Nat
  BY BytesOfIs
<1>2. g \in Seq(Seq(Bytes))
  BY <1>1, ItemParts, IsASeq
<1>3. Len(g) = Len(s) /\ \A k \in 1..Len(s) : g[k] = s[k].data
  BY <1>1
<1>4. \A n \in 0..Len(s) : [k \in 1..n |-> s[k].data] = [k \in 1..n |-> g[k]]
  BY <1>1
<1> HIDE DEF g
<1>5. \A n \in 0..Len(s) : Words(s, n) = Upto(g, n)
  BY <1>4 DEF Words, Upto
<1>6. i \in 0..Len(s) /\ i + 1 \in 0..Len(s) /\ i + 1 \in 1..Len(s)
  BY <1>1
<1>7. Upto(g, i + 1) = Upto(g, i) \o g[i + 1] /\ Upto(g, i) \in Seq(Bytes)
  BY <1>2, <1>3, <1>6, UptoNext, UptoIs
<1> QED BY <1>3, <1>5, <1>6, <1>7
-----------------------------------------------------------------------------
(***************************************************************************)
(* Suboptions. What of their arguments and of the IAC that follows is in   *)
(* tnInband: all but escaped IACs in a row. Keeps(k, iac) is how the code  *)
(* remembers that it found k bytes, and whether the last one is IAC.       *)
(***************************************************************************)
Closed(args) == Append(args, "IAC")
Codes(args) == Escaped(Closed(args))
Count(args, m) == 1 + Cardinality({i \in 1..m : ~(IsIac(Closed(args), i) /\ IsIac(Closed(args), i - 1))})

Keeps(k, iac) ==
    IF k <= InbandSize THEN overflow = 0 /\ Len(inband) = k /\ (Last(inband) = "IAC" <=> iac)
                       ELSE overflow = IF iac THEN -2 ELSE -1

LEMMA KeepsStep ==
    ASSUME NEW k \in Nat \ {0}, NEW iac \in BOOLEAN, Keeps(k, iac), NEW b \in Bytes, inband \in Seq(Bytes),
           tnState = "SUBOPTION", Skip(b) \/ Collect(b) \/ IgnoreSecond(b)
    PROVE  /\ UNCHANGED <<out, agree>>
           /\ iac /\ b = "SE" /\ k # InbandSize => tnState' = "NORMAL"
           /\ ~(iac /\ b = "SE") =>
                tnState' = "SUBOPTION" /\ Keeps(IF iac /\ b = "IAC" THEN k ELSE k + 1, b = "IAC")'
<1> DEFINE k2 == IF iac /\ b = "IAC" THEN k ELSE k + 1
           Goal == /\ UNCHANGED <<out, agree>>
                   /\ iac /\ b = "SE" /\ k # InbandSize => tnState' = "NORMAL"
                   /\ ~(iac /\ b = "SE") => tnState' = "SUBOPTION" /\ Keeps(k2, b = "IAC")'
<1>0. k \in Nat /\ k > 0 /\ InbandSize \in Nat /\ k2 \in Nat /\ (k2 = k \/ k2 = k + 1)
  BY TelnetAssumption
<1>1. CASE k <= InbandSize
  <2>1. overflow = 0 /\ Len(inband) = k /\ (Last(inband) = "IAC" <=> iac) /\ inband # <<>>
    BY <1>0, <1>1 DEF Keeps
  <2>2. SecondIac(b) <=> b = "IAC" /\ iac
    BY <2>1 DEF SecondIac
  <2>3. TooMuch <=> k = InbandSize
    BY <2>1 DEF TooMuch
  <2>4. CASE SecondIac(b)
    <3>1. UNCHANGED <<tnState, inband, overflow, out, agree>>
      BY <2>4 DEF Skip, Collect, IgnoreSecond
    <3>2. b = "IAC" /\ iac /\ k2 = k /\ (b = "IAC") = iac
      BY <2>2, <2>4
    <3>3. Keeps(k2, b = "IAC")'
      BY <1>1, <2>1, <3>1, <3>2 DEF Keeps, Last
    <3> QED BY <3>1, <3>2, <3>3
  <2>5. CASE ~SecondIac(b) /\ k = InbandSize
    <3>1. Skip(b)
      BY <2>1, <2>3, <2>5 DEF Collect, IgnoreSecond
    <3>2. /\ UNCHANGED <<out, agree>> /\ tnState' = "SUBOPTION"
          /\ overflow' = IF b = "IAC" THEN -2 ELSE -1
      BY <2>1, <3>1 DEF Skip
    <3>3. k2 = k + 1 /\ ~(k2 <= InbandSize)
      BY <1>0, <2>2, <2>5
    <3>4. Keeps(k2, b = "IAC")'
      BY <3>2, <3>3 DEF Keeps
    <3> QED BY <2>5, <3>2, <3>4
  <2>6. CASE ~SecondIac(b) /\ k # InbandSize
    <3>1. Collect(b)
      BY <2>1, <2>3, <2>6 DEF Skip, IgnoreSecond
    <3>2. CASE iac /\ b = "SE"
      BY <2>1, <3>1, <3>2 DEF Collect
    <3>3. CASE ~(iac /\ b = "SE")
      <4>1. tnState' = "SUBOPTION" /\ inband' = Append(inband, b) /\ overflow' = 0 /\ UNCHANGED <<out, agree>>
        BY <2>1, <3>1, <3>3 DEF Collect
      <4>2. Len(Append(inband, b)) = k + 1 /\ Append(inband, b)[k + 1] = b
        BY <2>1
      <4>3. Len(inband') = k + 1 /\ Last(inband') = b
        BY <4>1, <4>2 DEF Last
      <4>4. k2 = k + 1 /\ k2 <= InbandSize
        BY <1>0, <1>1, <2>2, <2>6
      <4>5. Keeps(k2, b = "IAC")'
        BY <4>1, <4>3, <4>4 DEF Keeps
      <4> QED BY <3>3, <4>1, <4>5
    <3> QED BY <3>2, <3>3
  <2> QED BY <2>4, <2>5, <2>6
<1>2. CASE ~(k <= InbandSize)
  <2>1. overflow = (IF iac THEN -2 ELSE -1) /\ overflow < 0 /\ overflow # 0 /\ k # InbandSize
    BY <1>0, <1>2 DEF Keeps
  <2>2. Skip(b)
    BY <2>1 DEF Collect, IgnoreSecond, SecondIac
  <2>3. /\ UNCHANGED <<out, agree>>
        /\ tnState' = (IF overflow = -2 /\ b = "SE" THEN "NORMAL" ELSE "SUBOPTION")
        /\ overflow' = IF b = "IAC" \/ (overflow = -2 /\ b = "SE") THEN -2 ELSE -1
    BY <2>2 DEF Skip
  <2>4. overflow = -2 <=> iac
    BY <2>1
  <2>5. ~(k2 <= InbandSize)
    BY <1>0, <1>2
  <2>6. ~(iac /\ b = "SE") => tnState' = "SUBOPTION" /\ overflow' = IF b = "IAC" THEN -2 ELSE -1
    BY <2>3, <2>4
  <2>7. ~(iac /\ b = "SE") => Keeps(k2, b = "IAC")'
    BY <2>5, <2>6 DEF Keeps
  <2> QED BY <2>3, <2>4, <2>6, <2>7
<1> QED BY <1>1, <1>2

LEMMA ClosedIs ==
    ASSUME NEW args \in Seq(Bytes)
    PROVE  /\ Closed(args) \in Seq(Bytes) /\ Len(Closed(args)) = Len(args) + 1
           /\ \A i \in 1..Len(args) : Closed(args)[i] = args[i]
           /\ Closed(args)[Len(args) + 1] = "IAC"
           /\ \A i \in Int : IsIac(Closed(args), i) <=> i \in 1..Len(args) + 1 /\ Closed(args)[i] = "IAC"
           /\ \A i \in Int : i <= Len(args) => (IsIac(Closed(args), i) <=> IsIac(args, i))
<1>1. "IAC" \in Bytes
  BY DEF Bytes
<1>2. /\ Closed(args) \in Seq(Bytes) /\ Len(Closed(args)) = Len(args) + 1
      /\ \A i \in 1..Len(args) : Closed(args)[i] = args[i]
      /\ Closed(args)[Len(args) + 1] = "IAC"
  BY <1>1 DEF Closed
<1>3. DOMAIN Closed(args) = 1..Len(args) + 1 /\ DOMAIN args = 1..Len(args) /\ Len(args) \in Nat
  BY <1>2
<1>4. \A i \in Int : IsIac(Closed(args), i) <=> i \in 1..Len(args) + 1 /\ Closed(args)[i] = "IAC"
  BY <1>3 DEF IsIac
<1>5. \A i \in Int : i <= Len(args) => (IsIac(Closed(args), i) <=> IsIac(args, i))
  BY <1>2, <1>3 DEF IsIac
<1> QED BY <1>2, <1>4, <1>5

LEMMA CountNone == ASSUME NEW args PROVE Count(args, 0) = 1
<1>1. {i \in 1..0 : ~(IsIac(Closed(args), i) /\ IsIac(Closed(args), i - 1))} = {}
  OBVIOUS
<1>2. Cardinality({}) = 0
  BY FS_EmptySet
<1> QED BY <1>1, <1>2 DEF Count

LEMMA CountNext ==
    ASSUME NEW args, NEW m \in Nat
    PROVE  /\ Count(args, m) \in Nat \ {0}
           /\ Count(args, m + 1) = IF IsIac(Closed(args), m + 1) /\ IsIac(Closed(args), m)
                                   THEN Count(args, m) ELSE Count(args, m) + 1
<1> DEFINE P(i) == ~(IsIac(Closed(args), i) /\ IsIac(Closed(args), i - 1))
           S == {i \in 1..m : P(i)}
           U == {i \in 1..m + 1 : P(i)}
<1>1. IsFiniteSet(S)
  <2>1. IsFiniteSet(1..m) /\ S \subseteq 1..m
    BY FS_Interval
  <2> QED BY <2>1, FS_Subset
<1>2. Count(args, m) = 1 + Cardinality(S) /\ Count(args, m + 1) = 1 + Cardinality(U)
  BY DEF Count
<1>3. P(m + 1) <=> ~(IsIac(Closed(args), m + 1) /\ IsIac(Closed(args), m))
  OBVIOUS
<1>4. U = IF P(m + 1) THEN S \cup {m + 1} ELSE S
  <2>1. 1..m + 1 = (1..m) \cup {m + 1}
    OBVIOUS
  <2> HIDE DEF P
  <2> QED BY <2>1
<1>5. m + 1 \notin S
  OBVIOUS
<1> HIDE DEF S, U, P
<1>6. Cardinality(S) \in Nat
  BY <1>1, FS_CardinalityType
<1>7. Cardinality(S \cup {m + 1}) = Cardinality(S) + 1
  BY <1>1, <1>5, FS_AddElement
<1> QED BY <1>2, <1>3, <1>4, <1>6, <1>7

LEMMA CountAll ==
    ASSUME NEW args \in Seq(Bytes), NEW item, item.args = args, ~Blind(item)
    PROVE  Count(args, Len(args) + 1) # InbandSize
<1> DEFINE n == Len(args)
<1>0. n \in Nat /\ DOMAIN args = 1..n
  OBVIOUS
<1>1. /\ \A i \in 0..n : IsIac(Closed(args), i) <=> IsIac(args, i)
      /\ IsIac(Closed(args), n + 1)
  <2>1. n + 1 \in 1..n + 1 /\ n + 1 \in Int /\ \A i \in 0..n : i \in Int /\ i <= n
    BY <1>0
  <2> QED BY <2>1, ClosedIs
<1>2. Count(args, n + 1) = IF IsIac(args, n) THEN Count(args, n) ELSE Count(args, n) + 1
  <2>1. n \in 0..n
    BY <1>0
  <2> QED BY <1>0, <1>1, <2>1, CountNext
<1>3. CASE args = <<>>
  <2>1. n = 0 /\ ~IsIac(args, n)
    BY <1>0, <1>3 DEF IsIac
  <2>2. Count(args, n + 1) = 2
    BY <1>2, <2>1, CountNone
  <2> QED BY <2>2, TelnetAssumption
<1>4. CASE args # <<>>
  <2>1. {i \in 1..n : ~(IsIac(Closed(args), i) /\ IsIac(Closed(args), i - 1))}
          = {i \in DOMAIN args : ~(IsIac(args, i) /\ IsIac(args, i - 1))}
    <3>1. \A i \in 1..n : i \in 0..n /\ i - 1 \in 0..n
      BY <1>0
    <3> QED BY <1>0, <1>1, <3>1
  <2>2. Count(args, n) = 1 + StoredOf(args)
    BY <2>1 DEF Count, StoredOf
  <2>3. 1 + StoredOf(args) + (IF IsIac(args, n) THEN 0 ELSE 1) # InbandSize
    BY <1>4 DEF Blind
  <2>4. Count(args, n) \in Nat
    BY <1>0, CountNext
  <2> QED BY <1>2, <2>2, <2>3, <2>4
<1> QED BY <1>3, <1>4
-----------------------------------------------------------------------------
(* The bytes that stand for the first m arguments, and for that IAC (which
   comes once and not twice)                                               *)
Size(args, m) == Len(Upto(Codes(args), m))

LEMMA CodesIs ==
    ASSUME NEW args \in Seq(Bytes)
    PROVE  /\ Codes(args) \in Seq(Seq(Bytes)) /\ Len(Codes(args)) = Len(args) + 1
           /\ \A i \in 1..Len(args) + 1 :
                Closed(args)[i] \in Bytes /\ Codes(args)[i] = EscapeByte(Closed(args)[i])
<1>1. Closed(args) \in Seq(Bytes) /\ Len(Closed(args)) = Len(args) + 1
  BY ClosedIs
<1>2. Codes(args) \in Seq(Seq(Bytes))
  BY <1>1, EscapeIs DEF Codes
<1>3. Codes(args) = [i \in 1..Len(args) + 1 |-> EscapeByte(Closed(args)[i])]
  BY <1>1 DEF Codes, Escaped
<1> QED BY <1>1, <1>2, <1>3

LEMMA SizeNext ==
    ASSUME NEW args \in Seq(Bytes), NEW m \in Nat, m <= Len(args)
    PROVE  /\ Size(args, m) \in Nat
           /\ Size(args, m + 1) = Size(args, m) + (IF IsIac(Closed(args), m + 1) THEN 2 ELSE 1)
           /\ FlattenSeq(Codes(args))[Size(args, m) + 1] = Closed(args)[m + 1]
           /\ IsIac(Closed(args), m + 1) => FlattenSeq(Codes(args))[Size(args, m + 1)] = "IAC"
<1> DEFINE c == Codes(args)
           b == Closed(args)[m + 1]
           n == Len(args)
<1>1. n \in Nat /\ m + 1 \in 1..n + 1 /\ m + 1 \in Int /\ m \in 0..n + 1 /\ m < n + 1
  OBVIOUS
<1>2. c \in Seq(Seq(Bytes)) /\ Len(c) = n + 1 /\ c[m + 1] = EscapeByte(b) /\ b \in Bytes
  BY <1>1, CodesIs
<1>3. IsIac(Closed(args), m + 1) <=> b = "IAC"
  BY <1>1, ClosedIs
<1>4. /\ b = "IAC" => EscapeByte(b) = <<"IAC", "IAC">> /\ Len(EscapeByte(b)) = 2
      /\ b # "IAC" => EscapeByte(b) = <<b>> /\ Len(EscapeByte(b)) = 1
  BY <1>2, EscapeByteIs
<1> HIDE DEF b, c
<1>5. Len(Upto(c, m + 1)) = Len(Upto(c, m)) + Len(c[m + 1])
  BY <1>1, <1>2, UptoNext
<1>6. Len(Upto(c, m)) \in Nat
  BY <1>1, <1>2, UptoIs
<1>7. \A j \in 1..Len(c[m + 1]) : FlattenSeq(c)[Len(Upto(c, m)) + j] = c[m + 1][j]
  BY <1>1, <1>2, UptoAt
<1>8. CASE b = "IAC"
  <2>1. Len(c[m + 1]) = 2 /\ c[m + 1][1] = "IAC" /\ c[m + 1][2] = "IAC"
    BY <1>2, <1>4, <1>8
  <2>2. Len(Upto(c, m + 1)) = Len(Upto(c, m)) + 2
    BY <1>5, <2>1
  <2>3. FlattenSeq(c)[Len(Upto(c, m)) + 1] = "IAC" /\ FlattenSeq(c)[Len(Upto(c, m)) + 2] = "IAC"
    <3>1. 1 \in 1..Len(c[m + 1]) /\ 2 \in 1..Len(c[m + 1])
      BY <2>1
    <3> QED BY <1>7, <2>1, <3>1
  <2> QED BY <1>3, <1>6, <1>8, <2>2, <2>3 DEF Size, b, c
<1>9. CASE b # "IAC"
  <2>1. Len(c[m + 1]) = 1 /\ c[m + 1][1] = b
    BY <1>2, <1>4, <1>9
  <2>2. Len(Upto(c, m + 1)) = Len(Upto(c, m)) + 1
    BY <1>5, <2>1
  <2>3. FlattenSeq(c)[Len(Upto(c, m)) + 1] = b
    <3>1. 1 \in 1..Len(c[m + 1])
      BY <2>1
    <3> QED BY <1>7, <2>1, <3>1
  <2> QED BY <1>3, <1>6, <1>9, <2>2, <2>3 DEF Size, b, c
<1> QED BY <1>8, <1>9

LEMMA SizeOrder ==
    ASSUME NEW args \in Seq(Bytes), NEW m \in 0..Len(args) + 1
    PROVE  /\ Size(args, m) \in Nat /\ Size(args, 0) = 0
           /\ m <= Len(args) => Size(args, m) <= Size(args, Len(args))
           /\ Size(args, Len(args) + 1) = Size(args, Len(args)) + 2
<1> DEFINE n == Len(args)
<1>1. n \in Nat /\ Codes(args) \in Seq(Seq(Bytes)) /\ Len(Codes(args)) = n + 1
  BY CodesIs
<1>2. Size(args, m) \in Nat
  BY <1>1, UptoIs DEF Size
<1>3. Size(args, 0) = 0
  <2>1. Size(args, 0) = Len(<<>>)
    BY UptoNone DEF Size
  <2> QED BY <2>1
<1>4. m <= n => Size(args, m) <= Size(args, n)
  <2> SUFFICES ASSUME m <= n PROVE Size(args, m) <= Size(args, n)
    OBVIOUS
  <2>1. n \in m..Len(Codes(args)) /\ m \in 0..Len(Codes(args))
    BY <1>1
  <2> QED BY <1>1, <2>1, UptoPrefix DEF Size
<1>5. Size(args, n + 1) = Size(args, n) + 2
  <2>1. IsIac(Closed(args), n + 1)
    <3>1. n + 1 \in 1..n + 1 /\ n + 1 \in Int
      BY <1>1
    <3> QED BY <3>1, ClosedIs
  <2> QED BY <1>1, <2>1, SizeNext
<1> QED BY <1>2, <1>3, <1>4, <1>5

LEMMA ConcatIs ==
    ASSUME NEW u \in Seq(Bytes), NEW v \in Seq(Bytes)
    PROVE  /\ u \o v \in Seq(Bytes) /\ Len(u \o v) = Len(u) + Len(v)
           /\ \A k \in 1..Len(u) + Len(v) : (u \o v)[k] = IF k <= Len(u) THEN u[k] ELSE v[k - Len(u)]
OBVIOUS

LEMMA SuboptionBytes ==
    ASSUME NEW args \in Seq(Bytes)
    PROVE  LET bs == Suboption(args).bytes
               l == Size(args, Len(args))
               w == FlattenSeq(Codes(args))
           IN  /\ bs \in Seq(Bytes) /\ l \in Nat /\ Len(bs) = l + 4
               /\ bs[1] = "IAC" /\ bs[2] = "SB" /\ bs[l + 4] = "SE"
               /\ \A k \in 1..l + 1 : bs[k + 2] = w[k]
<1> DEFINE l == Size(args, Len(args))
           w == FlattenSeq(Codes(args))
           e == Escape(args)
           p == <<"IAC", "SB">>
           q == <<"IAC", "SE">>
           d == <<"IAC", "IAC">>
           bs == p \o e \o q
<1>1. Suboption(args).bytes = bs
  BY DEF Suboption
<1>2. /\ p \in Seq(Bytes) /\ Len(p) = 2 /\ p[1] = "IAC" /\ p[2] = "SB"
      /\ q \in Seq(Bytes) /\ Len(q) = 2 /\ q[1] = "IAC" /\ q[2] = "SE"
      /\ d \in Seq(Bytes) /\ Len(d) = 2 /\ d[1] = "IAC"
  BY DEF Bytes
<1>3. e \in Seq(Bytes)
  BY EscapeIs
<1>4. w = e \o d
  <2>1. "IAC" \in Bytes
    BY DEF Bytes
  <2>2. EscapeByte("IAC") = d
    BY DEF EscapeByte
  <2>3. Escape(Closed(args)) = e \o d
    BY <2>1, <2>2, EscapeAppend DEF Closed
  <2>4. Escape(Closed(args)) = w
    BY ClosedIs, EscapeIs DEF Codes
  <2> QED BY <2>3, <2>4
<1>5. Len(e) = l
  <2>1. Len(args) \in Nat /\ Len(args) \in 0..Len(args) + 1
    OBVIOUS
  <2>2. [k \in 1..Len(args) |-> Codes(args)[k]] = Escaped(args)
    <3>1. \A k \in 1..Len(args) : Codes(args)[k] = EscapeByte(args[k])
      <4>1. \A k \in 1..Len(args) : k \in 1..Len(args) + 1
        BY <2>1
      <4> QED BY <4>1, CodesIs, ClosedIs
    <3> QED BY <3>1 DEF Escaped
  <2>3. Upto(Codes(args), Len(args)) = e
    BY <2>2, EscapeIs DEF Upto
  <2> QED BY <2>3 DEF Size
<1> HIDE DEF e, p, q, d, w, l
<1> DEFINE x == p \o e
<1>0. l \in Nat /\ 2 \in Nat /\ l + 2 \in Nat /\ 2 + l = l + 2 /\ (l + 2) + 2 = l + 4
  BY <1>3, <1>5
<1>6. x \in Seq(Bytes) /\ Len(x) = l + 2 /\ \A k \in 1..l + 2 : x[k] = IF k <= 2 THEN p[k] ELSE e[k - 2]
  <2>1. /\ p \o e \in Seq(Bytes) /\ Len(p \o e) = 2 + l
        /\ \A k \in 1..2 + l : (p \o e)[k] = IF k <= 2 THEN p[k] ELSE e[k - 2]
    <3>1. /\ p \o e \in Seq(Bytes) /\ Len(p \o e) = Len(p) + Len(e)
          /\ \A k \in 1..Len(p) + Len(e) : (p \o e)[k] = IF k <= Len(p) THEN p[k] ELSE e[k - Len(p)]
      BY <1>2, <1>3, ConcatIs, Zenon
    <3> QED BY <1>2, <1>5, <3>1, Zenon
  <2> QED BY <1>0, <2>1, Zenon DEF x
<1> HIDE DEF x
<1>7. x \o q \in Seq(Bytes) /\ Len(x \o q) = l + 4 /\ \A k \in 1..l + 4 : (x \o q)[k] = IF k <= l + 2 THEN x[k] ELSE q[k - (l + 2)]
  <2> DEFINE m == l + 2
  <2>1. m \in Nat /\ Len(x) = m
    BY <1>0, <1>6
  <2> HIDE DEF m
  <2>2. /\ x \o q \in Seq(Bytes) /\ Len(x \o q) = m + 2
        /\ \A k \in 1..m + 2 : (x \o q)[k] = IF k <= m THEN x[k] ELSE q[k - m]
    <3>1. /\ x \o q \in Seq(Bytes) /\ Len(x \o q) = Len(x) + Len(q)
          /\ \A k \in 1..Len(x) + Len(q) : (x \o q)[k] = IF k <= Len(x) THEN x[k] ELSE q[k - Len(x)]
      BY <1>2, <1>6, ConcatIs, Zenon
    <3> QED BY <1>2, <2>1, <3>1, Zenon
  <2>3. m + 2 = l + 4
    BY <1>0 DEF m
  <2> QED BY <2>2, <2>3, Zenon DEF m
<1>8. bs = x \o q
  BY DEF x
<1> HIDE DEF bs
<1>9. bs[1] = "IAC" /\ bs[2] = "SB" /\ bs[l + 4] = "SE" /\ bs[l + 3] = "IAC"
  <2>1. 1 \in 1..l + 4 /\ 2 \in 1..l + 4 /\ l + 4 \in 1..l + 4 /\ l + 3 \in 1..l + 4 /\ 1 \in 1..l + 2 /\ 2 \in 1..l + 2
    BY <1>0
  <2>2. (l + 4) - (l + 2) = 2 /\ ~(l + 4 <= l + 2) /\ (l + 3) - (l + 2) = 1 /\ ~(l + 3 <= l + 2) /\ 1 <= l + 2 /\ 2 <= l + 2
    BY <1>0
  <2> QED BY <1>2, <1>6, <1>7, <1>8, <2>1, <2>2
<1>10. ASSUME NEW k \in 1..l + 1 PROVE bs[k + 2] = w[k]
  <2>1. \A i \in 1..l + 2 : w[i] = IF i <= l THEN e[i] ELSE d[i - l]
    BY <1>0, <1>2, <1>3, <1>4, <1>5, ConcatIs
  <2>2. CASE k = l + 1
    <3>1. k \in 1..l + 2 /\ ~(k <= l) /\ k - l = 1 /\ k + 2 = l + 3
      BY <1>0, <2>2
    <3> QED BY <1>2, <1>9, <2>1, <3>1
  <2>3. CASE k # l + 1
    <3>1. k \in 1..l + 2 /\ k <= l /\ k + 2 \in 1..l + 4 /\ k + 2 \in 1..l + 2 /\ k + 2 <= l + 2 /\ ~(k + 2 <= 2) /\ (k + 2) - 2 = k
      BY <1>0, <2>3
    <3> QED BY <1>6, <1>7, <1>8, <2>1, <3>1
  <2> QED BY <2>2, <2>3
<1>11. bs \in Seq(Bytes) /\ Len(bs) = l + 4
  BY <1>7, <1>8
<1> QED BY <1>0, <1>1, <1>9, <1>10, <1>11 DEF w, l
-----------------------------------------------------------------------------
(* After j bytes of a suboption the code has seen m arguments (or all and the
   IAC), but may still miss h bytes of an IAC that is sent as two          *)
Collecting(args, j) ==
    \E m \in 0..Len(args) + 1, h \in {0, 1} :
        /\ j = 2 + Size(args, m) - h
        /\ h = 1 => IsIac(Closed(args), m)
        /\ m = Len(args) + 1 => h = 1
        /\ Keeps(Count(args, m), IsIac(Closed(args), m))

LEMMA CollectStart ==
    ASSUME NEW args \in Seq(Bytes), inband' = <<"SB">>, overflow' = 0
    PROVE  Collecting(args, 2)'
<1>1. Len(<<"SB">>) = 1 /\ Last(<<"SB">>) = "SB"
  BY DEF Last
<1>2. 0 \in 0..Len(args) + 1 /\ 0 # Len(args) + 1
  OBVIOUS
<1>3. Size(args, 0) = 0
  BY <1>2, SizeOrder
<1>4. ~IsIac(Closed(args), 0)
  BY ClosedIs
<1>5. Count(args, 0) = 1 /\ 1 <= InbandSize
  BY CountNone, TelnetAssumption
<1>6. Keeps(1, IsIac(Closed(args), 0))'
  BY <1>1, <1>4, <1>5 DEF Keeps
<1>7. 2 = 2 + Size(args, 0) - 0 /\ 0 \in {0, 1}
  BY <1>3
<1>8. \E m \in 0..Len(args) + 1, h \in {0, 1} :
        /\ 2 = 2 + Size(args, m) - h
        /\ h = 1 => IsIac(Closed(args), m)
        /\ m = Len(args) + 1 => h = 1
        /\ Keeps(Count(args, m), IsIac(Closed(args), m))'
  <2>1. (0 = 1 => IsIac(Closed(args), 0)) /\ (0 = Len(args) + 1 => 0 = 1)
    BY <1>2
  <2>2. Keeps(Count(args, 0), IsIac(Closed(args), 0))'
    BY <1>5, <1>6
  <2> QED BY <1>2, <1>7, <2>1, <2>2, Zenon
<1> QED BY <1>8 DEF Collecting

LEMMA CollectStep ==
    ASSUME NEW args \in Seq(Bytes), NEW item, item.args = args, ~Blind(item),
           NEW j \in Nat, Collecting(args, j), tnState = "SUBOPTION", inband \in Seq(Bytes),
           NEW b, b = Suboption(args).bytes[j + 1],
           Skip(b) \/ Collect(b) \/ IgnoreSecond(b)
    PROVE  /\ UNCHANGED <<out, agree>>
           /\ j + 1 = Len(Suboption(args).bytes) => tnState' = "NORMAL"
           /\ j + 1 # Len(Suboption(args).bytes) => tnState' = "SUBOPTION" /\ Collecting(args, j + 1)'
<1> DEFINE n == Len(args)
           l == Size(args, n)
           bs == Suboption(args).bytes
           w == FlattenSeq(Codes(args))
           v == Closed(args)
<1>1. PICK m \in 0..n + 1, h \in {0, 1} :
        /\ j = 2 + Size(args, m) - h
        /\ h = 1 => IsIac(v, m)
        /\ m = n + 1 => h = 1
        /\ Keeps(Count(args, m), IsIac(v, m))
  BY DEF Collecting
<1> DEFINE k == Count(args, m)
<1>2. n \in Nat /\ m \in Nat /\ m <= n + 1
  OBVIOUS
<1>3. k \in Nat \ {0}
  BY <1>2, CountNext
<1>4. /\ bs \in Seq(Bytes) /\ l \in Nat /\ Len(bs) = l + 4 /\ bs[l + 4] = "SE"
      /\ \A i \in 1..l + 1 : bs[i + 2] = w[i]
  BY SuboptionBytes
<1>5. Size(args, m) \in Nat /\ (m <= n => Size(args, m) <= l) /\ Size(args, n + 1) = l + 2
  BY SizeOrder
<1>6. {"IAC", "SE"} \subseteq Bytes
  BY DEF Bytes
<1>7. b = bs[j + 1]
  OBVIOUS
<1>8. IsIac(v, m) => m \in 1..n + 1
  <2>1. m \in Int
    BY <1>2
  <2> QED BY <2>1, ClosedIs
<1> HIDE DEF bs, l, w, v, n
<1>9. CASE h = 1 /\ m <= n
  <2>1. IsIac(v, m) /\ Keeps(k, TRUE)
    BY <1>1, <1>9 DEF Keeps
  <2>2. w[Size(args, m)] = "IAC" /\ Size(args, m) >= 1
    <3> DEFINE i == m - 1
    <3>1. i \in Nat /\ i <= n /\ m = i + 1
      BY <1>2, <1>8, <1>9, <2>1
    <3> HIDE DEF i
    <3>2. IsIac(v, i + 1)
      BY <2>1, <3>1
    <3>3. w[Size(args, i + 1)] = "IAC" /\ Size(args, i) \in Nat /\ Size(args, i + 1) = Size(args, i) + 2
      BY <3>1, <3>2, SizeNext DEF n, v, w
    <3> QED BY <3>1, <3>3
  <2>3. Size(args, m) \in 1..l + 1 /\ j + 1 = Size(args, m) + 2 /\ j + 1 # l + 4
    BY <1>1, <1>4, <1>5, <1>9, <2>2
  <2>4. b = "IAC"
    BY <1>4, <1>7, <2>2, <2>3
  <2>5. /\ UNCHANGED <<out, agree>> /\ tnState' = "SUBOPTION"
        /\ Keeps(k, TRUE)'
    <3>1. /\ UNCHANGED <<out, agree>>
          /\ ~(TRUE /\ b = "SE") =>
                tnState' = "SUBOPTION" /\ Keeps(IF TRUE /\ b = "IAC" THEN k ELSE k + 1, b = "IAC")'
      BY <1>3, <1>6, <2>1, <2>4, KeepsStep
    <3> QED BY <2>4, <3>1
  <2>6. Keeps(k, IsIac(v, m))'
    BY <2>1, <2>5 DEF Keeps
  <2>7. Collecting(args, j + 1)'
    <3>1. j + 1 = 2 + Size(args, m) - 0 /\ 0 \in {0, 1} /\ m # n + 1
      BY <1>2, <1>5, <1>9, <2>3
    <3>2. \E mm \in 0..n + 1, hh \in {0, 1} :
            /\ j + 1 = 2 + Size(args, mm) - hh
            /\ hh = 1 => IsIac(v, mm)
            /\ mm = n + 1 => hh = 1
            /\ Keeps(Count(args, mm), IsIac(v, mm))'
      BY <2>1, <2>6, <3>1
    <3> QED BY <3>2 DEF Collecting, n, v
  <2> QED BY <1>4, <2>3, <2>5, <2>7 DEF bs
<1>10. CASE h = 1 /\ m = n + 1
  <2>1. IsIac(v, m) /\ Keeps(k, TRUE)
    BY <1>1, <1>10 DEF Keeps
  <2>2. j + 1 = l + 4
    BY <1>1, <1>4, <1>5, <1>10
  <2>3. b = "SE"
    BY <1>4, <1>7, <2>2
  <2>4. k # InbandSize
    BY <1>10, CountAll DEF n
  <2>5. UNCHANGED <<out, agree>> /\ tnState' = "NORMAL"
    <3>1. UNCHANGED <<out, agree>> /\ (TRUE /\ b = "SE" /\ k # InbandSize => tnState' = "NORMAL")
      BY <1>3, <1>6, <2>1, <2>3, KeepsStep
    <3> QED BY <2>3, <2>4, <3>1
  <2> QED BY <1>4, <2>2, <2>5 DEF bs
<1>11. CASE h = 0
  <2>1. m <= n
    BY <1>1, <1>2, <1>11
  <2>2. /\ Size(args, m + 1) = Size(args, m) + (IF IsIac(v, m + 1) THEN 2 ELSE 1)
        /\ w[Size(args, m) + 1] = v[m + 1]
    BY <1>2, <2>1, SizeNext DEF n, v, w
  <2>3. Size(args, m) + 1 \in 1..l + 1 /\ j + 1 = (Size(args, m) + 1) + 2 /\ j + 1 # l + 4
    BY <1>1, <1>4, <1>5, <1>11, <2>1
  <2>4. b = v[m + 1]
    BY <1>4, <1>7, <2>2, <2>3
  <2>5. m + 1 \in 1..n + 1 /\ m + 1 \in Int /\ m + 1 \in 0..n + 1
    BY <1>2, <2>1
  <2>6. (IsIac(v, m + 1) <=> b = "IAC") /\ b \in Bytes
    BY <2>4, <2>5, ClosedIs DEF n, v
  <2>7. ~(IsIac(v, m) /\ b = "SE")
    <3> SUFFICES ASSUME IsIac(v, m), b = "SE" PROVE FALSE
      OBVIOUS
    <3>1. m + 1 # n + 1
      BY <2>4, ClosedIs DEF n, v
    <3>2. m + 1 \in 1..n /\ m \in Int /\ m <= n /\ (m + 1) - 1 = m /\ n > 0
      BY <1>2, <2>1, <3>1
    <3>3. args[m + 1] = "SE" /\ IsIac(args, m)
      BY <2>4, <3>2, ClosedIs DEF n, v
    <3>4. m + 1 \in DOMAIN args /\ args # <<>>
      BY <3>2 DEF n
    <3> QED BY <3>2, <3>3, <3>4 DEF Blind
  <2>8. /\ UNCHANGED <<out, agree>> /\ tnState' = "SUBOPTION"
        /\ Keeps(IF IsIac(v, m) /\ b = "IAC" THEN k ELSE k + 1, b = "IAC")'
    <3>1. IsIac(v, m) \in BOOLEAN
      BY DEF IsIac
    <3> DEFINE iac == IsIac(v, m)
    <3>2. iac \in BOOLEAN /\ Keeps(k, iac) /\ ~(iac /\ b = "SE")
      BY <1>1, <2>7, <3>1
    <3> HIDE DEF iac, k
    <3>3. /\ UNCHANGED <<out, agree>>
          /\ ~(iac /\ b = "SE") =>
                tnState' = "SUBOPTION" /\ Keeps(IF iac /\ b = "IAC" THEN k ELSE k + 1, b = "IAC")'
      BY <1>3, <2>6, <3>2, KeepsStep
    <3> QED BY <3>2, <3>3 DEF iac
  <2>9. Keeps(Count(args, m + 1), IsIac(v, m + 1))'
    <3>1. Count(args, m + 1) = IF IsIac(v, m) /\ b = "IAC" THEN k ELSE k + 1
      BY <1>2, <2>6, CountNext DEF v
    <3> QED BY <2>6, <2>8, <3>1 DEF Keeps
  <2>10. Collecting(args, j + 1)'
    <3> DEFINE g == IF b = "IAC" THEN 1 ELSE 0
    <3>1. g \in {0, 1} /\ (g = 1 => IsIac(v, m + 1))
      BY <2>6
    <3>2. j + 1 = 2 + Size(args, m + 1) - g
      BY <1>5, <2>2, <2>3, <2>6
    <3>3. m + 1 = n + 1 => g = 1
      BY <2>4, ClosedIs DEF n, v
    <3> HIDE DEF g
    <3>4. \E mm \in 0..n + 1, hh \in {0, 1} :
            /\ j + 1 = 2 + Size(args, mm) - hh
            /\ hh = 1 => IsIac(v, mm)
            /\ mm = n + 1 => hh = 1
            /\ Keeps(Count(args, mm), IsIac(v, mm))'
      BY <2>5, <2>9, <3>1, <3>2, <3>3
    <3> QED BY <3>4 DEF Collecting, n, v
  <2> QED BY <1>4, <2>3, <2>8, <2>10 DEF bs
<1> QED BY <1>2, <1>9, <1>10, <1>11
-----------------------------------------------------------------------------
(* What the code knows after j bytes of an item, but not all of them       *)
Within(item, j) ==
    \/ j = 0 /\ tnState = "NORMAL"
    \/ j = 1 /\ tnState = "IAC"
    \/ j = 2 /\ item.bytes[2] \in Verbs /\ tnState = "COMMAND" /\ inband = <<item.bytes[2]>>
    \/ j >= 2 /\ item.bytes[2] = "SB" /\ tnState = "SUBOPTION" /\ Collecting(item.args, j)

AnyOf(b) == Normal(b) \/ AfterIac(b) \/ OptionCode(b) \/ Skip(b) \/ Collect(b) \/ IgnoreSecond(b)

(* When it has all of them                                                 *)
Answered(item) ==
    agree' = IF Len(item.bytes) = 3 /\ phase = "negotiating"
             THEN Negotiated(item.bytes[2], item.bytes[3]) ELSE agree
After(item) == tnState' = "NORMAL" /\ out' = out \o item.data /\ Answered(item)

LEMMA NormalStep ==
    ASSUME tnState = "NORMAL", NEW b, AnyOf(b)
    PROVE  IF b = "IAC" THEN tnState' = "IAC" /\ UNCHANGED <<out, agree>>
                        ELSE tnState' = "NORMAL" /\ out' = Append(out, b) /\ agree' = agree
BY DEF AnyOf, Normal, AfterIac, OptionCode, Skip, Collect, IgnoreSecond

LEMMA IacStep ==
    ASSUME tnState = "IAC", NEW b, AnyOf(b)
    PROVE  /\ agree' = agree
           /\ b = "IAC" => tnState' = "NORMAL" /\ out' = Append(out, b)
           /\ b # "IAC" => out' = out
           /\ b \in Verbs => tnState' = "COMMAND" /\ inband' = <<b>>
           /\ b = "SB" => tnState' = "SUBOPTION" /\ inband' = <<b>> /\ overflow' = 0
           /\ b \notin Verbs \cup {"SB"} => tnState' = "NORMAL"
<1>1. AfterIac(b)
  BY DEF AnyOf, Normal, OptionCode, Skip, Collect, IgnoreSecond
<1>2. tnState' = IF b \in Verbs THEN "COMMAND" ELSE IF b = "SB" THEN "SUBOPTION" ELSE "NORMAL"
  BY <1>1 DEF AfterIac, Verbs
<1>3. b \in Verbs => b # "IAC" /\ b # "SB"
  BY DEF Verbs
<1> QED BY <1>1, <1>2, <1>3 DEF AfterIac

LEMMA AppendConcat ==
    ASSUME NEW s \in Seq(Bytes), NEW b
    PROVE  s \o <<>> = s /\ (b \in Bytes => Append(s, b) = s \o <<b>>)
OBVIOUS

LEMMA DatumStep ==
    ASSUME NEW d \in Bytes, NEW item, item = Datum(d), NEW j \in Nat, j < Len(item.bytes), Within(item, j),
           out \in Seq(Bytes), NEW b, b = item.bytes[j + 1], AnyOf(b)
    PROVE  /\ j + 1 # Len(item.bytes) => Within(item, j + 1)' /\ UNCHANGED <<out, agree>>
           /\ j + 1 = Len(item.bytes) => After(item)
<1>1. item.bytes = EscapeByte(d) /\ item.data = <<d>>
  BY DEF Datum
<1>2. Append(out, d) = out \o <<d>>
  BY AppendConcat
<1>3. CASE d # "IAC"
  <2>1. item.bytes = <<d>> /\ Len(item.bytes) = 1
    BY <1>1, <1>3, EscapeByteIs
  <2>2. j = 0 /\ b = d
    BY <2>1
  <2>3. tnState = "NORMAL"
    BY <2>2 DEF Within
  <2>4. tnState' = "NORMAL" /\ out' = Append(out, d) /\ agree' = agree
    BY <1>3, <2>2, <2>3, NormalStep
  <2> QED BY <1>1, <1>2, <2>1, <2>2, <2>4 DEF After, Answered
<1>4. CASE d = "IAC"
  <2>1. item.bytes = <<"IAC", "IAC">> /\ Len(item.bytes) = 2
    BY <1>1, <1>4, EscapeByteIs
  <2>2. j \in {0, 1} /\ b = "IAC"
    BY <2>1
  <2>3. CASE j = 0
    <3>1. tnState = "NORMAL"
      BY <2>3 DEF Within
    <3>2. tnState' = "IAC" /\ UNCHANGED <<out, agree>>
      BY <2>2, <3>1, NormalStep
    <3> QED BY <2>1, <2>3, <3>2 DEF Within
  <2>4. CASE j = 1
    <3>1. tnState = "IAC"
      BY <2>4 DEF Within
    <3>2. tnState' = "NORMAL" /\ out' = Append(out, b) /\ agree' = agree
      BY <2>2, <3>1, IacStep
    <3> QED BY <1>1, <1>2, <1>4, <2>1, <2>2, <2>4, <3>2 DEF After, Answered
  <2> QED BY <2>2, <2>3, <2>4
<1> QED BY <1>3, <1>4

LEMMA CommandStep ==
    ASSUME NEW c \in Bytes \ (Verbs \cup {"IAC", "SB"}), NEW item, item = Command(c),
           NEW j \in Nat, j < Len(item.bytes), Within(item, j),
           out \in Seq(Bytes), NEW b, b = item.bytes[j + 1], AnyOf(b)
    PROVE  /\ j + 1 # Len(item.bytes) => Within(item, j + 1)' /\ UNCHANGED <<out, agree>>
           /\ j + 1 = Len(item.bytes) => After(item)
<1>1. item.bytes = <<"IAC", c>> /\ Len(item.bytes) = 2 /\ item.data = <<>>
  BY DEF Command
<1>2. out \o <<>> = out
  BY AppendConcat
<1>3. j \in {0, 1} /\ b = IF j = 0 THEN "IAC" ELSE c
  BY <1>1
<1>4. CASE j = 0
  <2>1. tnState = "NORMAL"
    BY <1>4 DEF Within
  <2>2. tnState' = "IAC" /\ UNCHANGED <<out, agree>>
    BY <1>3, <1>4, <2>1, NormalStep
  <2> QED BY <1>1, <1>4, <2>2 DEF Within
<1>5. CASE j = 1
  <2>1. tnState = "IAC"
    BY <1>5 DEF Within
  <2>2. tnState' = "NORMAL" /\ out' = out /\ agree' = agree
    BY <1>3, <1>5, <2>1, IacStep
  <2> QED BY <1>1, <1>2, <1>5, <2>2 DEF After, Answered
<1> QED BY <1>3, <1>4, <1>5

LEMMA SaysStep ==
    ASSUME NEW c \in Verbs, NEW o \in Bytes, NEW item, item = Says(c, o),
           NEW j \in Nat, j < Len(item.bytes), Within(item, j),
           out \in Seq(Bytes), NEW b, b = item.bytes[j + 1], AnyOf(b)
    PROVE  /\ j + 1 # Len(item.bytes) => Within(item, j + 1)' /\ UNCHANGED <<out, agree>>
           /\ j + 1 = Len(item.bytes) => After(item)
<1>1. /\ item.bytes = <<"IAC", c, o>> /\ Len(item.bytes) = 3 /\ item.data = <<>>
      /\ item.bytes[1] = "IAC" /\ item.bytes[2] = c /\ item.bytes[3] = o
  BY DEF Says
<1>2. out \o <<>> = out
  BY AppendConcat
<1>3. j \in {0, 1, 2} /\ b = IF j = 0 THEN "IAC" ELSE IF j = 1 THEN c ELSE o
  BY <1>1
<1>4. c # "SB" /\ c # "IAC"
  BY DEF Verbs
<1>5. CASE j = 0
  <2>1. tnState = "NORMAL"
    BY <1>5 DEF Within
  <2>2. tnState' = "IAC" /\ UNCHANGED <<out, agree>>
    BY <1>3, <1>5, <2>1, NormalStep
  <2> QED BY <1>1, <1>5, <2>2 DEF Within
<1>6. CASE j = 1
  <2>1. tnState = "IAC"
    BY <1>6 DEF Within
  <2>2. tnState' = "COMMAND" /\ inband' = <<c>> /\ out' = out /\ agree' = agree
    BY <1>3, <1>4, <1>6, <2>1, IacStep
  <2> QED BY <1>1, <1>6, <2>2 DEF Within
<1>7. CASE j = 2
  <2>1. tnState = "COMMAND" /\ inband = <<c>> /\ b = o
    BY <1>1, <1>3, <1>4, <1>7 DEF Within
  <2>2. OptionCode(o)
    BY <2>1 DEF AnyOf, Normal, AfterIac, Skip, Collect, IgnoreSecond
  <2>3. inband[1] = c
    BY <2>1
  <2>4. tnState' = "NORMAL" /\ out' = out /\ agree' = IF phase = "negotiating" THEN Negotiated(c, o) ELSE agree
    BY <2>2, <2>3 DEF OptionCode
  <2> QED BY <1>1, <1>2, <1>7, <2>4 DEF After, Answered
<1> QED BY <1>3, <1>5, <1>6, <1>7

LEMMA SuboptionStep ==
    ASSUME NEW args \in Seq(Bytes), NEW item, item = Suboption(args), ~Blind(item),
           NEW j \in Nat, j < Len(item.bytes), Within(item, j),
           out \in Seq(Bytes), inband \in Seq(Bytes), NEW b, b = item.bytes[j + 1], AnyOf(b)
    PROVE  /\ j + 1 # Len(item.bytes) => Within(item, j + 1)' /\ UNCHANGED <<out, agree>>
           /\ j + 1 = Len(item.bytes) => After(item)
<1>1. item.bytes = Suboption(args).bytes /\ item.args = args /\ item.data = <<>>
  BY DEF Suboption
<1>2. Len(item.bytes) \in Nat /\ Len(item.bytes) >= 4 /\ item.bytes[1] = "IAC" /\ item.bytes[2] = "SB"
  <2> DEFINE l == Size(args, Len(args))
  <2>1. l \in Nat /\ Len(Suboption(args).bytes) = l + 4 /\ Suboption(args).bytes[1] = "IAC" /\ Suboption(args).bytes[2] = "SB"
    BY SuboptionBytes
  <2> HIDE DEF l
  <2> QED BY <1>1, <2>1
<1>3. out \o <<>> = out
  BY AppendConcat
<1>4. "SB" \notin Verbs /\ "SB" # "IAC"
  BY DEF Verbs
<1>8. Len(item.bytes) # 1 /\ Len(item.bytes) # 2 /\ Len(item.bytes) # 3
  <2> DEFINE k == Len(item.bytes)
  <2>1. k \in Nat /\ k >= 4
    BY <1>2
  <2>2. k # 1 /\ k # 2 /\ k # 3
    <3> HIDE DEF k
    <3> QED BY <2>1
  <2> QED BY <2>2
<1>5. CASE j = 0
  <2>1. tnState = "NORMAL" /\ b = "IAC"
    BY <1>2, <1>5 DEF Within
  <2>2. tnState' = "IAC" /\ UNCHANGED <<out, agree>>
    BY <2>1, NormalStep
  <2>3. j + 1 = 1
    BY <1>5
  <2>4. Within(item, j + 1)'
    BY <2>2, <2>3 DEF Within
  <2>5. j + 1 # Len(item.bytes)
    BY <1>8, <2>3, Zenon
  <2>6. UNCHANGED <<out, agree>>
    BY <2>2, Zenon
  <2> QED BY <2>4, <2>5, <2>6, Zenon
<1>6. CASE j = 1
  <2>1. tnState = "IAC" /\ b = "SB"
    BY <1>2, <1>6 DEF Within
  <2>2. tnState' = "SUBOPTION" /\ inband' = <<"SB">> /\ overflow' = 0 /\ out' = out /\ agree' = agree
    BY <1>4, <2>1, IacStep
  <2>3. Collecting(args, 2)'
    BY <2>2, CollectStart
  <2>4. j + 1 = 2 /\ j + 1 # Len(item.bytes)
    <3>1. j + 1 = 2
      BY <1>6
    <3> QED BY <1>8, <3>1, Zenon
  <2>5. Collecting(item.args, j + 1)'
    BY <1>1, <2>3, <2>4, Zenon
  <2>6. Within(item, j + 1)'
    BY <1>2, <2>2, <2>4, <2>5 DEF Within
  <2>7. UNCHANGED <<out, agree>>
    BY <2>2, Zenon
  <2> QED BY <2>4, <2>6, <2>7, Zenon
<1>7. CASE j >= 2
  <2>1. tnState = "SUBOPTION" /\ Collecting(args, j)
    BY <1>1, <1>2, <1>4, <1>7 DEF Within
  <2>2. Skip(b) \/ Collect(b) \/ IgnoreSecond(b)
    BY <2>1 DEF AnyOf, Normal, AfterIac, OptionCode
  <2>3. /\ UNCHANGED <<out, agree>>
        /\ j + 1 = Len(item.bytes) => tnState' = "NORMAL"
        /\ j + 1 # Len(item.bytes) => tnState' = "SUBOPTION" /\ Collecting(args, j + 1)'
    BY <1>1, <2>1, <2>2, CollectStep
  <2>4. j + 1 # Len(item.bytes) => Within(item, j + 1)'
    BY <1>1, <1>2, <1>7, <2>3 DEF Within
  <2>5. j + 1 = Len(item.bytes) => After(item)
    <3>1. out' = out \o item.data
      BY <1>1, <1>3, <2>3, Zenon
    <3>3. Answered(item)
      BY <1>8, <2>3, Zenon DEF Answered
    <3> QED BY <2>3, <3>1, <3>3, Zenon DEF After
  <2> QED BY <2>3, <2>4, <2>5
<1> QED BY <1>5, <1>6, <1>7

LEMMA ItemStep ==
    ASSUME NEW item, IsItem(item), ~Blind(item),
           NEW j \in Nat, j < Len(item.bytes), Within(item, j),
           out \in Seq(Bytes), inband \in Seq(Bytes), NEW b, b = item.bytes[j + 1], AnyOf(b)
    PROVE  /\ j + 1 # Len(item.bytes) => Within(item, j + 1)' /\ UNCHANGED <<out, agree>>
           /\ j + 1 = Len(item.bytes) => After(item)
BY DatumStep, CommandStep, SaysStep, SuboptionStep DEF IsItem
-----------------------------------------------------------------------------
(* The server's last word on an option in its first n items                *)
LastWord(s, o, n) ==
    \E i \in 1..n :
        /\ Concerns(s[i], o) /\ <<s[i].bytes[2], o[1]>> \in Agreeing
        /\ \A k \in i + 1..n : ~Concerns(s[k], o)

LEMMA LastWordNext ==
    ASSUME NEW s, NEW o, NEW n \in Nat,
           IF Concerns(s[n + 1], o) THEN <<s[n + 1].bytes[2], o[1]>> \in Agreeing ELSE LastWord(s, o, n)
    PROVE  LastWord(s, o, n + 1)
<1>1. CASE Concerns(s[n + 1], o)
  <2>1. n + 1 \in 1..n + 1 /\ \A k \in (n + 1) + 1..n + 1 : ~Concerns(s[k], o)
    OBVIOUS
  <2> QED BY <1>1, <2>1 DEF LastWord
<1>2. CASE ~Concerns(s[n + 1], o)
  <2>1. PICK i \in 1..n :
            /\ Concerns(s[i], o) /\ <<s[i].bytes[2], o[1]>> \in Agreeing
            /\ \A k \in i + 1..n : ~Concerns(s[k], o)
    BY <1>2 DEF LastWord
  <2>2. i \in 1..n + 1 /\ \A k \in i + 1..n + 1 : k = n + 1 \/ k \in i + 1..n
    OBVIOUS
  <2>3. \A k \in i + 1..n + 1 : ~Concerns(s[k], o)
    BY <1>2, <2>1, <2>2
  <2> QED BY <2>1, <2>2, <2>3 DEF LastWord
<1> QED BY <1>1, <1>2

LEMMA ItemLength ==
    ASSUME NEW item, IsItem(item), Len(item.bytes) = 3
    PROVE  item.bytes[2] \in Verbs /\ item.bytes = <<"IAC", item.bytes[2], item.bytes[3]>>
<1>1. ASSUME NEW d \in Bytes, item = Datum(d) PROVE FALSE
  <2>1. item.bytes = EscapeByte(d)
    BY <1>1 DEF Datum
  <2>2. Len(EscapeByte(d)) = 1 \/ Len(EscapeByte(d)) = 2
    BY EscapeByteIs
  <2> QED BY <2>1, <2>2
<1>2. ASSUME NEW c \in Bytes, item = Command(c) PROVE FALSE
  <2>1. item.bytes = <<"IAC", c>> /\ Len(<<"IAC", c>>) = 2
    BY <1>2 DEF Command
  <2> QED BY <2>1
<1>3. ASSUME NEW c \in Verbs, NEW o \in Bytes, item = Says(c, o)
      PROVE item.bytes[2] \in Verbs /\ item.bytes = <<"IAC", item.bytes[2], item.bytes[3]>>
  <2>1. item.bytes = <<"IAC", c, o>>
    BY <1>3 DEF Says
  <2>2. item.bytes[2] = c /\ item.bytes[3] = o
    BY <2>1
  <2> QED BY <2>1, <2>2
<1>4. ASSUME NEW args \in Seq(Bytes), item = Suboption(args) PROVE FALSE
  <2> DEFINE l == Size(args, Len(args))
  <2>1. l \in Nat /\ Len(Suboption(args).bytes) = l + 4
    BY SuboptionBytes
  <2> HIDE DEF l
  <2>2. Suboption(args).bytes = item.bytes
    BY <1>4
  <2>3. Len(item.bytes) = l + 4
    BY <2>1, <2>2, Zenon
  <2>4. l + 4 = 3
    BY <2>3, Zenon
  <2> QED BY <2>1, <2>4
<1> QED BY <1>1, <1>2, <1>3, <1>4 DEF IsItem

(* What the code knows of the option is the last word, also after an item  *)
LEMMA AnswerStep ==
    ASSUME NEW s \in Streams, NEW c \in Nat, c < Len(s), phase = "negotiating",
           \A o \in Options : agree[o] => LastWord(s, o, c), Answered(s[c + 1])
    PROVE  \A o \in Options : agree'[o] => LastWord(s, o, c + 1)
<1> DEFINE item == s[c + 1]
           bs == item.bytes
<1>1. IsItem(item)
  <2>1. c + 1 \in 1..Len(s)
    BY BytesOfIs
  <2> QED BY <2>1, ItemIs
<1>2. CASE Len(bs) = 3
  <2>1. bs[2] \in Verbs /\ bs = <<"IAC", bs[2], bs[3]>>
    BY <1>1, <1>2, ItemLength
  <2>2. agree' = Negotiated(bs[2], bs[3])
    BY <1>2 DEF Answered
  <2> HIDE DEF item
  <2> SUFFICES ASSUME NEW o \in Options, agree'[o] PROVE LastWord(s, o, c + 1)
    OBVIOUS
  <2>3. Concerns(item, o) <=> o[2] = bs[3] /\ <<bs[2], o[1]>> \in Agreeing \cup Refusing
    <3>1. ASSUME Concerns(item, o) PROVE o[2] = bs[3] /\ <<bs[2], o[1]>> \in Agreeing \cup Refusing
      <4>1. PICK they \in Verbs : bs = <<"IAC", they, o[2]>> /\ <<they, o[1]>> \in Agreeing \cup Refusing
        BY <3>1 DEF Concerns, Verbs
      <4>2. bs[2] = they /\ bs[3] = o[2]
        BY <4>1
      <4> QED BY <4>1, <4>2
    <3>2. ASSUME o[2] = bs[3], <<bs[2], o[1]>> \in Agreeing \cup Refusing PROVE Concerns(item, o)
      BY <2>1, <3>2 DEF Concerns, Verbs
    <3> QED BY <3>1, <3>2
  <2>4. IF Concerns(item, o) THEN <<bs[2], o[1]>> \in Agreeing ELSE agree[o]
    BY <2>2, <2>3 DEF Negotiated
  <2>5. IF Concerns(item, o) THEN <<bs[2], o[1]>> \in Agreeing ELSE LastWord(s, o, c)
    BY <2>4
  <2> QED BY <2>5, LastWordNext DEF item
<1>3. CASE Len(bs) # 3
  <2>1. agree' = agree
    BY <1>3 DEF Answered
  <2> SUFFICES ASSUME NEW o \in Options, agree'[o] PROVE LastWord(s, o, c + 1)
    OBVIOUS
  <2>2. ~Concerns(item, o)
    <3>1. \A they : Len(<<"IAC", they, o[2]>>) = 3
      OBVIOUS
    <3> QED BY <1>3, <3>1 DEF Concerns
  <2> QED BY <2>1, <2>2, LastWordNext
<1> QED BY <1>2, <1>3
-----------------------------------------------------------------------------
(* Where the code is, what it has returned and what it has agreed on       *)
Now == Finished(items, taken)
Decoded == Within(items[Now + 1], taken - Ends(items, Now))

Found == IF inRead THEN out ELSE <<>>
Returned == phase = "open" => Words(items, Finished(items, start)) \o got \o Found = Words(items, Now)

(* A connection that is not open has returned nothing, unless it was open  *)
Fresh == phase = "negotiating" \/ (phase = "closed" /\ taken = 0)
Negotiating == Fresh => \A o \in Options : agree[o] => LastWord(items, o, Now)
Agreed == phase = "open" => \A o \in Options : LastWord(items, o, Finished(items, start))

Phases ==
    /\ Fresh => got = <<>>
    /\ inRead => phase # "closed" /\ taken + nIn > 0
    /\ phase = "open" => taken > 0

Follows == Decoded /\ Returned /\ Negotiating /\ Agreed
ReadingInv == RInv /\ Phases /\ (Followed => Follows)

LEMMA FollowedIs ==
    Followed <=> \A i \in 1..Len(items) : Blind(items[i]) => taken <= Ends(items, i - 1)
BY StreamEnds DEF Followed

LEMMA ReadTypes ==
    ASSUME RInv
    PROVE  /\ items \in Streams /\ taken \in Nat /\ nIn \in Nat /\ start \in Nat
           /\ out \in Seq(Bytes) /\ got \in Seq(Bytes) /\ inband \in Seq(Bytes)
           /\ taken + nIn <= Len(FlattenSeq(BytesOf(items)))
<1>1. nIn \in Nat
  BY TelnetAssumption DEF RInv, TelnetTypeOK
<1> QED BY <1>1, StreamEnds DEF RInv, TelnetTypeOK

LEMMA ProcessFollows ==
    ASSUME RInv, Phases, Follows, Process, Followed'
    PROVE  Follows'
<1>17. PICK s, c, j, item, b :
          /\ s = items /\ c = Now /\ j = taken - Ends(s, c) /\ item = s[c + 1]
          /\ b = Stream[taken + 1]
  OBVIOUS
<1>1. /\ s \in Streams /\ taken \in Nat /\ nIn \in Nat
      /\ out \in Seq(Bytes) /\ got \in Seq(Bytes) /\ inband \in Seq(Bytes)
      /\ taken + nIn <= Len(FlattenSeq(BytesOf(s)))
  BY <1>17, ReadTypes
<1>2. /\ inRead /\ nIn > 0 /\ nIn' = nIn - 1 /\ taken' = taken + 1 /\ AnyOf(b)
      /\ UNCHANGED <<items, phase, inRead, got, start>>
  BY <1>17 DEF Process, AnyOf
<1>3. phase \in {"negotiating", "open"}
  BY <1>17, <1>2 DEF Phases, RInv, TelnetTypeOK
<1>4. /\ c \in Nat /\ c < Len(s) /\ Ends(s, c) <= taken /\ taken + 1 <= Ends(s, c + 1)
      /\ taken + 1 < Ends(s, c + 1) => Finished(s, taken + 1) = c
      /\ taken + 1 = Ends(s, c + 1) => Finished(s, taken + 1) = c + 1
  <2>1. FlattenSeq(BytesOf(s)) \in Seq(Bytes)
    BY <1>17, <1>1, BytesOfIs, FlattenType
  <2>2. taken < Len(FlattenSeq(BytesOf(s)))
    BY <1>17, <1>1, <1>2, <2>1
  <2> QED BY <1>17, <1>1, <2>2, FinishedNext DEF Now
<1>5. /\ Ends(s, c) \in Nat /\ Ends(s, c + 1) = Ends(s, c) + Len(item.bytes) /\ Len(item.bytes) \in Nat
      /\ \A i \in 1..Len(item.bytes) : FlattenSeq(BytesOf(s))[Ends(s, c) + i] = item.bytes[i]
      /\ IsItem(item) /\ item.data \in Seq(Bytes)
  <2>1. Len(s) \in Nat
    BY <1>17, <1>1, BytesOfIs
  <2>2. c + 1 \in 1..Len(s) /\ c \in 0..Len(s)
    BY <1>17, <1>4, <2>1
  <2>3. item.bytes \in Seq(Bytes) /\ item.data \in Seq(Bytes) /\ IsItem(item)
    BY <1>17, <1>1, <2>2, ItemParts, ItemIs
  <2>4. Len(item.bytes) \in Nat
    BY <1>17, <2>3
  <2>5. Ends(s, c) \in Nat
    BY <1>17, <1>1, <2>2, BytesOfIs
  <2>6. /\ Ends(s, c + 1) = Ends(s, c) + Len(item.bytes)
        /\ \A i \in 1..Len(item.bytes) : FlattenSeq(BytesOf(s))[Ends(s, c) + i] = item.bytes[i]
    BY <1>17, <1>1, <1>4, EndsNext
  <2> QED BY <1>17, <2>3, <2>4, <2>5, <2>6
<1>6. j \in Nat /\ j < Len(item.bytes) /\ taken + 1 = Ends(s, c) + (j + 1)
  <2> DEFINE e == Ends(s, c)
             n == Len(item.bytes)
  <2>1. e \in Nat /\ n \in Nat /\ e <= taken /\ taken + 1 <= e + n /\ taken \in Nat
    BY <1>17, <1>1, <1>4, <1>5
  <2>2. taken - e \in Nat /\ taken - e < n /\ taken + 1 = e + ((taken - e) + 1)
    <3> HIDE DEF e, n
    <3> QED BY <1>17, <2>1
  <2> QED BY <1>17, <2>2
<1>14. j + 1 # Len(item.bytes) => taken + 1 < Ends(s, c + 1)
  BY <1>17, <1>4, <1>5, <1>6
<1>15. j + 1 = Len(item.bytes) => taken + 1 = Ends(s, c + 1)
  BY <1>17, <1>5, <1>6
<1>7. b = item.bytes[j + 1]
  <2>1. j + 1 \in 1..Len(item.bytes)
    BY <1>17, <1>5, <1>6
  <2>2. FlattenSeq(BytesOf(s))[Ends(s, c) + (j + 1)] = item.bytes[j + 1]
    BY <1>17, <1>5, <2>1
  <2> QED BY <1>17, <1>6, <2>2, StreamEnds
<1>8. ~Blind(item)
  <2>1. c + 1 \in 1..Len(s) /\ (c + 1) - 1 = c
    <3>1. Len(s) \in Nat
      BY <1>17, <1>1, BytesOfIs
    <3> QED BY <1>17, <1>4, <3>1
  <2>2. \A i \in 1..Len(s) : Blind(s[i]) => taken' <= EndOf(i - 1)
    BY <1>17, <1>2 DEF Followed, EndOf
  <2>3. \A i : EndOf(i) = Ends(s, i)
    BY <1>17, StreamEnds
  <2>4. Blind(item) => taken + 1 <= Ends(s, c)
    BY <1>17, <1>2, <2>1, <2>2, <2>3
  <2> QED BY <1>17, <1>1, <1>4, <1>5, <2>4
<1>9. Within(item, j)
  BY <1>17 DEF Follows, Decoded
<1>16. j \in Nat /\ j < Len(item.bytes)
  BY <1>17, <1>6
<1>10. /\ j + 1 # Len(item.bytes) => Within(item, j + 1)' /\ UNCHANGED <<out, agree>>
       /\ j + 1 = Len(item.bytes) => After(item)
  BY <1>17, <1>1, <1>2, <1>5, <1>7, <1>8, <1>9, <1>16, ItemStep
<1>11. Now' = Finished(s, taken + 1)
  BY <1>17, <1>2 DEF Now
<1>12. CASE j + 1 # Len(item.bytes)
  <2>1. Now' = c
    BY <1>17, <1>4, <1>11, <1>12, <1>14
  <2>2. taken' - Ends(s, c) = j + 1
    BY <1>17, <1>1, <1>2, <1>5, <1>6
  <2>3. Decoded'
    <3>1. items'[Now' + 1] = item /\ taken' - Ends(items', Now') = j + 1
      BY <1>17, <1>2, <2>1, <2>2
    <3>2. Within(item, j + 1)'
      BY <1>17, <1>10, <1>12
    <3> QED BY <1>17, <3>1, <3>2 DEF Decoded, Within, Collecting, Keeps
  <2>4. Returned'
    BY <1>17, <1>2, <1>10, <1>12, <2>1 DEF Follows, Returned, Found
  <2>5. Negotiating'
    BY <1>17, <1>2, <1>3, <1>10, <1>12, <2>1 DEF Follows, Negotiating, Fresh
  <2>6. Agreed'
    BY <1>17, <1>2 DEF Follows, Agreed
  <2> QED BY <1>17, <2>3, <2>4, <2>5, <2>6 DEF Follows
<1>13. CASE j + 1 = Len(item.bytes)
  <2>1. Now' = c + 1 /\ taken' = Ends(s, c + 1)
    BY <1>17, <1>2, <1>4, <1>11, <1>13, <1>15
  <2>2. tnState' = "NORMAL" /\ out' = out \o item.data /\ Answered(item)
    BY <1>17, <1>10, <1>13 DEF After
  <2>3. Decoded'
    <3>1. taken' - Ends(s, c + 1) = 0
      BY <1>17, <1>1, <1>2, <2>1
    <3> QED BY <1>17, <1>2, <2>1, <2>2, <3>1 DEF Decoded, Within
  <2>4. Returned'
    <3> SUFFICES ASSUME phase = "open" PROVE Words(s, Finished(s, start)) \o got \o out' = Words(s, c + 1)
      BY <1>17, <1>2, <2>1 DEF Returned, Found
    <3> DEFINE w == Words(s, Finished(s, start))
    <3>1. w \o got \o out = Words(s, c)
      BY <1>17, <1>2 DEF Follows, Returned, Found
    <3>2. Words(s, c + 1) = Words(s, c) \o item.data
      BY <1>17, <1>1, <1>4, WordsNext
    <3>3. w \in Seq(Bytes)
      BY <1>17, <1>1, WordsType, ReadTypes
    <3> HIDE DEF w
    <3>4. PICK d : d = item.data
      OBVIOUS
    <3>5. (w \o got \o out) \o d = w \o got \o (out \o d)
      <4>1. d \in Seq(Bytes)
        BY <1>5, <3>4
      <4>2. PICK x : x = w \o got
        OBVIOUS
      <4>3. x \in Seq(Bytes)
        BY <1>1, <3>3, <4>2
      <4>4. (x \o out) \o d = x \o (out \o d)
        BY <1>1, <4>1, <4>3, ConcatAssociative
      <4> QED BY <4>2, <4>4
    <3> QED BY <1>17, <2>2, <3>1, <3>2, <3>4, <3>5 DEF w
  <2>5. Negotiating'
    <3> SUFFICES ASSUME phase = "negotiating" PROVE \A o \in Options : agree'[o] => LastWord(s, o, c + 1)
      BY <1>17, <1>2, <1>3, <2>1 DEF Negotiating, Fresh
    <3>1. \A o \in Options : agree[o] => LastWord(s, o, c)
      BY <1>17 DEF Follows, Negotiating, Fresh
    <3> QED BY <1>17, <1>1, <1>4, <2>2, <3>1, AnswerStep
  <2>6. Agreed'
    BY <1>17, <1>2 DEF Follows, Agreed
  <2> QED BY <1>17, <2>3, <2>4, <2>5, <2>6 DEF Follows
<1> QED BY <1>17, <1>12, <1>13

LEMMA SameDecoded ==
    ASSUME Decoded, UNCHANGED <<items, taken, tnState, inband, overflow>>
    PROVE  Decoded'
BY DEF Decoded, Now, Within, Collecting, Keeps

LEMMA NothingFound == ASSUME NEW n \in Nat, RInv, got = <<>> PROVE Words(items, Finished(items, n)) \o got \o <<>> = Words(items, Finished(items, n))
<1>1. \A u \in Seq(Bytes) : u \o <<>> \o <<>> = u
  OBVIOUS
<1> QED BY <1>1, WordsType, ReadTypes

LEMMA OpenFollows ==
    ASSUME RInv, Phases, Follows, Open \/ Close
    PROVE  Follows'
<1>1. UNCHANGED <<items, readVars>>
  BY DEF Open, Close
<1>2. Decoded'
  BY <1>1, SameDecoded DEF readVars, Follows
<1>3. phase' # "open" /\ (Fresh' => Fresh)
  BY <1>1 DEF Open, Close, Phases, Fresh, readVars
<1>4. Returned' /\ Agreed'
  BY <1>3 DEF Returned, Agreed
<1>5. Negotiating'
  BY <1>1, <1>3 DEF Follows, Negotiating, readVars, Now
<1> QED BY <1>2, <1>4, <1>5 DEF Follows

LEMMA OpenPhases ==
    ASSUME RInv, Phases, Open \/ Close
    PROVE  Phases'
<1>1. UNCHANGED readVars /\ phase' # "open" /\ (Fresh' => Fresh)
  BY DEF Open, Close, Phases, Fresh, readVars
<1>2. inRead => phase' # "closed"
  BY DEF Open, Close, Phases, Idle
<1> QED BY <1>1, <1>2 DEF Phases, readVars

LEMMA ReadFollows ==
    ASSUME RInv, Phases, Follows, Read
    PROVE  Follows'
<1>1. /\ ~inRead /\ inRead' = TRUE /\ out' = <<>>
      /\ UNCHANGED <<items, phase, taken, tnState, inband, overflow, agree, got, start>>
  BY DEF Read, Idle
<1>2. Decoded'
  BY <1>1, SameDecoded DEF Follows
<1>3. Returned' /\ Negotiating' /\ Agreed'
  BY <1>1 DEF Follows, Returned, Found, Negotiating, Fresh, Agreed, Now
<1> QED BY <1>2, <1>3 DEF Follows

LEMMA ReadPhases ==
    ASSUME RInv, Phases, Read
    PROVE  Phases'
<1>1. inRead' = TRUE /\ phase \in {"negotiating", "open"} /\ nIn' \in 1..ReadSize /\ UNCHANGED <<phase, taken, got>>
  BY DEF Read
<1>2. taken' + nIn' > 0
  BY <1>1, ReadTypes, TelnetAssumption
<1> QED BY <1>1, <1>2 DEF Phases, Fresh

LEMMA NegotiationFollows ==
    ASSUME RInv, Phases, Follows, NegotiationRead
    PROVE  Follows'
<1>1. /\ phase = "negotiating" /\ inRead /\ nIn = 0 /\ inRead' = FALSE
      /\ phase' \in (IF Happy THEN {"open", "closed"} ELSE {"negotiating"})
      /\ start' = (IF phase' = "open" THEN taken ELSE start)
      /\ UNCHANGED <<items, taken, nIn, tnState, inband, overflow, agree, out, got>>
  BY DEF NegotiationRead
<1>2. Decoded'
  BY <1>1, SameDecoded DEF Follows
<1>3. got = <<>> /\ taken > 0 /\ taken \in Nat
  BY <1>1, ReadTypes DEF Phases, Fresh
<1>4. Fresh' => phase' = "negotiating"
  BY <1>1, <1>3 DEF Fresh
<1>6. Negotiating'
  BY <1>1, <1>4 DEF Follows, Negotiating, Fresh, Now
<1>7. Returned'
  <2>1. Words(items, Finished(items, taken)) \o got \o <<>> = Words(items, Finished(items, taken))
    BY <1>3, NothingFound
  <2> QED BY <1>1, <2>1 DEF Returned, Found, Now
<1>8. Agreed'
  <2> SUFFICES ASSUME phase' = "open" PROVE \A o \in Options : LastWord(items, o, Finished(items, taken))
    BY <1>1 DEF Agreed
  <2>1. Happy
    BY <1>1
  <2> QED BY <1>1, <2>1 DEF Follows, Negotiating, Fresh, Happy, Now
<1> QED BY <1>2, <1>6, <1>7, <1>8 DEF Follows

LEMMA NegotiationPhases ==
    ASSUME RInv, Phases, NegotiationRead
    PROVE  Phases'
<1>1. /\ phase = "negotiating" /\ inRead /\ nIn = 0 /\ inRead' = FALSE
      /\ UNCHANGED <<taken, nIn, got>>
  BY DEF NegotiationRead
<1>2. got = <<>> /\ taken > 0 /\ taken \in Nat
  BY <1>1, ReadTypes DEF Phases, Fresh
<1> QED BY <1>1, <1>2 DEF Phases

LEMMA ReturnFollows ==
    ASSUME RInv, Phases, Follows, ReadReturns
    PROVE  Follows'
<1>1. /\ phase = "open" /\ inRead /\ inRead' = FALSE /\ got' = got \o out
      /\ UNCHANGED <<items, phase, taken, nIn, tnState, inband, overflow, agree, start>>
  BY DEF ReadReturns
<1>2. Decoded'
  BY <1>1, SameDecoded DEF Follows
<1>3. Negotiating' /\ Agreed'
  BY <1>1 DEF Follows, Fresh, Negotiating, Agreed
<1>4. Returned'
  <2> DEFINE w == Words(items, Finished(items, start))
  <2>1. w \in Seq(Bytes) /\ got \in Seq(Bytes) /\ out \in Seq(Bytes)
    BY ReadTypes, WordsType
  <2>2. w \o got \o out = Words(items, Now)
    BY <1>1 DEF Follows, Returned, Found
  <2>3. w \o (got \o out) \o <<>> = w \o got \o out
    <3> HIDE DEF w
    <3>1. (w \o got) \o out = w \o (got \o out)
      BY <2>1, ConcatAssociative
    <3>2. PICK x : x = w \o (got \o out)
      OBVIOUS
    <3>3. got \o out \in Seq(Bytes)
      BY <2>1
    <3>4. x \in Seq(Bytes)
      BY <2>1, <3>2, <3>3
    <3>5. x \o <<>> = x
      BY <3>4
    <3> QED BY <3>1, <3>2, <3>5
  <2> QED BY <1>1, <2>2, <2>3 DEF Returned, Found, Now
<1> QED BY <1>2, <1>3, <1>4 DEF Follows

LEMMA ReturnPhases ==
    ASSUME Phases, ReadReturns
    PROVE  Phases'
BY DEF ReadReturns, Phases, Fresh

LEMMA OtherFollows ==
    ASSUME UNCHANGED <<items, phase, readVars>>
    PROVE  (Phases => Phases') /\ (Follows => Follows')
<1>1. UNCHANGED <<items, phase, inRead, taken, nIn, tnState, inband, overflow, agree, out, got, start>>
  BY DEF readVars
<1>2. Phases => Phases'
  BY <1>1 DEF Phases, Fresh
<1>3. ASSUME Follows PROVE Follows'
  <2>1. Decoded'
    BY <1>1, <1>3, SameDecoded DEF Follows
  <2>2. Returned' /\ Negotiating' /\ Agreed'
    BY <1>1, <1>3 DEF Follows, Returned, Found, Negotiating, Fresh, Agreed, Now
  <2> QED BY <2>1, <2>2 DEF Follows
<1> QED BY <1>2, <1>3

LEMMA ReadingStep ==
    ASSUME ReadingInv, RInv', [TelnetNext]_telnetVars
    PROVE  ReadingInv'
<1>1. RInv /\ Phases /\ taken \in Nat /\ items \in Streams
  BY ReadTypes DEF ReadingInv
<1>2. items' = items /\ taken' \in Nat /\ taken' >= taken
  BY <1>1 DEF TelnetNext, telnetVars, readVars, writeVars, Open, Read, Process, NegotiationRead, ReadReturns,
              Close, Write, Fill, Send, SendFails
<1>3. Followed' => Followed
  <2> SUFFICES ASSUME Followed', NEW i \in 1..Len(items), Blind(items[i]) PROVE taken <= EndOf(i - 1)
    BY DEF Followed
  <2>1. taken' <= EndOf(i - 1)
    BY <1>2 DEF Followed, EndOf
  <2>2. EndOf(i - 1) \in Nat
    <3>1. i - 1 \in 0..Len(items)
      BY <1>1, BytesOfIs
    <3> QED BY <1>1, <3>1, BytesOfIs, StreamEnds
  <2> QED BY <1>1, <1>2, <2>1, <2>2
<1>4. Followed => Follows
  BY DEF ReadingInv
<1>5. CASE Process
  <2>1. Phases'
    <3>1. UNCHANGED <<phase, inRead, got>> /\ inRead /\ taken' = taken + 1 /\ nIn' = nIn - 1
      BY <1>5 DEF Process
    <3>2. taken' + nIn' > 0 /\ taken' > 0
      BY <1>1, <3>1, ReadTypes DEF Phases
    <3> QED BY <1>1, <3>1, <3>2 DEF Phases, Fresh
  <2> QED BY <1>1, <1>3, <1>4, <1>5, <2>1, ProcessFollows DEF ReadingInv
<1>6. CASE Open \/ Close
  BY <1>1, <1>3, <1>4, <1>6, OpenFollows, OpenPhases DEF ReadingInv
<1>7. CASE Read
  BY <1>1, <1>3, <1>4, <1>7, ReadFollows, ReadPhases DEF ReadingInv
<1>8. CASE NegotiationRead
  BY <1>1, <1>3, <1>4, <1>8, NegotiationFollows, NegotiationPhases DEF ReadingInv
<1>9. CASE ReadReturns
  BY <1>1, <1>3, <1>4, <1>9, ReturnFollows, ReturnPhases DEF ReadingInv
<1>10. CASE Write \/ Fill \/ Send \/ SendFails \/ UNCHANGED telnetVars
  <2>1. UNCHANGED <<items, phase, readVars>>
    BY <1>10 DEF Write, Fill, Send, SendFails, telnetVars
  <2> QED BY <1>1, <1>3, <1>4, <2>1, OtherFollows DEF ReadingInv
<1> QED BY <1>5, <1>6, <1>7, <1>8, <1>9, <1>10 DEF TelnetNext

LEMMA ReadingInit == ASSUME TelnetInit, RInv PROVE ReadingInv
<1>1. /\ items \in Streams /\ phase = "closed" /\ inRead = FALSE /\ taken = 0 /\ start = 0
      /\ tnState = "NORMAL" /\ got = <<>> /\ \A o \in Options : ~agree[o]
  BY DEF TelnetInit
<1>2. Phases
  BY <1>1 DEF Phases
<1>3. Now = 0 /\ Ends(items, Now) = 0
  <2>1. Ends(items, 0) = 0 /\ 0 \in 0..Len(items) /\ 0 \in Nat
    BY <1>1, BytesOfIs, EndsAll
  <2>2. 0 < Len(items) => 0 < Ends(items, 0 + 1)
    BY <1>1, <2>1, EndsNext
  <2>3. Finished(items, 0) = 0
    BY <1>1, <2>1, <2>2, FinishedIs
  <2> QED BY <1>1, <2>1, <2>3 DEF Now
<1>4. Decoded
  <2>1. taken - Ends(items, Now) = 0
    BY <1>1, <1>3
  <2> QED BY <1>1, <2>1 DEF Decoded, Within
<1>5. Returned /\ Negotiating /\ Agreed
  BY <1>1 DEF Returned, Negotiating, Agreed
<1> QED BY <1>2, <1>4, <1>5 DEF ReadingInv, Follows

LEMMA ReadingInvariance == TelnetSpec => []ReadingInv
<1>1. RInv /\ TelnetInit => ReadingInv
  BY ReadingInit
<1>2. ReadingInv /\ RInv' /\ [TelnetNext]_telnetVars => ReadingInv'
  BY ReadingStep
<1> QED BY <1>1, <1>2, ReadInvariance, PTL DEF TelnetSpec

(* A read returns the data that the server sent and no signalling, all of it
   and in order from where the negotiation ended, wherever TCP cuts the
   stream: what _telnetProcessInband() knows within an escape, a command or
   a suboption of any length outlives the read. Up to a blind suboption.   *)
THEOREM AllDataDelivered == TelnetSpec => []DataDelivered
<1>1. ASSUME ReadingInv PROVE DataDelivered
  <2> SUFFICES ASSUME phase = "open", ~inRead, Followed PROVE Meant(start) \o got = Meant(taken)
    BY DEF DataDelivered
  <2>1. RInv /\ Returned
    BY <1>1 DEF ReadingInv, Follows
  <2>2. Words(items, Finished(items, start)) \o got \o <<>> = Words(items, Finished(items, taken))
    BY <2>1 DEF Returned, Found, Now
  <2>3. Words(items, Finished(items, start)) \in Seq(Bytes) /\ got \in Seq(Bytes)
    BY <2>1, ReadTypes, WordsType
  <2>4. \A u, v \in Seq(Bytes) : u \o v \o <<>> = u \o v
    OBVIOUS
  <2> QED BY <2>2, <2>3, <2>4, StreamEnds
<1> QED BY <1>1, ReadingInvariance, PTL

(* _portOpenTelnet() is only happy when the server's last word on each of
   the options is the one that is needed, and what the server says later
   does not make a port that is open forget that.                          *)
THEOREM AgreedBeforeOpen == TelnetSpec => []OpenMeansAgreed
<1>1. ASSUME ReadingInv PROVE OpenMeansAgreed
  <2> SUFFICES ASSUME phase = "open", Followed, NEW o \in Options
               PROVE  \E i \in 1..Complete(start) :
                         /\ Concerns(items[i], o) /\ <<items[i].bytes[2], o[1]>> \in Agreeing
                         /\ \A k \in i + 1..Complete(start) : ~Concerns(items[k], o)
    BY DEF OpenMeansAgreed
  <2>1. LastWord(items, o, Finished(items, start))
    BY <1>1 DEF ReadingInv, Follows, Agreed
  <2>2. Finished(items, start) = Complete(start)
    BY StreamEnds
  <2>3. LastWord(items, o, Complete(start))
    BY <2>1, <2>2
  <2> QED BY <2>3 DEF LastWord
<1> QED BY <1>1, ReadingInvariance, PTL
=============================================================================
