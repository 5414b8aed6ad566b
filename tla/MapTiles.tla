------------------------------ MODULE MapTiles ------------------------------
(***************************************************************************)
(* cfggui/stuff/maptiles.cpp: the cache of map tiles. The main thread draws*)
(* tiles. What it does not have it asks for in the queue of the instance   *)
(* (one for each map that is shown), whose threads download it to a file.  *)
(* The tiles are static: instances of the same map share them.             *)
(***************************************************************************)
EXTENDS Naturals, FiniteSets, Sequences

CONSTANTS
    Tile,               \* the coordinates of tiles
    Covered,            \* those on the map
    Instance,           \* maps that may be shown at the same time
    NumThreads,         \* MapParams::threads
    MAX_TILES_IN_QUEUE  \* 250

ASSUME MapTilesAssumption ==
    /\ Covered \subseteq Tile
    /\ NumThreads \in Nat /\ MAX_TILES_IN_QUEUE \in Nat \ {0}

Thread == Instance \X (1..NumThreads)
NoTile == [none |-> "none"]
NoInstance == [none |-> "none"]

ASSUME NoTileAssumption == NoTile \notin Tile /\ NoInstance \notin Instance

VARIABLES
    tiles,          \* _tiles, "NONE" for what is not in it
    hasPath,        \* Tile::path of the tiles that have one
    files,          \* the tiles that are in files
    open,           \* the instances that exist
    _requestQueue,  \* theirs
    pc, job,        \* of the threads, and the request that they process
    closing,        \* the instance that the main thread destroys, if any
    joined,         \* how many of its threads have ended
    lost            \* history: requests that failed or were dropped with their instance

mainVars == <<open, closing, joined>>
vars == <<tiles, hasPath, files, _requestQueue, pc, job, lost, mainVars>>

Init ==
    /\ tiles = [t \in Tile |-> "NONE"] /\ hasPath = {} /\ files \in SUBSET Covered
    /\ open = {} /\ _requestQueue = [i \in Instance |-> <<>>]
    /\ pc = [th \in Thread |-> "none"] /\ job = [th \in Thread |-> NoTile]
    /\ closing = NoInstance /\ joined = 0
    /\ lost = {}

Drawing == closing = NoInstance
-----------------------------------------------------------------------------
(* The constructor starts the threads                                      *)
OpenMap(i) ==
    /\ Drawing /\ i \notin open
    /\ open' = open \cup {i}
    /\ pc' = [th \in Thread |-> IF th[1] = i THEN "loop" ELSE pc[th]]
    /\ UNCHANGED <<tiles, hasPath, files, _requestQueue, job, closing, joined, lost>>

(* Fault: tiles that are loading get old, too                              *)
MayExpireFault(t) == tiles[t] \in {"AVAILABLE", "FAILED", "LOADING"}

(* _Cleanup(), without _tilesMutex: tiles that are there or failed are
   removed when they are old. Whether they are is left open.               *)
MayExpire(t) == tiles[t] \in {"AVAILABLE", "FAILED"}
Without(old) == [t \in Tile |-> IF t \in old THEN "NONE" ELSE tiles[t]]

(* GetTileTex(), after the housekeeping: a tile that is not known is loaded
   if it is on the map. Of one that was loaded the file is an image or not.
   All others stay what they are.                                          *)
GetTileTex(i, t) ==
    /\ Drawing /\ i \in open
    /\ \E old \in SUBSET {u \in Tile : MayExpire(u)} :
        /\ hasPath' = hasPath \ old
        /\ \/ /\ Without(old)[t] = "NONE" /\ t \in Covered
              /\ tiles' = [Without(old) EXCEPT ![t] = "LOADING"]
              /\ _requestQueue' = [_requestQueue EXCEPT ![i] = Append(@, t)]
           \/ /\ Without(old)[t] = "NONE" /\ t \notin Covered
              /\ tiles' = [Without(old) EXCEPT ![t] = "OUTSIDE"]
              /\ UNCHANGED _requestQueue
           \/ /\ tiles[t] = "LOADING" /\ t \in hasPath
              /\ \E state \in {"AVAILABLE", "FAILED"} : tiles' = [Without(old) EXCEPT ![t] = state]
              /\ UNCHANGED _requestQueue
           \/ /\ Without(old)[t] # "NONE" /\ ~(tiles[t] = "LOADING" /\ t \in hasPath)
              /\ tiles' = Without(old)
              /\ UNCHANGED _requestQueue
    /\ UNCHANGED <<files, pc, job, lost, mainVars>>

(* The destructor stops one thread after the other                         *)
CloseMap(i) ==
    /\ Drawing /\ i \in open
    /\ closing' = i /\ joined' = 0
    /\ open' = open \ {i}
    /\ UNCHANGED <<tiles, hasPath, files, _requestQueue, pc, job, lost>>

Abort(th) == th[1] = closing /\ th[2] = joined + 1

Join ==
    /\ ~Drawing /\ joined < NumThreads
    /\ pc[<<closing, joined + 1>>] = "exited"
    /\ joined' = joined + 1
    /\ UNCHANGED <<tiles, hasPath, files, _requestQueue, pc, job, lost, open, closing>>

InQueue(i) == {_requestQueue[i][n] : n \in DOMAIN _requestQueue[i]}

(* The requests go with the instance, the tiles with the last instance     *)
Destroyed ==
    /\ ~Drawing /\ joined = NumThreads
    /\ _requestQueue' = [_requestQueue EXCEPT ![closing] = <<>>]
    /\ closing' = NoInstance /\ joined' = 0
    /\ tiles' = IF open = {} THEN [t \in Tile |-> "NONE"] ELSE tiles
    /\ hasPath' = IF open = {} THEN {} ELSE hasPath
    /\ lost' = IF open = {} THEN {} ELSE lost \cup InQueue(closing)
    /\ UNCHANGED <<files, pc, job, open>>
-----------------------------------------------------------------------------
(* The oldest requests that are too many                                   *)
Excess(i) == IF Len(_requestQueue[i]) > MAX_TILES_IN_QUEUE THEN Len(_requestQueue[i]) - MAX_TILES_IN_QUEUE ELSE 0
TooMany(i) == {_requestQueue[i][n] : n \in 1..Excess(i)}

Exit(th) ==
    /\ pc[th] = "loop" /\ Abort(th)
    /\ pc' = [pc EXCEPT ![th] = "exited"]
    /\ UNCHANGED <<tiles, hasPath, files, _requestQueue, job, lost, mainVars>>

(* Fault: the tiles that are too many are dropped, and that is all         *)
TakeRequestFault(th) ==
    LET i == th[1] IN
    /\ pc[th] = "loop" /\ ~Abort(th) /\ _requestQueue[i] # <<>>
    /\ job' = [job EXCEPT ![th] = _requestQueue[i][Excess(i) + 1]]
    /\ _requestQueue' = [_requestQueue EXCEPT ![i] = SubSeq(@, Excess(i) + 2, Len(@))]
    /\ pc' = [pc EXCEPT ![th] = "process"]
    /\ UNCHANGED <<tiles, hasPath, files, lost, mainVars>>

(* With _requestMutex: the tiles that are too many have failed             *)
TakeRequest(th) ==
    LET i == th[1] IN
    /\ pc[th] = "loop" /\ ~Abort(th) /\ _requestQueue[i] # <<>>
    /\ tiles' = [t \in Tile |-> IF t \in TooMany(i) THEN "FAILED" ELSE tiles[t]]
    /\ job' = [job EXCEPT ![th] = _requestQueue[i][Excess(i) + 1]]
    /\ _requestQueue' = [_requestQueue EXCEPT ![i] = SubSeq(@, Excess(i) + 2, Len(@))]
    /\ pc' = [pc EXCEPT ![th] = "process"]
    /\ UNCHANGED <<hasPath, files, lost, mainVars>>

(* Processing the request: the file is there, or is downloaded             *)
Loaded(th) ==
    /\ pc[th] = "process"
    /\ files' = files \cup {job[th]}
    /\ hasPath' = hasPath \cup {job[th]}
    /\ pc' = [pc EXCEPT ![th] = "loop"] /\ job' = [job EXCEPT ![th] = NoTile]
    /\ UNCHANGED <<tiles, _requestQueue, lost, mainVars>>

(* Fault: it is tried again                                                *)
DownloadFailsFault(th) ==
    /\ pc[th] = "process" /\ job[th] \notin files
    /\ _requestQueue' = [_requestQueue EXCEPT ![th[1]] = Append(@, job[th])]
    /\ pc' = [pc EXCEPT ![th] = "loop"] /\ job' = [job EXCEPT ![th] = NoTile]
    /\ UNCHANGED <<tiles, hasPath, files, lost, mainVars>>

(* The download fails, or storing it, which may leave a part of the file;
   nothing notes that                                                      *)
DownloadFails(th) ==
    /\ pc[th] = "process" /\ job[th] \notin files
    /\ files' \in {files, files \cup {job[th]}}
    /\ lost' = lost \cup {job[th]}
    /\ pc' = [pc EXCEPT ![th] = "loop"] /\ job' = [job EXCEPT ![th] = NoTile]
    /\ UNCHANGED <<tiles, hasPath, _requestQueue, mainVars>>

Run(th) == Exit(th) \/ TakeRequest(th) \/ Loaded(th) \/ DownloadFails(th)

Draw == \E i \in Instance, t \in Tile : GetTileTex(i, t)
Main == Draw \/ (\E i \in Instance : OpenMap(i) \/ CloseMap(i)) \/ Join \/ Destroyed
Next == Main \/ \E th \in Thread : Run(th)

Spec == Init /\ [][Next]_vars

(* Threads run, and so does the main thread while it destroys an instance  *)
FairSpec ==
    /\ Spec
    /\ \A th \in Thread : WF_vars(Run(th))
    /\ WF_vars(Join \/ Destroyed)
-----------------------------------------------------------------------------
TypeOK ==
    /\ tiles \in [Tile -> {"NONE", "LOADING", "AVAILABLE", "FAILED", "OUTSIDE"}]
    /\ hasPath \subseteq Tile /\ files \subseteq Tile /\ lost \subseteq Tile
    /\ open \subseteq Instance /\ _requestQueue \in [Instance -> Seq(Tile)]
    /\ pc \in [Thread -> {"none", "loop", "process", "exited"}]
    /\ job \in [Thread -> Tile \cup {NoTile}]
    /\ closing \in Instance \cup {NoInstance} /\ joined \in 0..NumThreads

Exists(i) == i \in open \/ i = closing
Requested(t) == (\E i \in Instance : t \in InQueue(i)) \/ (\E th \in Thread : job[th] = t)

(* A tile that is loading, and not yet a file, is on its way: in the queue
   of an instance that exists, or with a thread. Except those of which a
   download has failed, or of which the instance was closed: nobody will
   ever ask for them again.                                                *)
LoadingIsRequested ==
    \A t \in Tile : tiles[t] = "LOADING" /\ t \notin hasPath => Requested(t) \/ t \in lost

(* A tile is requested once at most, by an instance that exists, and while
   it is requested it is there and loading. So the threads, which use
   _tiles[], never insert a tile: the main thread looks tiles up without
   _tilesMutex, and could not bear that.                                   *)
RequestedOnce ==
    /\ \A i \in Instance : _requestQueue[i] # <<>> => Exists(i)
    /\ \A t \in Tile : Requested(t) => tiles[t] = "LOADING" /\ t \notin hasPath
    /\ \A i, j \in Instance : \A m \in DOMAIN _requestQueue[i], n \in DOMAIN _requestQueue[j] :
            _requestQueue[i][m] = _requestQueue[j][n] => i = j /\ m = n
    /\ \A th \in Thread : \A i \in Instance : job[th] \notin InQueue(i)
    /\ \A th, u \in Thread : job[th] # NoTile /\ job[th] = job[u] => th = u

(* Every request comes to an end, whatever is opened, closed and drawn.    *)
RequestsEnd == \A t \in Tile : Requested(t) ~> ~Requested(t)
=============================================================================
