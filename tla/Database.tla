------------------------------ MODULE Database ------------------------------
(***************************************************************************)
(* cfggui/stuff/database.cpp: the ring of epochs. The thread of an input   *)
(* adds epochs, the main thread clears it, chooses the reference position  *)
(* and reads it, partly without the mutex, and with pointers to entries    *)
(* that it uses after it has let go of the mutex.                          *)
(* Positions are abstracted to what they are computed from.                *)
(***************************************************************************)
EXTENDS Integers, FiniteSets, Sequences

CONSTANTS
    Size,           \* 10000 in gui_win_input.cpp
    Raw,            \* the epochs there may be (EPOCH_t, all of them valid)
    HavePos(_)      \* whether an epoch has a position

Slots == 0 .. Size - 1
None == [none |-> "none"]

ASSUME DatabaseAssumption == Size \in Nat /\ Size >= 2 /\ None \notin Raw

(* Reference positions: the mean of some epochs, that of one, the user's   *)
Mean(S) == [kind |-> "mean", of |-> S]
PosOf(raw) == [kind |-> "last", of |-> {raw}]
User == [kind |-> "user", of |-> {}]
NoRef == [kind |-> "none", of |-> {}]

(* Entries. One that is not used yet, or is just being overwritten, is not
   valid (for the latter this means: nobody should read it).               *)
Entry(raw, enuRef) == [valid |-> TRUE, raw |-> raw, enuRef |-> enuRef]
NoEpoch == [valid |-> FALSE, raw |-> None, enuRef |-> NoRef]

VARIABLES
    epochs,         \* the ring
    epochIx,        \* where the next epoch goes
    epochIxLast,    \* where the last one is, or -1
    epochsValidCnt,
    stats,          \* the epochs that the statistics are of
    refPos, refPosLlh,
    adding,         \* what AddEpoch() is adding, and holds the mutex for
    copied,         \* it has copied it
    held            \* the entry that the main thread has a pointer to, what it
                    \* was, and the number of epochs that are newer

dbVars == <<epochs, epochIx, epochIxLast, epochsValidCnt, stats, refPos, refPosLlh, adding, copied, held>>

Init ==
    /\ epochs = [i \in Slots |-> NoEpoch]
    /\ epochIx = 0 /\ epochIxLast = -1 /\ epochsValidCnt = 0
    /\ stats = {}
    /\ refPos = "MEAN" /\ refPosLlh = Mean({})
    /\ adding = None /\ copied = FALSE
    /\ held = None

Unlocked == adding = None
-----------------------------------------------------------------------------
ValidIn(eps) == {i \in Slots : eps[i].valid}
PosIn(eps) == {i \in ValidIn(eps) : HavePos(eps[i].raw)}

(* How many entries before the one at ix an entry is: 0 is the newest      *)
Age(i, ix) == (ix - 1 - i) % Size

(* The position of the newest epoch with one                               *)
LastPos(eps, ix) ==
    LET i == CHOOSE i \in PosIn(eps) : \A j \in PosIn(eps) : Age(i, ix) <= Age(j, ix)
    IN PosOf(eps[i].raw)

(* Statistics are kept when there is no position to make new ones from     *)
StatsOf(S) == IF S # {} THEN S ELSE stats

(* _Sync() for the ring eps whose next entry is ix: the reference position,
   what each epoch is relative to, the number of epochs and the statistics *)
Sync(eps, ix, mode, llh) ==
    LET S == {eps[i].raw : i \in PosIn(eps)}
        ref == CASE mode = "MEAN" -> Mean(S)
                 [] mode = "LAST" /\ S # {} -> LastPos(eps, ix)
                 [] OTHER -> llh
    IN /\ refPosLlh' = ref
       /\ epochs' = [i \in Slots |-> IF i \in PosIn(eps) THEN Entry(eps[i].raw, ref) ELSE eps[i]]
       /\ epochsValidCnt' = Cardinality(ValidIn(eps))
       /\ stats' = StatsOf(S)

(* Fault: the index wraps too early                                        *)
NextIxFault(ix) == (ix + 1) % (Size - 1)
NextIx(ix) == (ix + 1) % Size

(* Fault: the index of the latest epoch is set first                       *)
AddEpochFault(raw) ==
    /\ Unlocked
    /\ adding' = raw
    /\ epochs' = [epochs EXCEPT ![epochIx] = NoEpoch]
    /\ epochIxLast' = epochIx
    /\ UNCHANGED <<epochIx, epochsValidCnt, stats, refPos, refPosLlh, copied, held>>

(* AddEpoch(): the entry is copied, then the indices advance. A pointer
   may be dereferenced in between, as its user does not lock.              *)
AddEpoch(raw) ==
    /\ Unlocked
    /\ adding' = raw
    /\ epochs' = [epochs EXCEPT ![epochIx] = NoEpoch]
    /\ UNCHANGED <<epochIx, epochIxLast, epochsValidCnt, stats, refPos, refPosLlh, copied, held>>

CopyEpoch ==
    /\ ~Unlocked /\ ~copied
    /\ epochs' = [epochs EXCEPT ![epochIx] = Entry(adding, NoRef)]
    /\ copied' = TRUE
    /\ UNCHANGED <<epochIx, epochIxLast, epochsValidCnt, stats, refPos, refPosLlh, adding, held>>

AddDone ==
    /\ ~Unlocked /\ copied
    /\ epochIxLast' = epochIx
    /\ epochIx' = NextIx(epochIx)
    /\ Sync(epochs, epochIx', refPos, refPosLlh)
    /\ adding' = None /\ copied' = FALSE
    /\ held' = IF held = None THEN None ELSE [held EXCEPT !.newer = @ + 1]
    /\ UNCHANGED refPos

(* The main thread. It clears the database only between two frames.        *)
Clear ==
    /\ Unlocked /\ held = None
    /\ epochs' = [i \in Slots |-> NoEpoch]
    /\ epochIx' = 0 /\ epochIxLast' = -1 /\ epochsValidCnt' = 0
    /\ stats' = {}
    /\ UNCHANGED <<refPos, refPosLlh, adding, copied, held>>

(* Fault: nothing is calculated again                                      *)
SetRefPosFault(mode) ==
    /\ Unlocked
    /\ refPos' = mode /\ refPosLlh' = (IF mode = "USER" THEN User ELSE refPosLlh)
    /\ UNCHANGED <<epochs, epochIx, epochIxLast, epochsValidCnt, stats, adding, copied, held>>

SetRefPos(mode) ==
    /\ Unlocked
    /\ refPos' = mode
    /\ Sync(epochs, epochIx, mode, IF mode = "USER" THEN User ELSE refPosLlh)
    /\ UNCHANGED <<epochIx, epochIxLast, adding, copied, held>>

(* LatestEpoch(), which does not lock                                      *)
LatestEpoch ==
    /\ held = None /\ epochIxLast >= 0
    /\ held' = [slot |-> epochIxLast, raw |-> epochs[epochIxLast].raw, newer |-> 0]
    /\ UNCHANGED <<epochs, epochIx, epochIxLast, epochsValidCnt, stats, refPos, refPosLlh, adding, copied>>

(* gui_win_data_map.cpp finds the last position with ProcEpochs(), and
   keeps the pointer that the callback got                                 *)
FindLastPos ==
    /\ held = None /\ Unlocked
    /\ \E i \in PosIn(epochs) :
        /\ \A j \in PosIn(epochs) : Age(i, epochIx) <= Age(j, epochIx)
        /\ held' = [slot |-> i, raw |-> epochs[i].raw, newer |-> Age(i, epochIx)]
    /\ UNCHANGED <<epochs, epochIx, epochIxLast, epochsValidCnt, stats, refPos, refPosLlh, adding, copied>>

Release ==
    /\ held # None
    /\ held' = None
    /\ UNCHANGED <<epochs, epochIx, epochIxLast, epochsValidCnt, stats, refPos, refPosLlh, adding, copied>>

Reader == LatestEpoch \/ FindLastPos \/ Release
Main == Clear \/ (\E mode \in {"MEAN", "LAST", "USER"} : SetRefPos(mode)) \/ Reader
Next == (\E raw \in Raw : AddEpoch(raw)) \/ CopyEpoch \/ AddDone \/ Main

Spec == Init /\ [][Next]_dbVars
-----------------------------------------------------------------------------
(* Fault: the first entry is taken for one before it                       *)
SlotOfFault(ix) == LET iix == epochIx - epochsValidCnt + ix IN IF iix <= 0 THEN iix + Size - 1 ELSE iix

(* BeginGetEpoch(), NumEpochs(), GetEpoch(), as the plots use them         *)
SlotOf(ix) == LET iix == epochIx - epochsValidCnt + ix IN IF iix < 0 THEN iix + Size ELSE iix
GetEpoch(ix) == epochs[SlotOf(ix)]

(* The log that the ring stands for. An epoch is in it from when AddEpoch()
   has the mutex, as nobody who locks can look in between.                 *)
LogView ==
    IF Unlocked THEN [n \in 1..epochsValidCnt |-> GetEpoch(n - 1).raw]
    ELSE LET kept == IF epochsValidCnt < Size THEN epochsValidCnt ELSE Size - 1
         IN [n \in 1..kept + 1 |-> IF n > kept THEN adding ELSE GetEpoch(n - 1 + epochsValidCnt - kept).raw]

Log == INSTANCE BoundedLog WITH log <- LogView
-----------------------------------------------------------------------------
(* The type of the state, and what the indices say of each other: the ring
   is used up to epochIx, or entirely.                                     *)
TypeOK ==
    /\ epochIx \in Slots /\ epochIxLast \in Slots \cup {-1} /\ epochsValidCnt \in 0..Size
    /\ adding \in Raw \cup {None} /\ copied \in BOOLEAN /\ (copied => ~Unlocked)
    /\ refPos \in {"MEAN", "LAST", "USER"}
    /\ \A i \in Slots : epochs[i].valid => epochs[i].raw \in Raw

(* The database is a log of the newest epochs: plots that go by index see
   each epoch once, in the order of arrival, whatever is added, cleared or
   synchronised between two frames (GetEpoch() takes the number of valid
   entries for the distance to the oldest one).                            *)
ImplementsLog == Log!Spec

(* LatestEpoch() does not lock: at every moment, also in the middle of
   AddEpoch(), what it points to is a complete epoch, and is the newest one
   that is not just being added. (Clear() is called by the thread that also
   reads, and is one step.)                                                *)
LatestIsComplete ==
    /\ (epochIxLast = -1) <=> (epochsValidCnt = 0)
    /\ epochIxLast # -1 =>
        /\ epochs[epochIxLast].valid
        /\ epochIxLast = SlotOf(epochsValidCnt - 1)

(* An epoch that the main thread has a pointer to stays what it was while
   fewer than Size - 1 newer ones come in: the ring protects those readers
   that use an epoch without the mutex.                                    *)
HeldIntact ==
    held # None /\ held.newer < Size - 1 => epochs[held.slot].valid /\ epochs[held.slot].raw = held.raw

(* Whenever the mutex is free, what is computed from the ring is current:
   all epochs with a position are relative to the reference position, which
   is the one that was asked for, the mean or the newest position, and the
   statistics are those of the epochs in the ring. Only when none has a
   position the statistics are still those of earlier ones.                *)
Synchronised ==
    Unlocked =>
        LET S == {epochs[i].raw : i \in PosIn(epochs)} IN
        /\ \A i \in PosIn(epochs) : epochs[i].enuRef = refPosLlh
        /\ refPos = "MEAN" /\ epochsValidCnt > 0 => refPosLlh = Mean(S)
        /\ refPos = "LAST" /\ S # {} => refPosLlh = LastPos(epochs, epochIx)
        /\ S # {} => stats = S
=============================================================================
