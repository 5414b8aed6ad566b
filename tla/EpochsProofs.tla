---------------------------- MODULE EpochsProofs ----------------------------
(***************************************************************************)
(* The database of epochs, for a ring of any size, and the collector that  *)
(* fills it, for any receiver. The invariant IInv says which entries of the*)
(* ring are in use: as many as there are valid epochs, counted backwards   *)
(* from where the next one goes. The invariant EInv adds what the collector*)
(* has of the messages so far, what its detection of epochs knows of the   *)
(* navigation epoch, and what that makes of the epochs that are stored.    *)
(***************************************************************************)
EXTENDS Epochs, FiniteSetTheorems, SequenceTheorems, WellFoundedInduction, TLAPS

LEMMA SizeFacts == Size \in Nat /\ Size >= 2 /\ None \notin Raw
  BY DatabaseAssumption

LEMMA ModSmall == ASSUME NEW x \in 0..Size - 1 PROVE x % Size = x
  BY SizeFacts, SMT

LEMMA ModNegative == ASSUME NEW x \in -Size..-1 PROVE x % Size = x + Size
  BY SizeFacts, SMT

LEMMA ModWrap == Size % Size = 0
  BY SizeFacts, SMT

(* The distance, in epochs, from an entry to the newest one                *)
LEMMA AgeIs ==
    ASSUME NEW i \in Slots, NEW ix \in Slots
    PROVE  Age(i, ix) = (IF i < ix THEN ix - 1 - i ELSE ix - 1 - i + Size) /\ Age(i, ix) \in Slots
<1>1. CASE i < ix
  <2>1. ix - 1 - i \in 0..Size - 1
    BY <1>1, SizeFacts DEF Slots
  <2> QED BY <1>1, <2>1, ModSmall DEF Age, Slots
<1>2. CASE ~(i < ix)
  <2>1. ix - 1 - i \in -Size..-1 /\ ix - 1 - i + Size \in 0..Size - 1
    BY <1>2, SizeFacts DEF Slots
  <2> QED BY <1>2, <2>1, ModNegative DEF Age, Slots
<1> QED BY <1>1, <1>2

LEMMA NextIxIs ==
    ASSUME NEW ix \in Slots
    PROVE  NextIx(ix) = (IF ix = Size - 1 THEN 0 ELSE ix + 1) /\ NextIx(ix) \in Slots
<1>1. CASE ix = Size - 1
  <2>1. ix + 1 = Size
    BY <1>1, SizeFacts
  <2> QED BY <1>1, <2>1, ModWrap, SizeFacts DEF NextIx, Slots
<1>2. CASE ix # Size - 1
  <2>1. ix + 1 \in 0..Size - 1
    BY <1>2, SizeFacts DEF Slots
  <2> QED BY <1>2, <2>1, ModSmall DEF NextIx, Slots
<1> QED BY <1>1, <1>2

(* An entry gets older by one when the next one is added, and the one after
   the place of the new one is the oldest.                                 *)
LEMMA AgeOfNext ==
    ASSUME NEW ix \in Slots
    PROVE  /\ NextIx(ix) # ix
           /\ Age(ix, NextIx(ix)) = 0 /\ Age(ix, ix) = Size - 1
           /\ \A i \in Slots \ {ix} : Age(i, NextIx(ix)) = Age(i, ix) + 1 /\ Age(i, ix) < Size - 1
<1>1. NextIx(ix) \in Slots
  BY NextIxIs
<1>2. NextIx(ix) # ix /\ Age(ix, NextIx(ix)) = 0 /\ Age(ix, ix) = Size - 1
  <2>1. Age(ix, ix) = IF ix < ix THEN ix - 1 - ix ELSE ix - 1 - ix + Size
    BY AgeIs
  <2>2. Age(ix, NextIx(ix)) = IF ix < NextIx(ix) THEN NextIx(ix) - 1 - ix ELSE NextIx(ix) - 1 - ix + Size
    BY <1>1, AgeIs
  <2> QED BY <2>1, <2>2, NextIxIs, SizeFacts DEF Slots
<1>3. ASSUME NEW i \in Slots \ {ix}
      PROVE  Age(i, NextIx(ix)) = Age(i, ix) + 1 /\ Age(i, ix) < Size - 1
  <2>1. Age(i, ix) = IF i < ix THEN ix - 1 - i ELSE ix - 1 - i + Size
    BY AgeIs
  <2>2. Age(i, NextIx(ix)) = IF i < NextIx(ix) THEN NextIx(ix) - 1 - i ELSE NextIx(ix) - 1 - i + Size
    BY <1>1, AgeIs
  <2> QED BY <2>1, <2>2, NextIxIs, SizeFacts DEF Slots
<1> QED BY <1>2, <1>3
-----------------------------------------------------------------------------
(* The entries in use are, apart from the next place, those of an age below
   the number of epochs. The next place is in use when all are, or has just
   been written to.                                                        *)
Places ==
    /\ epochs = [i \in Slots |-> epochs[i]]
    /\ \A i \in Slots : epochs[i].valid \in BOOLEAN
    /\ \A i \in Slots \ {epochIx} : epochs[i].valid <=> Age(i, epochIx) < epochsValidCnt
    /\ epochs[epochIx].valid <=> IF Unlocked THEN epochsValidCnt = Size ELSE copied
    /\ copied => epochs[epochIx].raw = adding

Counted ==
    Cardinality(ValidIn(epochs) \ {epochIx}) = IF epochsValidCnt = Size THEN Size - 1 ELSE epochsValidCnt

(* The latest epoch is just before the next place                          *)
Latest ==
    /\ epochIxLast = -1 <=> epochsValidCnt = 0
    /\ epochIxLast # -1 => Age(epochIxLast, epochIx) = 0

(* The age of the entry that the main thread has a pointer to is known as
   long as it is less than that of the next place                          *)
HeldAge ==
    /\ held \in [slot : Slots, raw : Raw, newer : Nat] \cup {None}
    /\ held # None /\ held.newer < Size - 1 =>
        /\ Age(held.slot, epochIx) = held.newer /\ held.newer < epochsValidCnt
        /\ epochs[held.slot].raw = held.raw

IInv == TypeOK /\ Places /\ Counted /\ Latest /\ HeldAge
-----------------------------------------------------------------------------
LEMMA SlotsFinite == IsFiniteSet(Slots) /\ Cardinality(Slots) = Size
BY FS_Interval, SizeFacts DEF Slots

LEMMA InitInv == Init => IInv
<1> SUFFICES ASSUME Init PROVE IInv
  OBVIOUS
<1>1. epochIx \in Slots /\ epochIx = 0 /\ epochsValidCnt = 0 /\ epochIxLast = -1 /\ adding = None /\ copied = FALSE
  BY SizeFacts DEF Init, Slots
<1>2. \A i \in Slots : epochs[i].valid = FALSE
  BY DEF Init, NoEpoch
<1>3. TypeOK
  <2>1. refPos \in {"MEAN", "LAST", "USER"}
    BY DEF Init
  <2>2. copied \in BOOLEAN /\ (copied => ~Unlocked)
    BY <1>1
  <2>3. \A i \in Slots : epochs[i].valid => epochs[i].raw \in Raw
    BY <1>2
  <2>4. epochIx \in Slots /\ epochIxLast \in Slots \cup {-1} /\ epochsValidCnt \in 0..Size
    BY <1>1, SizeFacts
  <2>5. adding \in Raw \cup {None}
    BY <1>1
  <2> QED BY <2>1, <2>2, <2>3, <2>4, <2>5 DEF TypeOK
<1>4. Places
  <2>1. \A i \in Slots : ~(Age(i, epochIx) < 0)
    BY <1>1, AgeIs, SizeFacts DEF Slots
  <2>2. epochs = [i \in Slots |-> epochs[i]]
    BY DEF Init
  <2>3. \A i \in Slots : epochs[i].valid \in BOOLEAN
    BY <1>2
  <2>4. \A i \in Slots \ {epochIx} : epochs[i].valid <=> Age(i, epochIx) < epochsValidCnt
    BY <1>1, <1>2, <2>1
  <2>5. epochs[epochIx].valid <=> IF Unlocked THEN epochsValidCnt = Size ELSE copied
    BY <1>1, <1>2, SizeFacts DEF Unlocked
  <2>6. copied => epochs[epochIx].raw = adding
    BY <1>1
  <2> QED BY <2>2, <2>3, <2>4, <2>5, <2>6 DEF Places
<1>5. Counted
  <2>1. ValidIn(epochs) \ {epochIx} = {}
    BY <1>2 DEF ValidIn
  <2> QED BY <2>1, <1>1, FS_EmptySet, SizeFacts DEF Counted
<1>6. held = None
  BY DEF Init
<1> QED BY <1>1, <1>3, <1>4, <1>5, <1>6 DEF IInv, Latest, HeldAge

(* _Sync() changes no epoch and none's place                               *)
LEMMA SyncKeeps ==
    ASSUME IInv, NEW ix, NEW mode, NEW llh, Sync(epochs, ix, mode, llh)
    PROVE  /\ epochs' = [i \in Slots |-> epochs'[i]]
           /\ \A i \in Slots : epochs'[i].valid = epochs[i].valid /\ epochs'[i].raw = epochs[i].raw
           /\ ValidIn(epochs') = ValidIn(epochs)
           /\ epochsValidCnt' = Cardinality(ValidIn(epochs))
<1>1. PICK ref : epochs' = [i \in Slots |-> IF i \in PosIn(epochs) THEN Entry(epochs[i].raw, ref) ELSE epochs[i]]
  BY Zenon DEF Sync
<1>2. \A i \in Slots : epochs'[i].valid = epochs[i].valid /\ epochs'[i].raw = epochs[i].raw
  <2> SUFFICES ASSUME NEW i \in Slots
               PROVE  epochs'[i].valid = epochs[i].valid /\ epochs'[i].raw = epochs[i].raw
    OBVIOUS
  <2>1. CASE i \in PosIn(epochs)
    <3>1. epochs[i].valid = TRUE
      BY <2>1 DEF PosIn, ValidIn, IInv, Places
    <3> QED BY <1>1, <2>1, <3>1 DEF Entry
  <2>2. CASE i \notin PosIn(epochs)
    BY <1>1, <2>2
  <2> QED BY <2>1, <2>2
<1> QED BY <1>1, <1>2 DEF ValidIn, Sync
-----------------------------------------------------------------------------
(* Writing to the next place, before the indices advance                   *)
LEMMA WriteInv ==
    ASSUME IInv, NEW entry,
           epochs' = [epochs EXCEPT ![epochIx] = entry],
           adding' \in Raw, copied' \in BOOLEAN,
           entry.valid = copied', copied' => entry.raw = adding',
           UNCHANGED <<epochIx, epochIxLast, epochsValidCnt, refPos, held>>
    PROVE  IInv'
<1> USE DEF IInv
<1>1. epochIx \in Slots /\ epochsValidCnt \in 0..Size /\ adding' # None
  BY SizeFacts DEF TypeOK
<1>2. /\ epochs' = [i \in Slots |-> epochs'[i]]
      /\ epochs'[epochIx] = entry
      /\ \A i \in Slots \ {epochIx} : epochs'[i] = epochs[i]
  BY <1>1 DEF Places
<1>3. \A i \in Slots : epochs'[i].valid \in BOOLEAN /\ (epochs'[i].valid => epochs'[i].raw \in Raw)
  BY <1>2 DEF TypeOK, Places
<1>4. TypeOK'
  <2>1. copied' \in BOOLEAN /\ (copied' => ~Unlocked')
    BY <1>1 DEF Unlocked
  <2> QED BY <1>1, <1>3, <2>1 DEF TypeOK
<1>5. Places'
  <2>1. \A i \in Slots \ {epochIx} : epochs'[i].valid <=> Age(i, epochIx) < epochsValidCnt
    BY <1>2 DEF Places
  <2>2. epochs'[epochIx].valid <=> IF Unlocked' THEN epochsValidCnt = Size ELSE copied'
    BY <1>1, <1>2 DEF Unlocked
  <2>3. copied' => epochs'[epochIx].raw = adding'
    BY <1>2
  <2>4. \A i \in Slots : epochs'[i].valid \in BOOLEAN
    BY <1>3
  <2> QED BY <1>2, <2>1, <2>2, <2>3, <2>4 DEF Places
<1>6. Counted'
  <2>1. ValidIn(epochs') \ {epochIx} = ValidIn(epochs) \ {epochIx}
    BY <1>2 DEF ValidIn
  <2> QED BY <2>1 DEF Counted
<1>7. HeldAge'
  <2> SUFFICES ASSUME held # None, held.newer < Size - 1 PROVE epochs'[held.slot].raw = held.raw
    BY DEF HeldAge
  <2>1. held.slot \in Slots /\ held.slot # epochIx
    BY <1>1, AgeOfNext, SizeFacts DEF HeldAge
  <2> QED BY <1>2, <2>1 DEF HeldAge
<1> QED BY <1>4, <1>5, <1>6, <1>7 DEF Latest

LEMMA AddInv == ASSUME IInv, NEW raw \in Raw, AddEpoch(raw) PROVE IInv'
<1>1. copied' = FALSE
  BY DEF IInv, TypeOK, AddEpoch
<1>2. NoEpoch.valid = FALSE
  BY DEF NoEpoch
<1> QED BY <1>1, <1>2, WriteInv DEF AddEpoch

LEMMA CopyInv == ASSUME IInv, CopyEpoch PROVE IInv'
<1>1. adding \in Raw
  BY DEF IInv, TypeOK, CopyEpoch, Unlocked
<1>2. Entry(adding, NoRef).valid = TRUE /\ Entry(adding, NoRef).raw = adding
  BY DEF Entry
<1> QED BY <1>1, <1>2, WriteInv DEF CopyEpoch

(* Once the entry is copied there is one more in use, or all of them are    *)
LEMMA ValidWhenCopied ==
    ASSUME IInv, copied
    PROVE  Cardinality(ValidIn(epochs)) = IF epochsValidCnt = Size THEN Size ELSE epochsValidCnt + 1
<1> DEFINE others == ValidIn(epochs) \ {epochIx}
<1>1. epochIx \in Slots /\ epochsValidCnt \in 0..Size
  BY DEF IInv, TypeOK
<1>2. epochIx \in ValidIn(epochs)
  BY <1>1 DEF IInv, TypeOK, Places, ValidIn
<1>3. ValidIn(epochs) = others \cup {epochIx} /\ epochIx \notin others
  BY <1>2
<1>4. IsFiniteSet(others)
  BY FS_Subset, SlotsFinite DEF ValidIn
<1>5. Cardinality(others \cup {epochIx}) = Cardinality(others) + 1
  BY <1>3, <1>4, FS_AddElement
<1> QED BY <1>1, <1>3, <1>5, SizeFacts DEF IInv, Counted

LEMMA DoneInv == ASSUME IInv, AddDone PROVE IInv'
<1> USE DEF IInv
<1>1. /\ epochIx \in Slots /\ epochsValidCnt \in 0..Size /\ ~Unlocked /\ copied
      /\ epochIxLast' = epochIx /\ epochIx' = NextIx(epochIx) /\ adding' = None /\ copied' = FALSE
      /\ held' = (IF held = None THEN None ELSE [held EXCEPT !.newer = @ + 1])
      /\ refPos' = refPos
  BY DEF AddDone, TypeOK
<1>2. /\ epochs' = [i \in Slots |-> epochs'[i]]
      /\ \A i \in Slots : epochs'[i].valid = epochs[i].valid /\ epochs'[i].raw = epochs[i].raw
      /\ ValidIn(epochs') = ValidIn(epochs)
      /\ epochsValidCnt' = Cardinality(ValidIn(epochs))
  BY SyncKeeps DEF AddDone
<1>3. epochsValidCnt' = IF epochsValidCnt = Size THEN Size ELSE epochsValidCnt + 1
  BY <1>1, <1>2, ValidWhenCopied
<1>4. /\ epochIx' \in Slots /\ epochIx' # epochIx
      /\ Age(epochIx, epochIx') = 0 /\ Age(epochIx, epochIx) = Size - 1
      /\ \A i \in Slots \ {epochIx} : Age(i, epochIx') = Age(i, epochIx) + 1 /\ Age(i, epochIx) < Size - 1
  BY <1>1, NextIxIs, AgeOfNext
<1>5. epochs[epochIx].valid = TRUE /\ epochs[epochIx].raw = adding
  BY <1>1 DEF Places, TypeOK
<1>6. TypeOK'
  <2>1. \A i \in Slots : epochs'[i].valid => epochs'[i].raw \in Raw
    BY <1>2 DEF TypeOK
  <2>2. epochsValidCnt' \in 0..Size
    BY <1>1, <1>3, SizeFacts
  <2> QED BY <1>1, <1>4, <2>1, <2>2 DEF TypeOK
<1>7. ASSUME NEW i \in Slots PROVE epochs'[i].valid <=> Age(i, epochIx') < epochsValidCnt'
  <2>1. CASE i = epochIx
    BY <1>1, <1>2, <1>3, <1>4, <1>5, <2>1, SizeFacts
  <2>2. CASE i # epochIx
    <3>1. epochs[i].valid <=> Age(i, epochIx) < epochsValidCnt
      BY <2>2 DEF Places
    <3>2. Age(i, epochIx') = Age(i, epochIx) + 1 /\ Age(i, epochIx) < Size - 1 /\ Age(i, epochIx) \in Slots
      BY <1>1, <1>4, <2>2, AgeIs
    <3>3. Age(i, epochIx) < epochsValidCnt <=> Age(i, epochIx') < epochsValidCnt'
      BY <1>1, <1>3, <3>2, SizeFacts DEF Slots
    <3> QED BY <1>2, <3>1, <3>3
  <2> QED BY <2>1, <2>2
<1>8. epochs'[epochIx'].valid <=> epochsValidCnt' = Size
  <2>1. Age(epochIx', epochIx') = Size - 1
    BY <1>4, AgeOfNext
  <2>2. epochsValidCnt' \in 0..Size
    BY <1>1, <1>3, SizeFacts
  <2> QED BY <1>4, <1>7, <2>1, <2>2, SizeFacts
<1>9. Places'
  <2>1. \A i \in Slots : epochs'[i].valid \in BOOLEAN
    BY <1>2 DEF Places
  <2>2. epochs'[epochIx'].valid <=> IF Unlocked' THEN epochsValidCnt' = Size ELSE copied'
    BY <1>1, <1>8 DEF Unlocked
  <2> QED BY <1>1, <1>2, <1>7, <2>1, <2>2 DEF Places
<1>10. Counted'
  <2> DEFINE rest == ValidIn(epochs') \ {epochIx'}
  <2>1. IsFiniteSet(ValidIn(epochs'))
    BY <1>2, FS_Subset, SlotsFinite DEF ValidIn
  <2>2. epochIx' \in ValidIn(epochs') <=> epochsValidCnt' = Size
    BY <1>4, <1>8 DEF ValidIn
  <2>3. CASE epochsValidCnt' = Size
    <3>1. Cardinality(rest) = Cardinality(ValidIn(epochs')) - 1
      BY <2>1, <2>2, <2>3, FS_RemoveElement
    <3> QED BY <1>2, <2>3, <3>1 DEF Counted
  <2>4. CASE epochsValidCnt' # Size
    <3>1. rest = ValidIn(epochs')
      BY <2>2, <2>4
    <3> QED BY <1>2, <2>4, <3>1 DEF Counted
  <2> QED BY <2>3, <2>4
<1>11. Latest'
  BY <1>1, <1>3, <1>4, SizeFacts DEF Latest, Slots
<1>12. HeldAge'
  <2>1. CASE held = None
    BY <1>1, <2>1 DEF HeldAge
  <2>2. CASE held # None
    <3>1. held \in [slot : Slots, raw : Raw, newer : Nat]
      BY <2>2 DEF HeldAge
    <3>2. held' \in [slot : Slots, raw : Raw, newer : Nat]
      BY <1>1, <2>2, <3>1
    <3>3. held'.slot = held.slot /\ held'.raw = held.raw /\ held'.newer = held.newer + 1 /\ held.slot \in Slots
          /\ held.newer \in Nat
      BY <1>1, <2>2, <3>1
    <3>4. ASSUME held'.newer < Size - 1
          PROVE  /\ Age(held.slot, epochIx') = held'.newer /\ held'.newer < epochsValidCnt'
                 /\ epochs'[held.slot].raw = held.raw
      <4>1. Age(held.slot, epochIx) = held.newer /\ held.newer < epochsValidCnt /\ epochs[held.slot].raw = held.raw
        BY <2>2, <3>3, <3>4, SizeFacts DEF HeldAge
      <4>2. held.slot # epochIx
        BY <1>4, <3>3, <3>4, <4>1, SizeFacts
      <4> QED BY <1>1, <1>2, <1>3, <1>4, <3>3, <3>4, <4>1, <4>2, SizeFacts
    <3> QED BY <3>2, <3>3, <3>4 DEF HeldAge
  <2> QED BY <2>1, <2>2
<1> QED BY <1>6, <1>9, <1>10, <1>11, <1>12

LEMMA ClearInv == ASSUME IInv, Clear PROVE IInv'
<1>1. /\ epochs' = [i \in Slots |-> NoEpoch]
      /\ epochIx' = 0 /\ epochIxLast' = -1 /\ epochsValidCnt' = 0 /\ held' = None
      /\ adding = None /\ adding' = None /\ copied' = copied /\ refPos' = refPos
  BY DEF Clear, Unlocked
<1>2. copied = FALSE
  BY <1>1 DEF IInv, TypeOK, Unlocked
<1>3. \A i \in Slots : epochs'[i].valid = FALSE
  BY <1>1 DEF NoEpoch
<1>4. TypeOK'
  <2>1. refPos' \in {"MEAN", "LAST", "USER"}
    BY <1>1 DEF IInv, TypeOK
  <2>2. epochIx' \in Slots /\ epochIxLast' \in Slots \cup {-1} /\ epochsValidCnt' \in 0..Size
    BY <1>1, SizeFacts DEF Slots
  <2>3. copied' \in BOOLEAN /\ (copied' => ~Unlocked')
    BY <1>1, <1>2
  <2>4. \A i \in Slots : epochs'[i].valid => epochs'[i].raw \in Raw
    BY <1>3
  <2> QED BY <1>1, <2>1, <2>2, <2>3, <2>4 DEF TypeOK
<1>5. Places'
  <2>1. 0 \in Slots /\ \A i \in Slots : ~(Age(i, 0) < 0)
    BY AgeIs, SizeFacts DEF Slots
  <2>2. \A i \in Slots : epochs'[i].valid \in BOOLEAN
    BY <1>3
  <2>3. \A i \in Slots \ {epochIx'} : epochs'[i].valid <=> Age(i, epochIx') < epochsValidCnt'
    BY <1>1, <1>3, <2>1
  <2>4. epochs'[epochIx'].valid <=> IF Unlocked' THEN epochsValidCnt' = Size ELSE copied'
    BY <1>1, <1>3, <2>1, SizeFacts DEF Unlocked
  <2>5. copied' => epochs'[epochIx'].raw = adding'
    BY <1>1, <1>2
  <2>6. epochs' = [i \in Slots |-> epochs'[i]]
    BY <1>1
  <2> QED BY <2>2, <2>3, <2>4, <2>5, <2>6 DEF Places
<1>6. Counted'
  <2>1. ValidIn(epochs') \ {epochIx'} = {}
    BY <1>3 DEF ValidIn
  <2> QED BY <1>1, <2>1, FS_EmptySet, SizeFacts DEF Counted
<1> QED BY <1>1, <1>4, <1>5, <1>6 DEF IInv, Latest, HeldAge

LEMMA ValidWhenUnlocked == ASSUME IInv, Unlocked PROVE Cardinality(ValidIn(epochs)) = epochsValidCnt
<1>1. epochIx \in Slots /\ epochsValidCnt \in 0..Size
  BY DEF IInv, TypeOK
<1>2. epochIx \in ValidIn(epochs) <=> epochsValidCnt = Size
  BY <1>1 DEF IInv, Places, ValidIn
<1>3. IsFiniteSet(ValidIn(epochs)) /\ Cardinality(ValidIn(epochs)) \in Nat
  BY FS_Subset, FS_CardinalityType, SlotsFinite DEF ValidIn
<1>4. CASE epochsValidCnt = Size
  <2>1. Cardinality(ValidIn(epochs) \ {epochIx}) = Cardinality(ValidIn(epochs)) - 1
    BY <1>2, <1>3, <1>4, FS_RemoveElement
  <2> QED BY <1>3, <1>4, <2>1, SizeFacts DEF IInv, Counted
<1>5. CASE epochsValidCnt # Size
  <2>1. ValidIn(epochs) \ {epochIx} = ValidIn(epochs)
    BY <1>2, <1>5
  <2> QED BY <1>5, <2>1 DEF IInv, Counted
<1> QED BY <1>4, <1>5

LEMMA RefPosInv ==
    ASSUME IInv, NEW mode \in {"MEAN", "LAST", "USER"}, SetRefPos(mode)
    PROVE  IInv'
<1> USE DEF IInv
<1>1. /\ adding = None /\ adding' = None /\ refPos' = mode
      /\ UNCHANGED <<epochIx, epochIxLast, copied, held>>
  BY DEF SetRefPos, Unlocked
<1>2. copied = FALSE /\ epochIx \in Slots /\ epochsValidCnt \in 0..Size
  BY <1>1 DEF TypeOK, Unlocked
<1>3. /\ epochs' = [i \in Slots |-> epochs'[i]]
      /\ \A i \in Slots : epochs'[i].valid = epochs[i].valid /\ epochs'[i].raw = epochs[i].raw
      /\ ValidIn(epochs') = ValidIn(epochs)
      /\ epochsValidCnt' = Cardinality(ValidIn(epochs))
  BY SyncKeeps DEF SetRefPos
<1>4. epochsValidCnt' = epochsValidCnt
  BY <1>1, <1>3, ValidWhenUnlocked DEF Unlocked
<1>5. TypeOK'
  <2>1. \A i \in Slots : epochs'[i].valid => epochs'[i].raw \in Raw
    BY <1>3 DEF TypeOK
  <2>2. copied' \in BOOLEAN /\ (copied' => ~Unlocked')
    BY <1>1, <1>2
  <2> QED BY <1>1, <1>4, <2>1, <2>2 DEF TypeOK
<1>6. Places'
  BY <1>1, <1>2, <1>3, <1>4 DEF Places, Unlocked
<1>7. HeldAge'
  BY <1>1, <1>3, <1>4 DEF HeldAge
<1> QED BY <1>1, <1>3, <1>4, <1>5, <1>6, <1>7 DEF Latest, Counted

(* Readers change nothing but the pointer they have                        *)
LEMMA HeldInv ==
    ASSUME IInv, HeldAge',
           UNCHANGED <<epochs, epochIx, epochIxLast, epochsValidCnt, refPos, adding, copied>>
    PROVE  IInv'
BY DEF IInv, TypeOK, Places, Counted, Latest, Unlocked

LEMMA LatestInv == ASSUME IInv, LatestEpoch PROVE IInv'
<1> USE DEF IInv
<1>1. epochIxLast \in Slots /\ epochIx \in Slots /\ epochsValidCnt \in 0..Size
  BY SizeFacts DEF LatestEpoch, TypeOK, Slots
<1>2. epochsValidCnt # 0 /\ Age(epochIxLast, epochIx) = 0
  BY <1>1, SizeFacts DEF Latest, Slots
<1>3. epochIxLast # epochIx
  BY <1>1, <1>2, AgeOfNext, SizeFacts
<1>4. epochs[epochIxLast].raw \in Raw
  BY <1>1, <1>2, <1>3, SizeFacts DEF Places, TypeOK
<1>5. held' = [slot |-> epochIxLast, raw |-> epochs[epochIxLast].raw, newer |-> 0] /\ UNCHANGED <<epochs, epochIx, epochsValidCnt>>
  BY DEF LatestEpoch
<1>6. HeldAge'
  BY <1>1, <1>2, <1>4, <1>5, SizeFacts DEF HeldAge
<1> QED BY <1>6, HeldInv DEF LatestEpoch

LEMMA FindInv == ASSUME IInv, FindLastPos PROVE IInv'
<1> USE DEF IInv
<1>1. PICK i \in PosIn(epochs) : held' = [slot |-> i, raw |-> epochs[i].raw, newer |-> Age(i, epochIx)]
  BY DEF FindLastPos
<1>2. i \in Slots /\ epochs[i].valid /\ epochIx \in Slots /\ Age(i, epochIx) \in Nat
  BY AgeIs DEF PosIn, ValidIn, TypeOK, Slots
<1>3. ASSUME Age(i, epochIx) < Size - 1 PROVE Age(i, epochIx) < epochsValidCnt
  <2>1. i # epochIx
    BY <1>2, <1>3, AgeOfNext, SizeFacts
  <2> QED BY <1>2, <2>1 DEF Places
<1>4. epochs[i].raw \in Raw
  BY <1>2 DEF TypeOK
<1>5. HeldAge'
  BY <1>1, <1>2, <1>3, <1>4 DEF HeldAge, FindLastPos
<1> QED BY <1>5, HeldInv DEF FindLastPos

LEMMA ReleaseInv == ASSUME IInv, Release PROVE IInv'
BY HeldInv DEF Release, HeldAge

LEMMA NextInv == IInv /\ [Next]_dbVars => IInv'
<1> SUFFICES ASSUME IInv, [Next]_dbVars PROVE IInv'
  OBVIOUS
<1>1. ASSUME NEW raw \in Raw, AddEpoch(raw) PROVE IInv'
  BY <1>1, AddInv
<1>2. CASE CopyEpoch
  BY <1>2, CopyInv
<1>3. CASE AddDone
  BY <1>3, DoneInv
<1>4. CASE Clear
  BY <1>4, ClearInv
<1>5. ASSUME NEW mode \in {"MEAN", "LAST", "USER"}, SetRefPos(mode) PROVE IInv'
  BY <1>5, RefPosInv
<1>6. CASE Reader
  BY <1>6, LatestInv, FindInv, ReleaseInv DEF Reader
<1>7. CASE UNCHANGED dbVars
  <2>1. HeldAge'
    BY <1>7 DEF dbVars, HeldAge, IInv
  <2> QED BY <1>7, <2>1, HeldInv DEF dbVars
<1> QED BY <1>1, <1>2, <1>3, <1>4, <1>5, <1>6, <1>7 DEF Next, Main

(* The inductive invariant holds in every state of the database.            *)
THEOREM Invariance == Spec => []IInv
<1>1. Init => IInv
  BY InitInv
<1>2. IInv /\ [Next]_dbVars => IInv'
  BY NextInv
<1> QED BY <1>1, <1>2, PTL DEF Spec

(* The state has its type, and the indices stay within the ring.           *)
THEOREM TypeCorrect == Spec => []TypeOK
<1>1. IInv => TypeOK
  BY DEF IInv
<1> QED BY <1>1, Invariance, PTL

(* What LatestEpoch() points to, without the mutex, is complete and is the
   newest epoch, at every moment.                                          *)
THEOREM LatestAlwaysComplete == Spec => []LatestIsComplete
<1>1. ASSUME IInv PROVE LatestIsComplete
  <2> USE <1>1 DEF IInv
  <2>1. epochIx \in Slots /\ epochIxLast \in Slots \cup {-1} /\ epochsValidCnt \in 0..Size
    BY DEF TypeOK
  <2>2. (epochIxLast = -1) <=> (epochsValidCnt = 0)
    BY DEF Latest
  <2>3. ASSUME epochIxLast # -1
        PROVE  epochs[epochIxLast].valid /\ epochIxLast = SlotOf(epochsValidCnt - 1)
    <3>1. epochIxLast \in Slots /\ Age(epochIxLast, epochIx) = 0 /\ epochsValidCnt # 0
      BY <2>1, <2>2, <2>3 DEF Latest
    <3>2. epochIxLast # epochIx
      BY <2>1, <3>1, AgeOfNext, SizeFacts
    <3>3. epochs[epochIxLast].valid
      BY <2>1, <3>1, <3>2, SizeFacts DEF Places
    <3>4. Age(epochIxLast, epochIx) = IF epochIxLast < epochIx THEN epochIx - 1 - epochIxLast ELSE epochIx - 1 - epochIxLast + Size
      BY <2>1, <3>1, AgeIs
    <3>5. epochIxLast = SlotOf(epochsValidCnt - 1)
      BY <2>1, <3>1, <3>4, SizeFacts DEF SlotOf, Slots
    <3> QED BY <3>3, <3>5
  <2> QED BY <2>2, <2>3 DEF LatestIsComplete
<1> QED BY <1>1, Invariance, PTL

(* A pointer to an epoch, used without the mutex, is good until Size - 1
   newer epochs have come in.                                              *)
THEOREM PointersProtected == Spec => []HeldIntact
<1>1. ASSUME IInv PROVE HeldIntact
  <2> USE <1>1 DEF IInv
  <2> SUFFICES ASSUME held # None, held.newer < Size - 1
               PROVE  epochs[held.slot].valid /\ epochs[held.slot].raw = held.raw
    BY DEF HeldIntact
  <2>1. held.slot \in Slots /\ epochIx \in Slots /\ Age(held.slot, epochIx) = held.newer
        /\ held.newer < epochsValidCnt /\ epochs[held.slot].raw = held.raw
    BY DEF HeldAge, TypeOK
  <2>2. held.slot # epochIx
    BY <2>1, AgeOfNext, SizeFacts
  <2> QED BY <2>1, <2>2 DEF Places
<1> QED BY <1>1, Invariance, PTL
-----------------------------------------------------------------------------
(* A non-empty set of natural numbers has a least element.                 *)
LEMMA LeastElement == ASSUME NEW T \in SUBSET Nat, T # {} PROVE \E x \in T : \A y \in T : x <= y
<1> DEFINE R == {ss \in Nat \X Nat : ss[1] < ss[2]}
<1>1. IsWellFoundedOn(R, Nat)
  BY NatLessThanWellFounded DEF OpToRel
<1> HIDE DEF R
<1>2. PICK x \in T : \A y \in T : <<y, x>> \notin R
  BY <1>1, WFMin
<1>3. \A y \in T : ~(y < x)
  BY <1>2 DEF R
<1> QED BY <1>3

(* Whoever calls _Sync() leaves the reference position, what is relative to
   it and the statistics current                                           *)
LEMMA SyncMakesCurrent ==
    ASSUME IInv, NEW mode \in {"MEAN", "LAST", "USER"}, NEW llh,
           Sync(epochs, epochIx', mode, llh), refPos' = mode, epochIx' \in Slots
    PROVE  Synchronised'
<1> DEFINE S == {epochs[i].raw : i \in PosIn(epochs)}
<1>1. /\ \A i \in Slots : epochs'[i].valid = epochs[i].valid /\ epochs'[i].raw = epochs[i].raw
      /\ ValidIn(epochs') = ValidIn(epochs)
  BY SyncKeeps
<1>2. PosIn(epochs') = PosIn(epochs)
  <2>1. \A i \in ValidIn(epochs) : epochs'[i].raw = epochs[i].raw
    BY <1>1 DEF ValidIn
  <2> QED BY <1>1, <2>1 DEF PosIn
<1>3. \A i \in PosIn(epochs) : epochs'[i].raw = epochs[i].raw
  BY <1>1 DEF PosIn, ValidIn
<1>4. {epochs'[i].raw : i \in PosIn(epochs')} = S
  BY <1>2, <1>3
<1>5. ASSUME S # {} PROVE LastPos(epochs', epochIx') = LastPos(epochs, epochIx')
  <2> DEFINE newest == CHOOSE i \in PosIn(epochs) : \A j \in PosIn(epochs) : Age(i, epochIx') <= Age(j, epochIx')
  <2>1. \E i \in PosIn(epochs) : \A j \in PosIn(epochs) : Age(i, epochIx') <= Age(j, epochIx')
    <3> DEFINE ages == {Age(i, epochIx') : i \in PosIn(epochs)}
    <3>1. PosIn(epochs) # {} /\ PosIn(epochs) \subseteq Slots
      BY <1>5 DEF PosIn, ValidIn
    <3>2. \A i \in Slots : Age(i, epochIx') \in Nat
      BY AgeIs DEF Slots
    <3>3. ages \in SUBSET Nat /\ ages # {}
      BY <3>1, <3>2
    <3>4. PICK x \in ages : \A y \in ages : x <= y
      BY <3>3, LeastElement
    <3> QED BY <3>4
  <2>2. newest \in PosIn(epochs)
    BY <2>1
  <2>3. LastPos(epochs, epochIx') = PosOf(epochs[newest].raw) /\ LastPos(epochs', epochIx') = PosOf(epochs'[newest].raw)
    BY <1>2 DEF LastPos
  <2> QED BY <1>3, <2>2, <2>3
<1>6. \A i \in PosIn(epochs) : epochs'[i].enuRef = refPosLlh'
  <2>1. PosIn(epochs) \subseteq Slots
    BY DEF PosIn, ValidIn
  <2> QED BY <2>1 DEF Sync, Entry
<1>7. /\ mode = "MEAN" => refPosLlh' = Mean(S)
      /\ mode = "LAST" /\ S # {} => refPosLlh' = LastPos(epochs, epochIx')
  BY DEF Sync
<1>8. S # {} => stats' = S
  BY DEF Sync, StatsOf
<1> HIDE DEF S
<1> QED BY <1>2, <1>4, <1>5, <1>6, <1>7, <1>8 DEF Synchronised

(* When nobody is just adding an epoch, the reference position, what is
   relative to it and the statistics are those of the epochs in the ring.  *)
THEOREM AlwaysSynchronised == Spec => []Synchronised
<1>1. Init => Synchronised
  <2> SUFFICES ASSUME Init PROVE Synchronised
    OBVIOUS
  <2>1. PosIn(epochs) = {} /\ epochsValidCnt = 0
    BY DEF Init, PosIn, ValidIn, NoEpoch
  <2> QED BY <2>1 DEF Synchronised
<1>2. IInv /\ Synchronised /\ [Next]_dbVars => Synchronised'
  <2> SUFFICES ASSUME IInv, Synchronised, [Next]_dbVars PROVE Synchronised'
    OBVIOUS
  <2>1. ASSUME NEW raw \in Raw, AddEpoch(raw) PROVE Synchronised'
    BY <2>1, SizeFacts DEF AddEpoch, Synchronised, Unlocked
  <2>2. CASE CopyEpoch
    BY <2>2 DEF CopyEpoch, Synchronised, Unlocked
  <2>3. CASE AddDone
    <3>1. refPos \in {"MEAN", "LAST", "USER"} /\ refPos' = refPos /\ epochIx' \in Slots
      BY <2>3, NextIxIs DEF IInv, TypeOK, AddDone
    <3> QED BY <2>3, <3>1, SyncMakesCurrent DEF AddDone
  <2>4. CASE Clear
    <3>1. PosIn(epochs') = {} /\ epochsValidCnt' = 0
      BY <2>4 DEF Clear, PosIn, ValidIn, NoEpoch
    <3> QED BY <3>1 DEF Synchronised
  <2>5. ASSUME NEW mode \in {"MEAN", "LAST", "USER"}, SetRefPos(mode) PROVE Synchronised'
    <3>1. epochIx' = epochIx /\ refPos' = mode /\ epochIx \in Slots
      BY <2>5 DEF SetRefPos, IInv, TypeOK
    <3> QED BY <2>5, <3>1, SyncMakesCurrent DEF SetRefPos
  <2>6. ASSUME UNCHANGED <<epochs, epochIx, epochsValidCnt, stats, refPos, refPosLlh, adding>>
        PROVE  Synchronised'
    BY <2>6 DEF Synchronised, Unlocked, PosIn, ValidIn, LastPos
  <2>7. CASE Reader
    BY <2>6, <2>7 DEF Reader, LatestEpoch, FindLastPos, Release
  <2>8. CASE UNCHANGED dbVars
    BY <2>6, <2>8 DEF dbVars
  <2> QED BY <2>1, <2>2, <2>3, <2>4, <2>5, <2>7, <2>8 DEF Next, Main
<1> QED BY <1>1, <1>2, Invariance, PTL DEF Spec
-----------------------------------------------------------------------------
(* The refinement. Where GetEpoch() finds the epochs: each in a place in
   use, and none but the oldest of a full ring in the next place           *)
LEMMA SlotIs ==
    ASSUME IInv, NEW m \in 0..epochsValidCnt - 1
    PROVE  /\ SlotOf(m) \in Slots
           /\ SlotOf(m) = epochIx <=> epochsValidCnt = Size /\ m = 0
           /\ SlotOf(m) # epochIx \/ Unlocked => epochs[SlotOf(m)].raw \in Raw
<1> USE DEF IInv
<1>1. epochIx \in 0..Size - 1 /\ epochsValidCnt \in 0..Size /\ m \in Nat /\ m < epochsValidCnt
  BY DEF TypeOK, Slots
<1>2. SlotOf(m) = IF epochIx - epochsValidCnt + m < 0 THEN epochIx - epochsValidCnt + m + Size ELSE epochIx - epochsValidCnt + m
  BY DEF SlotOf
<1>3. SlotOf(m) \in Slots /\ (SlotOf(m) = epochIx <=> epochsValidCnt = Size /\ m = 0)
  BY <1>1, <1>2, SizeFacts DEF Slots
<1>4. ASSUME SlotOf(m) # epochIx PROVE epochs[SlotOf(m)].raw \in Raw
  <2>1. Age(SlotOf(m), epochIx) = IF SlotOf(m) < epochIx THEN epochIx - 1 - SlotOf(m) ELSE epochIx - 1 - SlotOf(m) + Size
    BY <1>3, AgeIs DEF TypeOK
  <2>2. Age(SlotOf(m), epochIx) < epochsValidCnt
    BY <1>1, <1>2, <1>4, <2>1, SizeFacts
  <2> QED BY <1>3, <1>4, <2>2 DEF Places, TypeOK
<1>5. ASSUME SlotOf(m) = epochIx, Unlocked PROVE epochs[SlotOf(m)].raw \in Raw
  BY <1>3, <1>5 DEF Places, TypeOK
<1> QED BY <1>3, <1>4, <1>5

Kept == IF epochsValidCnt < Size THEN epochsValidCnt ELSE Size - 1

LEMMA ViewIs ==
    ASSUME IInv
    PROVE  /\ Unlocked => LogView = [n \in 1..epochsValidCnt |-> epochs[SlotOf(n - 1)].raw]
           /\ ~Unlocked => LogView = [n \in 1..Kept + 1 |->
                    IF n > Kept THEN adding ELSE epochs[SlotOf(n - 1 + epochsValidCnt - Kept)].raw]
BY DEF LogView, GetEpoch, Kept

LEMMA InitRefines == Init => Log!Init
<1> SUFFICES ASSUME Init PROVE LogView = <<>>
  BY DEF Log!Init
<1>1. Unlocked /\ epochsValidCnt = 0
  BY DEF Init, Unlocked
<1>2. LogView = [n \in 1..0 |-> epochs[SlotOf(n - 1)].raw]
  BY <1>1 DEF LogView, GetEpoch
<1> QED BY <1>2

(* A new epoch is in the log when AddEpoch() has the mutex                 *)
LEMMA AddRefines ==
    ASSUME IInv, IInv', NEW raw \in Raw, AddEpoch(raw)
    PROVE  Log!Add /\ LogView' = Append(IF Len(LogView) < Size THEN LogView ELSE Tail(LogView), raw)
<1> DEFINE cnt == epochsValidCnt
<1>1. /\ Unlocked /\ adding' = raw /\ ~Unlocked' /\ epochsValidCnt' = cnt /\ epochIx' = epochIx
      /\ epochs' = [epochs EXCEPT ![epochIx] = NoEpoch]
      /\ epochIx \in Slots /\ cnt \in 0..Size /\ Kept' = Kept
  BY SizeFacts DEF AddEpoch, IInv, TypeOK, Unlocked, Kept
<1>2. LogView = [n \in 1..cnt |-> epochs[SlotOf(n - 1)].raw]
  BY <1>1, ViewIs
<1>3. \A n \in 1..cnt : epochs[SlotOf(n - 1)].raw \in Raw
  BY <1>1, SlotIs
<1>4. LogView \in Seq(Raw) /\ Len(LogView) = cnt
  BY <1>1, <1>2, <1>3
<1>5. LogView' = [n \in 1..Kept + 1 |-> IF n > Kept THEN raw ELSE epochs'[SlotOf(n - 1 + cnt - Kept)'].raw]
  <2>1. IInv' /\ ~Unlocked' => LogView' = [n \in 1..Kept' + 1 |->
                    IF n > Kept' THEN adding' ELSE epochs'[SlotOf(n - 1 + epochsValidCnt - Kept)'].raw]
    BY DEF LogView, GetEpoch, Kept
  <2> QED BY <1>1, <2>1
<1>6. \A n \in 1..Kept : epochs'[SlotOf(n - 1 + cnt - Kept)'].raw = epochs[SlotOf(n - 1 + cnt - Kept)].raw
  <2> SUFFICES ASSUME NEW n \in 1..Kept
               PROVE  epochs'[SlotOf(n - 1 + cnt - Kept)'].raw = epochs[SlotOf(n - 1 + cnt - Kept)].raw
    OBVIOUS
  <2> DEFINE m == n - 1 + cnt - Kept
  <2>1. m \in 0..cnt - 1 /\ ~(cnt = Size /\ m = 0)
    BY <1>1, SizeFacts DEF Kept
  <2>2. SlotOf(m) \in Slots /\ SlotOf(m) # epochIx
    BY <2>1, SlotIs
  <2>3. SlotOf(m)' = SlotOf(m)
    BY <1>1 DEF SlotOf
  <2> QED BY <1>1, <2>2, <2>3 DEF IInv, Places
<1>7. LogView' = [n \in 1..Kept + 1 |-> IF n > Kept THEN raw ELSE epochs[SlotOf(n - 1 + cnt - Kept)].raw]
  <2>1. \A n \in 1..Kept + 1 : ~(n > Kept) => n \in 1..Kept
    BY <1>1, SizeFacts DEF Kept
  <2> QED BY <1>5, <1>6, <2>1
<1>8. LogView' \in Seq(Raw) /\ Len(LogView') = Kept + 1
  <2>1. \A n \in 1..Kept : n - 1 + cnt - Kept \in 0..cnt - 1
    BY <1>1, SizeFacts DEF Kept
  <2>2. \A n \in 1..Kept : epochs[SlotOf(n - 1 + cnt - Kept)].raw \in Raw
    BY <1>1, <2>1, SlotIs
  <2>3. \A n \in 1..Kept + 1 : ~(n > Kept) => n \in 1..Kept
    BY <1>1, SizeFacts DEF Kept
  <2>4. Kept + 1 \in Nat
    BY <1>1, SizeFacts DEF Kept
  <2> QED BY <1>7, <2>2, <2>3, <2>4
<1> DEFINE old == IF cnt < Size THEN LogView ELSE Tail(LogView)
<1>9. /\ old \in Seq(Raw) /\ Len(old) = Kept
      /\ \A n \in 1..Kept : old[n] = epochs[SlotOf(n - 1 + cnt - Kept)].raw
  <2>1. CASE cnt < Size
    <3>1. Kept = cnt /\ \A n \in 1..cnt : n - 1 + cnt - cnt = n - 1
      BY <1>1, <2>1 DEF Kept
    <3> QED BY <1>2, <1>4, <2>1, <3>1
  <2>2. CASE ~(cnt < Size)
    <3>1. cnt = Size /\ Kept = Size - 1 /\ Size \in Nat /\ LogView # <<>>
      BY <1>1, <1>4, <2>2, SizeFacts DEF Kept
    <3>2. /\ Tail(LogView) \in Seq(Raw) /\ Len(Tail(LogView)) = Size - 1
          /\ \A n \in 1..Size - 1 : Tail(LogView)[n] = LogView[n + 1]
      BY <1>4, <3>1, HeadTailProperties
    <3>3. \A n \in 1..Size - 1 : n + 1 \in 1..cnt /\ n + 1 - 1 = n - 1 + cnt - Kept
      BY <3>1, SizeFacts
    <3>4. \A n \in 1..Size - 1 : LogView[n + 1] = epochs[SlotOf(n - 1 + cnt - Kept)].raw
      BY <1>2, <3>3
    <3> QED BY <2>2, <3>1, <3>2, <3>4
  <2> QED BY <2>1, <2>2
<1>10. /\ Append(old, raw) \in Seq(Raw) /\ Len(Append(old, raw)) = Kept + 1
       /\ \A n \in 1..Kept + 1 : Append(old, raw)[n] = IF n > Kept THEN raw ELSE old[n]
  <2> HIDE DEF old
  <2> QED BY <1>1, <1>9, SizeFacts DEF Kept
<1>11. LogView' = Append(old, raw)
  <2>1. \A n \in 1..Kept + 1 : LogView'[n] = Append(old, raw)[n]
    <3>1. \A n \in 1..Kept + 1 : ~(n > Kept) => n \in 1..Kept
      BY <1>1, SizeFacts DEF Kept
    <3> HIDE DEF old
    <3> QED BY <1>7, <1>9, <1>10, <3>1
  <2> HIDE DEF old
  <2> QED BY <1>8, <1>10, <2>1, SeqEqual
<1>12. LogView' # <<>> /\ LogView'[Len(LogView')] = raw
  <2>1. Kept + 1 \in 1..Kept + 1 /\ Kept + 1 > Kept /\ Kept + 1 > 0
    BY <1>1, SizeFacts DEF Kept
  <2>2. LogView'[Kept + 1] = raw
    BY <1>7, <2>1
  <2> QED BY <1>8, <2>1, <2>2
<1> QED BY <1>4, <1>11, <1>12 DEF Log!Add

(* The entries that GetEpoch() finds in the middle of AddEpoch()           *)
LEMMA KeptSlots ==
    ASSUME IInv, ~Unlocked, NEW n \in 1..Kept
    PROVE  /\ SlotOf(n - 1 + epochsValidCnt - Kept) \in Slots \ {epochIx}
           /\ Kept \in 0..Size - 1
<1>1. epochsValidCnt \in 0..Size
  BY DEF IInv, TypeOK
<1>2. n - 1 + epochsValidCnt - Kept \in 0..epochsValidCnt - 1 /\ Kept \in 0..Size - 1
      /\ ~(epochsValidCnt = Size /\ n - 1 + epochsValidCnt - Kept = 0)
  BY <1>1, SizeFacts DEF Kept
<1> QED BY <1>2, SlotIs

LEMMA CopyRefines == ASSUME IInv, CopyEpoch PROVE LogView' = LogView
<1>1. /\ ~Unlocked /\ adding' = adding /\ epochsValidCnt' = epochsValidCnt /\ epochIx' = epochIx
      /\ epochs' = [epochs EXCEPT ![epochIx] = Entry(adding, NoRef)]
  BY DEF CopyEpoch
<1>2. Unlocked' = Unlocked /\ Kept' = Kept /\ \A m : SlotOf(m)' = SlotOf(m)
  BY <1>1 DEF Unlocked, Kept, SlotOf
<1>3. \A n \in 1..Kept : epochs'[SlotOf(n - 1 + epochsValidCnt - Kept)].raw = epochs[SlotOf(n - 1 + epochsValidCnt - Kept)].raw
  BY <1>1, KeptSlots DEF IInv, Places
<1>4. \A n \in 1..Kept + 1 : ~(n > Kept) => n \in 1..Kept
  BY SizeFacts DEF Kept, IInv, TypeOK
<1>5. LogView = [n \in 1..Kept + 1 |-> IF n > Kept THEN adding ELSE epochs[SlotOf(n - 1 + epochsValidCnt - Kept)].raw]
  BY <1>1, ViewIs
<1>6. LogView' = [n \in 1..Kept + 1 |-> IF n > Kept THEN adding ELSE epochs'[SlotOf(n - 1 + epochsValidCnt - Kept)].raw]
  BY <1>1, <1>2 DEF LogView, GetEpoch, Kept, Unlocked, SlotOf
<1> QED BY <1>3, <1>4, <1>5, <1>6

LEMMA DoneRefines == ASSUME IInv, AddDone PROVE LogView' = LogView
<1>1. /\ ~Unlocked /\ copied /\ epochIx \in Slots /\ epochsValidCnt \in 0..Size
      /\ adding' = None /\ epochIx' = NextIx(epochIx)
  BY DEF AddDone, IInv, TypeOK
<1>2. /\ \A i \in Slots : epochs'[i].raw = epochs[i].raw
      /\ epochsValidCnt' = Cardinality(ValidIn(epochs))
  BY SyncKeeps DEF AddDone
<1>3. epochsValidCnt' = Kept + 1 /\ Kept \in 0..Size - 1
  BY <1>1, <1>2, ValidWhenCopied, SizeFacts DEF Kept
<1>4. epochs[epochIx].raw = adding
  BY <1>1 DEF IInv, Places
<1>5. epochIx' = IF epochIx = Size - 1 THEN 0 ELSE epochIx + 1
  BY <1>1, NextIxIs
<1>6. \A n \in 1..Kept : epochs'[SlotOf(n - 1)'].raw = epochs[SlotOf(n - 1 + epochsValidCnt - Kept)].raw
  <2> SUFFICES ASSUME NEW n \in 1..Kept
               PROVE  epochs'[SlotOf(n - 1)'].raw = epochs[SlotOf(n - 1 + epochsValidCnt - Kept)].raw
    OBVIOUS
  <2> DEFINE x == epochIx - Kept + n - 1
  <2>1. SlotOf(n - 1 + epochsValidCnt - Kept) = IF x < 0 THEN x + Size ELSE x
    BY <1>1, <1>3, SizeFacts DEF SlotOf, Slots
  <2>2. SlotOf(n - 1)' = IF epochIx' - (Kept + 1) + (n - 1) < 0 THEN epochIx' - (Kept + 1) + (n - 1) + Size
                         ELSE epochIx' - (Kept + 1) + (n - 1)
    BY <1>3 DEF SlotOf
  <2>3. SlotOf(n - 1)' = SlotOf(n - 1 + epochsValidCnt - Kept)
    BY <1>1, <1>3, <1>5, <2>1, <2>2, SizeFacts DEF Slots
  <2> QED BY <1>1, <1>2, <2>3, KeptSlots
<1>7. ASSUME NEW m, m = Kept PROVE epochs'[SlotOf(m)'].raw = adding
  <2>1. SlotOf(m)' = IF epochIx' - (Kept + 1) + Kept < 0 THEN epochIx' - (Kept + 1) + Kept + Size
                     ELSE epochIx' - (Kept + 1) + Kept
    BY <1>3, <1>7 DEF SlotOf
  <2>2. SlotOf(m)' = epochIx
    BY <1>1, <1>3, <1>5, <2>1, SizeFacts DEF Slots
  <2> QED BY <1>1, <1>2, <1>4, <2>2
<1>8. LogView' = [n \in 1..Kept + 1 |-> epochs'[SlotOf(n - 1)'].raw]
  <2>1. Unlocked'
    BY <1>1 DEF Unlocked
  <2> QED BY <1>3, <2>1 DEF LogView, GetEpoch
<1>9. LogView = [n \in 1..Kept + 1 |-> IF n > Kept THEN adding
                                      ELSE epochs[SlotOf(n - 1 + epochsValidCnt - Kept)].raw]
  BY <1>1, ViewIs
<1>10. ASSUME NEW n \in 1..Kept + 1
       PROVE  epochs'[SlotOf(n - 1)'].raw = IF n > Kept THEN adding
                                            ELSE epochs[SlotOf(n - 1 + epochsValidCnt - Kept)].raw
  <2>1. CASE n > Kept
    <3>1. n - 1 = Kept
      BY <1>3, <2>1, SizeFacts
    <3> QED BY <1>7, <2>1, <3>1
  <2>2. CASE ~(n > Kept)
    <3>1. n \in 1..Kept
      BY <1>3, <2>2, SizeFacts
    <3> QED BY <1>6, <2>2, <3>1
  <2> QED BY <2>1, <2>2
<1> QED BY <1>8, <1>9, <1>10

(* With the mutex free the log is what the indices, their number and the
   epochs in the ring say                                                  *)
LEMMA SameView ==
    ASSUME IInv, Unlocked, Unlocked', epochIx' = epochIx, epochsValidCnt' = epochsValidCnt,
           \A i \in Slots : epochs'[i].raw = epochs[i].raw
    PROVE  LogView' = LogView
<1>1. \A n \in 1..epochsValidCnt : n - 1 \in 0..epochsValidCnt - 1
  BY DEF IInv, TypeOK
<1>2. \A n \in 1..epochsValidCnt : epochs'[SlotOf(n - 1)'].raw = epochs[SlotOf(n - 1)].raw
  <2>1. \A n : SlotOf(n - 1)' = SlotOf(n - 1)
    BY DEF SlotOf
  <2> QED BY <1>1, <2>1, SlotIs
<1>3. LogView' = [n \in 1..epochsValidCnt |-> epochs'[SlotOf(n - 1)'].raw]
  BY DEF LogView, GetEpoch
<1> QED BY <1>2, <1>3, ViewIs

LEMMA RefPosRefines ==
    ASSUME IInv, NEW mode, SetRefPos(mode)
    PROVE  LogView' = LogView
<1>1. /\ Unlocked /\ Unlocked' /\ epochIx' = epochIx
      /\ epochsValidCnt' = Cardinality(ValidIn(epochs))
      /\ \A i \in Slots : epochs'[i].raw = epochs[i].raw
  BY SyncKeeps DEF SetRefPos, Unlocked
<1>2. epochsValidCnt' = epochsValidCnt
  BY <1>1, ValidWhenUnlocked
<1> QED BY <1>1, <1>2, SameView

LEMMA ClearRefines == ASSUME Clear PROVE Log!Empty
<1>1. Unlocked' /\ epochsValidCnt' = 0
  BY DEF Clear, Unlocked
<1>2. LogView' = [n \in 1..0 |-> epochs'[SlotOf(n - 1)'].raw]
  BY <1>1 DEF LogView, GetEpoch
<1> QED BY <1>2 DEF Log!Empty

(* Every step of the database is a step of the log, or none                *)
LEMMA NextRefines == IInv /\ IInv' /\ [Next]_dbVars => [Log!Next]_LogView
<1> SUFFICES ASSUME IInv, IInv', [Next]_dbVars PROVE Log!Next \/ LogView' = LogView
  OBVIOUS
<1>1. ASSUME NEW raw \in Raw, AddEpoch(raw) PROVE Log!Next
  BY <1>1, AddRefines DEF Log!Next
<1>2. CASE CopyEpoch
  BY <1>2, CopyRefines
<1>3. CASE AddDone
  BY <1>3, DoneRefines
<1>4. CASE Clear
  BY <1>4, ClearRefines DEF Log!Next
<1>5. ASSUME NEW mode \in {"MEAN", "LAST", "USER"}, SetRefPos(mode) PROVE LogView' = LogView
  BY <1>5, RefPosRefines
<1>6. CASE Reader \/ UNCHANGED dbVars
  <2>1. UNCHANGED <<epochs, epochIx, epochsValidCnt, adding>>
    BY <1>6 DEF Reader, LatestEpoch, FindLastPos, Release, dbVars
  <2> QED BY <2>1 DEF LogView, GetEpoch, SlotOf, Unlocked
<1> QED BY <1>1, <1>2, <1>3, <1>4, <1>5, <1>6 DEF Next, Main

(* The database implements its specification, the log of the newest epochs *)
THEOREM Refinement == Spec => ImplementsLog
<1>1. Init => Log!Init
  BY InitRefines
<1>2. IInv /\ IInv' /\ [Next]_dbVars => [Log!Next]_LogView
  BY NextRefines
<1> QED BY <1>1, <1>2, Invariance, PTL DEF Spec, ImplementsLog, Log!Spec
-----------------------------------------------------------------------------
(***************************************************************************)
(* The epochs that the collector makes of the messages, in the database.   *)
(***************************************************************************)
NotedEpochs == [epoch : [seq : Nat, from : [Fields -> SUBSET Message],
                         havePos : BOOLEAN, haveMsl : BOOLEAN, haveFix : BOOLEAN],
                of : SUBSET Message]

(* The fields that have a quality of their own                             *)
OwnFields == Fields \ {"msl", "haveFix", "fixOk", "orbAvail"}

(* What the collector has of the messages S is the best of them            *)
GsvComplete(from, S) ==
    \A better \in {<<"sat", "SAT">>, <<"sig", "SIG">>} :
        \/ {m \in S : m.kind = "GSV"} \subseteq from[better[1]]
        \/ \E m \in S : m.kind = better[2]

Sourced(coll, S) ==
    /\ DOMAIN coll = Fields
    /\ \A f \in Fields : coll[f].from \subseteq S
    /\ \A f \in OwnFields :
        /\ coll[f].qual = NOTHING => coll[f].from = {}
        /\ coll[f].qual # NOTHING => coll[f].from # {}
        /\ \A src \in coll[f].from : \E r \in Rules(src) : r.field = f /\ r.qual = coll[f].qual
        /\ \A m \in S : \A r \in Rules(m) : r.field = f => r.qual <= coll[f].qual

(* fixOk goes with fix, unless there is a PVT without one, and the orbit
   data with the satellites                                                *)
Twins(from, S) ==
    /\ from["sat"] \subseteq from["orbAvail"]
    /\ ~PvtWithoutFix(S) => from["fixOk"] = from["fix"]

Detect == [haveUbxItow : BOOLEAN, ubxItow : Nat, haveNmeaMs : BOOLEAN, nmeaMs : Nat, seq : Nat]

CollectorInv ==
    /\ collector.detect \in Detect
    /\ seen \subseteq Message
    /\ Sourced(collector.coll, seen)
    /\ GsvComplete([f \in Fields |-> collector.coll[f].from], seen)
    /\ Twins([f \in Fields |-> collector.coll[f].from], seen)

StreamInv == profile \in Profiles /\ timeless \in Nat /\ sent \in Nat /\ lost \in Nat

(* The navigation epochs that the data is of                               *)
Whole == lost = 0 /\ (UbxMarks \/ NmeaTells)
Pure == OneProtocol \/ Whole
Data(coll) == UNION {coll[f].from : f \in Fields}
Of(n) == \A m \in Data(collector.coll) : m.nav = n

(* The next message is the first of its navigation epoch                   *)
First == sent % Len(profile) = 0
AfterEoe == First /\ profile[Len(profile)] = "EOE"
LastNav == IF First THEN Nav - 1 ELSE Nav

UbxOnly ==
    OneProtocol =>
        /\ ~collector.detect.haveNmeaMs
        /\ collector.detect.haveUbxItow =>
            Of(collector.detect.ubxItow) /\ collector.detect.ubxItow <= LastNav
        /\ ~collector.detect.haveUbxItow => Data(collector.coll) = {}

NoneLost ==
    Whole =>
        /\ Of(LastNav)
        /\ collector.detect.haveUbxItow => collector.detect.ubxItow = LastNav
        /\ collector.detect.haveNmeaMs => collector.detect.nmeaMs = Ms(LastNav)
        /\ sent = 0 \/ AfterEoe =>
            Data(collector.coll) = {} /\ ~collector.detect.haveUbxItow /\ ~collector.detect.haveNmeaMs
        /\ ~(sent = 0 \/ AfterEoe) =>
            /\ profile[1] \in UbxTimed => collector.detect.haveUbxItow
            /\ profile[1] \in NmeaTimed => collector.detect.haveNmeaMs

(* What is stored                                                          *)
OneNav(raw) == \A x, y \in Navs(raw) : x = y
Best(raw) ==
    /\ \A f \in OwnFields \cup {"fixOk"} : \A m \in raw.of :
        Supplies(m, f) =>
            \/ f = "fixOk" /\ PvtWithoutFix(raw.of)
            \/ /\ raw.epoch.from[f] # {}
               /\ \A src \in raw.epoch.from[f] : Rank(m, f) <= Rank(src, f)
    /\ raw.epoch.from["sat"] \subseteq raw.epoch.from["orbAvail"]
    /\ GsvComplete(raw.epoch.from, raw.of)
GoodIf(raw, pure) == Best(raw) /\ (pure => OneNav(raw))

StoredInv ==
    /\ \A i \in ValidIn(epochs) : GoodIf(epochs[i].raw, Pure)
    /\ ~Unlocked => GoodIf(adding, Pure)

(* Epoch follows epoch, and what comes is later than what is in the log    *)
FollowsIf(a, b, pure) ==
    /\ b.epoch.seq = a.epoch.seq + 1
    /\ pure => \A x \in Navs(a), y \in Navs(b) : x < y
EndsBefore(raw, nav, data) ==
    \A x \in Navs(raw) : x \in Nat /\ x < nav /\ \A m \in data : x < m.nav

LogIs(log, pure, seq, nav, data) ==
    /\ \A n \in 1..Len(log) - 1 : FollowsIf(log[n], log[n + 1], pure)
    /\ Len(log) > 0 =>
        /\ log[Len(log)].epoch.seq = seq
        /\ pure => EndsBefore(log[Len(log)], nav, data)

LogInv == LogIs(LogView, Pure, collector.detect.seq, Nav, Data(collector.coll))

EInv == IInv /\ StreamInv /\ CollectorInv /\ UbxOnly /\ NoneLost /\ StoredInv /\ LogInv

-----------------------------------------------------------------------------
(* What a kind of message has for a field: its quality there, and which
   quality it takes the place of                                           *)
RuleFacts(m, r) ==
    /\ r.field \in Fields /\ r.guard \in Fields /\ r.qual \in 1..4 /\ r.below \in 1..5
    /\ \A x \in Rules(m) : x.field = r.field => x = r
    /\ r.field \in OwnFields =>
        /\ r.guard = r.field
        /\ \/ r.below = r.qual
           \/ r.below = NMEA /\ r.qual = UBX /\ r.field \in {"leap", "uptime"}
           \/ r.below = NMEA /\ r.qual = BETTER_NMEA /\ r.field = "llh"
           \/ r.below = Always /\ r.qual = UBX /\ r.field \in {"pdop", "numSv", "gpsWeek"}
           \/ r.below = Always /\ r.qual = UBX_HP /\ r.field = "relPos"
           \/ r.below = BETTER_NMEA /\ r.qual = NMEA /\ r.field \in {"sat", "sig"}
    /\ r.field \in {"leap", "uptime", "pdop", "gpsWeek"} => r.qual = UBX
    /\ r.field = "llh" => r.qual \in {BETTER_NMEA, UBX}
    /\ r.field \in {"numSv", "sat", "sig"} => r.qual \in {NMEA, UBX}
    /\ r.field = "relPos" => r.qual = UBX_HP /\ Rank(m, r.field) = 2
    /\ m.kind = "GSV" =>
        r.below = BETTER_NMEA /\ r.qual = NMEA /\ r.field \in {"sat", "sig", "orbAvail"}
    /\ r.field = "sat" => m.kind \in {"GSV", "SAT"}
    /\ r.field = "sig" => m.kind \in {"GSV", "SIG"}
    /\ r.field = "orbAvail" => m.kind \in {"GSV", "SAT"}
    /\ r.field \in {"fix", "fixOk"} => m.kind \in {"PVT", "GGA", "RMC", "GLL"}
    /\ r.field \in OwnFields \ {"relPos"} =>
        /\ r.qual \in {NMEA, BETTER_NMEA} => Rank(m, r.field) = 1
        /\ r.qual = UBX => Rank(m, r.field) = 2
        /\ r.qual = UBX_HP => Rank(m, r.field) = 3

LEMMA RulesAre ==
    ASSUME NEW m \in Message, NEW r \in Rules(m)
    PROVE  RuleFacts(m, r)
<1> USE DEF Rules, UbxRules, NmeaRules, OnlyIf, Better, Rule, NOTHING, NMEA, BETTER_NMEA, UBX, UBX_HP,
            Always, Fields, OwnFields, RuleFacts, Rank, UbxKinds, UbxTimed, NmeaKinds, NmeaTimed
<1>1. CASE m.kind = "PVT"
  BY <1>1
<1>2. CASE m.kind = "POSECEF"
  BY <1>2
<1>3. CASE m.kind = "HPPOSECEF"
  <2>1. Rules(m) \subseteq {Better("xyz", UBX_HP), Better("posAcc", UBX_HP)}
    BY <1>3
  <2> HIDE DEF Rules, UbxRules, NmeaRules
  <2>2. r.field \in {"xyz", "posAcc"} /\ r = Better(r.field, UBX_HP)
    BY <2>1
  <2>3. Rank(m, r.field) = 3
    BY <1>3
  <2>4. \A x \in Rules(m) : x.field = r.field => x = r
    BY <2>1, <2>2
  <2> QED BY <1>3, <2>2, <2>3, <2>4
<1>4. CASE m.kind = "TIMEGPS"
  <2>1. Rules(m) = {Rule("gpsWeek", "gpsWeek", Always, UBX), Better("gpsTow", UBX_HP),
                    Rule("leap", "leap", NMEA, UBX)}
    BY <1>4
  <2> HIDE DEF Rules, UbxRules, NmeaRules
  <2>2. \A x \in Rules(m) : x.field = r.field => x = r
    BY <2>1
  <2>3. Rank(m, r.field) = IF r.field = "gpsTow" THEN 3 ELSE 2
    BY <1>4
  <2>4. CASE r = Rule("gpsWeek", "gpsWeek", Always, UBX)
    BY <1>4, <2>2, <2>3, <2>4
  <2>5. CASE r = Better("gpsTow", UBX_HP)
    BY <1>4, <2>2, <2>3, <2>5
  <2>6. CASE r = Rule("leap", "leap", NMEA, UBX)
    BY <1>4, <2>2, <2>3, <2>6
  <2> QED BY <2>1, <2>4, <2>5, <2>6
<1>5. CASE m.kind = "RELPOSNED"
  BY <1>5
<1>6. CASE m.kind \in {"SIG", "SAT", "TIMELS", "STATUS"}
  BY <1>6
<1>7. CASE m.kind = "EOE"
  BY <1>7
<1>8. CASE m.kind = "GGA"
  BY <1>8
<1>9. CASE m.kind = "RMC"
  BY <1>9
<1>10. CASE m.kind = "GLL"
  BY <1>10
<1>11. CASE m.kind = "GSV"
  BY <1>11
<1> QED BY <1>1, <1>2, <1>3, <1>4, <1>5, <1>6, <1>7, <1>8, <1>9, <1>10, <1>11 DEF Message

(* The higher the quality, the better the message                          *)
LEMMA RankRises ==
    ASSUME NEW m \in Message, NEW m2 \in Message, NEW r \in Rules(m), NEW r2 \in Rules(m2),
           r.field = r2.field, r.field \in OwnFields, r.qual <= r2.qual
    PROVE  Rank(m, r.field) <= Rank(m2, r.field)
<1>1. RuleFacts(m, r) /\ RuleFacts(m2, r2)
  BY RulesAre
<1> QED BY <1>1 DEF RuleFacts, NMEA, BETTER_NMEA, UBX, UBX_HP

(* A rule applies where it does not make the quality lower, and where it
   does not apply there is one that is as good.                            *)
LEMMA NeverWorse ==
    ASSUME NEW m \in Message, NEW m2 \in Message, NEW r \in Rules(m), NEW r2 \in Rules(m2),
           r.field = r2.field, r.field \in OwnFields
    PROVE  IF r2.qual < r.below THEN r2.qual <= r.qual ELSE r.qual <= r2.qual
<1>1. RuleFacts(m, r) /\ RuleFacts(m2, r2)
  BY RulesAre
<1> QED BY <1>1 DEF RuleFacts, NMEA, BETTER_NMEA, UBX, UBX_HP, Always

(* Collecting a message, field by field                                    *)
LEMMA CollectedIs ==
    ASSUME NEW coll, NEW m \in Message, NEW f \in OwnFields
    PROVE  /\ \A r \in Rules(m) : r.field = f =>
                Collected(coll, m)[f] =
                    IF coll[f].qual < r.below
                    THEN [qual |-> r.qual, from |-> IF Adds(m, f) THEN coll[f].from \cup {m} ELSE {m}]
                    ELSE coll[f]
           /\ (\A r \in Rules(m) : r.field # f) => Collected(coll, m)[f] = coll[f]
<1>0. f \in Fields
  BY DEF OwnFields
<1>1. ASSUME NEW r \in Rules(m), r.field = f
      PROVE  Collected(coll, m)[f] =
                    IF coll[f].qual < r.below
                    THEN [qual |-> r.qual, from |-> IF Adds(m, f) THEN coll[f].from \cup {m} ELSE {m}]
                    ELSE coll[f]
  <2>1. r.guard = f /\ \A x \in Rules(m) : x.field = f => x = r
    BY <1>1, RulesAre DEF RuleFacts
  <2>2. (CHOOSE x \in Rules(m) : x.field = f) = r
    BY <1>1, <2>1
  <2>3. (\E x \in Rules(m) : x.field = f /\ coll[x.guard].qual < x.below) <=> coll[f].qual < r.below
    BY <1>1, <2>1
  <2> QED BY <1>0, <2>2, <2>3 DEF Collected
<1>2. ASSUME \A r \in Rules(m) : r.field # f PROVE Collected(coll, m)[f] = coll[f]
  BY <1>0, <1>2 DEF Collected
<1> QED BY <1>1, <1>2

LEMMA CollectedFrom ==
    ASSUME NEW coll, NEW m, NEW f \in Fields
    PROVE  Collected(coll, m)[f].from \subseteq coll[f].from \cup {m}
BY DEF Collected

LEMMA CollectKeeps ==
    ASSUME NEW S \in SUBSET Message, NEW m \in Message, NEW coll, Sourced(coll, S)
    PROVE  Sourced(Collected(coll, m), S \cup {m})
<1> DEFINE new == Collected(coll, m)
<1>1. DOMAIN new = Fields
  BY DEF Collected
<1>2. \A f \in Fields : new[f].from \subseteq S \cup {m}
  BY CollectedFrom DEF Sourced
<1>3. ASSUME NEW f \in OwnFields
      PROVE  /\ new[f].qual = NOTHING => new[f].from = {}
             /\ new[f].qual # NOTHING => new[f].from # {}
             /\ \A src \in new[f].from : \E r \in Rules(src) : r.field = f /\ r.qual = new[f].qual
             /\ \A x \in S \cup {m} : \A r \in Rules(x) : r.field = f => r.qual <= new[f].qual
  <2> DEFINE q == coll[f].qual
             F == coll[f].from
  <2>1. /\ q = NOTHING => F = {}
        /\ q # NOTHING => F # {}
        /\ \A src \in F : src \in Message /\ \E r \in Rules(src) : r.field = f /\ r.qual = q
        /\ \A x \in S : \A r \in Rules(x) : r.field = f => r.qual <= q
    BY <1>3 DEF Sourced, OwnFields
  <2> HIDE DEF new, q, F
  <2>2. CASE \A r \in Rules(m) : r.field # f
    <3>1. new[f] = coll[f]
      BY <2>2, CollectedIs DEF new
    <3> QED BY <2>1, <2>2, <3>1 DEF q, F
  <2>3. ASSUME NEW r \in Rules(m), r.field = f
        PROVE  /\ new[f].qual = NOTHING => new[f].from = {}
               /\ new[f].qual # NOTHING => new[f].from # {}
               /\ \A src \in new[f].from : \E x \in Rules(src) : x.field = f /\ x.qual = new[f].qual
               /\ \A x \in S \cup {m} : \A y \in Rules(x) : y.field = f => y.qual <= new[f].qual
    <3>1. new[f] = IF q < r.below
                   THEN [qual |-> r.qual, from |-> IF Adds(m, f) THEN F \cup {m} ELSE {m}]
                   ELSE coll[f]
      BY <2>3, CollectedIs DEF new, q, F
    <3>2. /\ r.qual \in 1..4 /\ r.below \in 1..5
          /\ \A x \in Rules(m) : x.field = f => x = r
          /\ Adds(m, f) => r.below = BETTER_NMEA /\ r.qual = NMEA /\ f \in {"sat", "sig"}
      BY <2>3, RulesAre DEF RuleFacts, Adds, OwnFields
    <3>3. q = 0 \/ \E s \in F : s \in Message /\ \E x \in Rules(s) : x.field = f /\ x.qual = q /\ RuleFacts(s, x)
      BY <2>1, RulesAre DEF NOTHING
    <3>4. q \in 0..4
      BY <3>3 DEF RuleFacts
    <3>5. IF q < r.below THEN q <= r.qual ELSE r.qual <= q
      BY <2>3, <3>2, <3>3, <3>4, NeverWorse
    <3>6. \A x \in S : \A y \in Rules(x) : y.field = f => y.qual <= q /\ y.qual \in 1..4
      BY <2>1, RulesAre DEF RuleFacts
    <3>7. CASE q < r.below
      <4>1. new[f].qual = r.qual /\ new[f].from = (IF Adds(m, f) THEN F \cup {m} ELSE {m})
        BY <3>1, <3>7
      <4>2. new[f].qual # NOTHING /\ new[f].from # {}
        BY <3>2, <4>1 DEF NOTHING
      <4>3. \A x \in S \cup {m} : \A y \in Rules(x) : y.field = f => y.qual <= new[f].qual
        BY <3>2, <3>4, <3>5, <3>6, <3>7, <4>1
      <4>4. ASSUME Adds(m, f), NEW s \in F PROVE \E x \in Rules(s) : x.field = f /\ x.qual = r.qual
        <5>1. PICK x \in Rules(s) : x.field = f /\ x.qual = q /\ RuleFacts(s, x)
          BY <2>1, <4>4, RulesAre
        <5>2. x.qual = r.qual
          BY <3>2, <3>7, <4>4, <5>1 DEF RuleFacts, NMEA, BETTER_NMEA, UBX
        <5> QED BY <5>1, <5>2
      <4>5. \A s \in new[f].from : \E x \in Rules(s) : x.field = f /\ x.qual = new[f].qual
        BY <2>3, <4>1, <4>4
      <4> QED BY <4>2, <4>3, <4>5
    <3>8. CASE ~(q < r.below)
      <4>1. new[f].qual = q /\ new[f].from = F
        BY <3>1, <3>8 DEF q, F
      <4>2. \A x \in S \cup {m} : \A y \in Rules(x) : y.field = f => y.qual <= new[f].qual
        BY <3>2, <3>5, <3>6, <3>8, <4>1
      <4> QED BY <2>1, <4>1, <4>2
    <3> QED BY <3>7, <3>8
  <2> QED BY <2>2, <2>3
<1> QED BY <1>1, <1>2, <1>3 DEF Sourced

Froms(coll) == [f \in Fields |-> coll[f].from]

LEMMA CollectGsv ==
    ASSUME NEW S \in SUBSET Message, NEW m \in Message, NEW coll, Sourced(coll, S),
           GsvComplete(Froms(coll), S)
    PROVE  GsvComplete(Froms(Collected(coll, m)), S \cup {m})
<1> DEFINE new == Collected(coll, m)
<1>1. ASSUME NEW f, NEW k, <<f, k>> \in {<<"sat", "SAT">>, <<"sig", "SIG">>},
             \A x \in S \cup {m} : x.kind # k
      PROVE  {x \in S \cup {m} : x.kind = "GSV"} \subseteq new[f].from
  <2>1. f \in {"sat", "sig"} /\ f \in OwnFields /\ f \in Fields
        /\ \A x \in S \cup {m} : x.kind # k
    BY <1>1 DEF OwnFields, Fields
  <2>2. \A x \in S \cup {m} : \A r \in Rules(x) : r.field = f => x.kind = "GSV"
    BY <1>1, <2>1, RulesAre DEF RuleFacts
  <2>3. {x \in S : x.kind = "GSV"} \subseteq coll[f].from
    BY <1>1, <2>1 DEF GsvComplete, Froms
  <2>4. CASE m.kind = "GSV"
    <3>1. PICK r \in Rules(m) : r.field = f
      <4>1. {Rule(g, g, BETTER_NMEA, NMEA) : g \in {"sig", "sat"}} \subseteq NmeaRules(m)
        BY <2>4 DEF NmeaRules
      <4>2. Rule(f, f, BETTER_NMEA, NMEA) \in NmeaRules(m)
        BY <2>1, <4>1
      <4>3. Rule(f, f, BETTER_NMEA, NMEA).field = f
        BY DEF Rule
      <4> QED BY <4>2, <4>3 DEF Rules
    <3>2. r.below = BETTER_NMEA /\ r.qual = NMEA
      BY <2>4, RulesAre DEF RuleFacts
    <3>3. coll[f].qual \in {NOTHING, NMEA}
      <4> SUFFICES ASSUME coll[f].qual # NOTHING PROVE coll[f].qual = NMEA
        OBVIOUS
      <4>1. PICK s \in coll[f].from : TRUE
        BY <2>1 DEF Sourced
      <4>2. s \in S /\ s \in Message
        BY <2>1 DEF Sourced
      <4>3. PICK x \in Rules(s) : x.field = f /\ x.qual = coll[f].qual
        BY <2>1 DEF Sourced
      <4> QED BY <2>2, <4>2, <4>3, RulesAre DEF RuleFacts
    <3>4. new[f].from = coll[f].from \cup {m}
      <4>1. coll[f].qual < r.below
        BY <3>2, <3>3 DEF NOTHING, NMEA, BETTER_NMEA
      <4>2. new[f] = [qual |-> r.qual, from |-> coll[f].from \cup {m}]
        BY <2>1, <2>4, <3>1, <4>1, CollectedIs DEF Adds
      <4> QED BY <4>2
    <3> QED BY <2>3, <3>4
  <2>5. CASE m.kind # "GSV"
    <3>1. new[f] = coll[f]
      BY <2>1, <2>2, <2>5, CollectedIs
    <3> QED BY <2>3, <2>5, <3>1
  <2> QED BY <2>4, <2>5
<1>2. "sat" \in Fields /\ "sig" \in Fields
  BY DEF Fields
<1> HIDE DEF new
<1> QED BY <1>1, <1>2 DEF GsvComplete, Froms, new

(* A rule for the one of two fields that go together comes with the rule
   for the other                                                           *)
Pair(m, a, b, f, g) ==
    /\ a \in Rules(m) /\ a.field = f /\ a.guard = f
    /\ b \in Rules(m) /\ b.field = g /\ b.guard = f
    /\ a.below = b.below

LEMMA TwinRules ==
    ASSUME NEW m \in Message
    PROVE  /\ \/ \E a, b \in Rules(m) : Pair(m, a, b, "sat", "orbAvail")
              \/ \A r \in Rules(m) : r.field \notin {"sat", "orbAvail"}
           /\ \/ m.kind = "PVT" /\ ~m.fix
              \/ \E a, b \in Rules(m) : Pair(m, a, b, "fix", "fixOk")
              \/ \A r \in Rules(m) : r.field \notin {"fix", "fixOk"}
<1> USE DEF Better, Rule
<1>1. \/ \E a, b \in Rules(m) : Pair(m, a, b, "sat", "orbAvail")
      \/ \A r \in Rules(m) : r.field \notin {"sat", "orbAvail"}
  <2>1. CASE m.kind = "SAT"
    <3>1. Better("sat", UBX) \in Rules(m) /\ Rule("orbAvail", "sat", UBX, UBX) \in Rules(m)
      BY <2>1 DEF Rules, UbxRules
    <3> QED BY <3>1 DEF Pair
  <2>2. CASE m.kind = "GSV"
    <3>1. Rule("sat", "sat", BETTER_NMEA, NMEA) \in Rules(m) /\ Rule("orbAvail", "sat", BETTER_NMEA, NMEA) \in Rules(m)
      BY <2>2 DEF Rules, NmeaRules
    <3> QED BY <3>1 DEF Pair
  <2>3. CASE m.kind \notin {"SAT", "GSV"}
    BY <2>3, RulesAre DEF RuleFacts
  <2> QED BY <2>1, <2>2, <2>3
<1>2. \/ m.kind = "PVT" /\ ~m.fix
      \/ \E a, b \in Rules(m) : Pair(m, a, b, "fix", "fixOk")
      \/ \A r \in Rules(m) : r.field \notin {"fix", "fixOk"}
  <2>1. CASE m.kind = "PVT" /\ m.fix
    <3>1. Better("fix", UBX) \in Rules(m) /\ Rule("fixOk", "fix", UBX, UBX) \in Rules(m)
      BY <2>1 DEF Rules, UbxRules, OnlyIf
    <3> QED BY <3>1 DEF Pair
  <2>2. CASE m.kind = "GGA"
    <3>1. Better("fix", NMEA) \in Rules(m) /\ Rule("fixOk", "fix", NMEA, NMEA) \in Rules(m)
      BY <2>2 DEF Rules, NmeaRules
    <3> QED BY <3>1 DEF Pair
  <2>3. CASE m.kind \in {"RMC", "GLL"}
    <3>1. Better("fix", BETTER_NMEA) \in Rules(m) /\ Rule("fixOk", "fix", BETTER_NMEA, BETTER_NMEA) \in Rules(m)
      BY <2>3 DEF Rules, NmeaRules
    <3> QED BY <3>1 DEF Pair
  <2>4. CASE m.kind \notin {"PVT", "GGA", "RMC", "GLL"}
    BY <2>4, RulesAre DEF RuleFacts
  <2>5. CASE m.kind = "PVT" /\ ~m.fix
    BY <2>5
  <2> QED BY <2>1, <2>2, <2>3, <2>4, <2>5
<1> QED BY <1>1, <1>2

LEMMA CollectTwins ==
    ASSUME NEW S \in SUBSET Message, NEW m \in Message, NEW coll, Twins(Froms(coll), S)
    PROVE  Twins(Froms(Collected(coll, m)), S \cup {m})
<1> DEFINE new == Collected(coll, m)
           applies(f) == \E r \in Rules(m) : r.field = f /\ coll[r.guard].qual < r.below
<1>1. {"sat", "orbAvail", "fix", "fixOk"} \subseteq Fields
  BY DEF Fields
<1>2. \A f \in Fields :
        new[f].from = IF applies(f) THEN (IF Adds(m, f) THEN coll[f].from \cup {m} ELSE {m}) ELSE coll[f].from
  <2> SUFFICES ASSUME NEW f \in Fields
               PROVE  new[f].from = IF applies(f) THEN (IF Adds(m, f) THEN coll[f].from \cup {m} ELSE {m})
                                                  ELSE coll[f].from
    OBVIOUS
  <2>1. new[f] = IF applies(f)
                 THEN LET r == CHOOSE x \in Rules(m) : x.field = f IN
                      [qual |-> r.qual, from |-> IF Adds(m, f) THEN coll[f].from \cup {m} ELSE {m}]
                 ELSE coll[f]
    BY DEF Collected
  <2> HIDE DEF new, applies
  <2> QED BY <2>1
<1>3. applies("sat") <=> applies("orbAvail")
  <2>1. CASE \E a, b \in Rules(m) : Pair(m, a, b, "sat", "orbAvail")
    <3>1. PICK a \in Rules(m), b \in Rules(m) : Pair(m, a, b, "sat", "orbAvail")
      BY <2>1
    <3>2. /\ \A r \in Rules(m) : r.field = "sat" => r = a
          /\ \A r \in Rules(m) : r.field = "orbAvail" => r = b
      BY <3>1, RulesAre DEF Pair, RuleFacts
    <3> QED BY <3>1, <3>2 DEF Pair
  <2> QED BY <2>1, TwinRules
<1>4. ~(m.kind = "PVT" /\ ~m.fix) => (applies("fix") <=> applies("fixOk"))
  <2>1. CASE \E a, b \in Rules(m) : Pair(m, a, b, "fix", "fixOk")
    <3>1. PICK a \in Rules(m), b \in Rules(m) : Pair(m, a, b, "fix", "fixOk")
      BY <2>1
    <3>2. /\ \A r \in Rules(m) : r.field = "fix" => r = a
          /\ \A r \in Rules(m) : r.field = "fixOk" => r = b
      BY <3>1, RulesAre DEF Pair, RuleFacts
    <3> QED BY <3>1, <3>2 DEF Pair
  <2> QED BY <2>1, TwinRules
<1> HIDE DEF new, applies
<1>5. Froms(new)["sat"] = new["sat"].from /\ Froms(new)["orbAvail"] = new["orbAvail"].from
      /\ Froms(new)["fix"] = new["fix"].from /\ Froms(new)["fixOk"] = new["fixOk"].from
      /\ Froms(coll)["sat"] = coll["sat"].from /\ Froms(coll)["orbAvail"] = coll["orbAvail"].from
      /\ Froms(coll)["fix"] = coll["fix"].from /\ Froms(coll)["fixOk"] = coll["fixOk"].from
  BY <1>1 DEF Froms
<1>6. new["sat"].from \subseteq new["orbAvail"].from
  BY <1>1, <1>2, <1>3, <1>5 DEF Twins, Adds
<1>7. ASSUME ~PvtWithoutFix(S \cup {m}) PROVE new["fixOk"].from = new["fix"].from
  <2>1. ~PvtWithoutFix(S) /\ ~(m.kind = "PVT" /\ ~m.fix)
    BY <1>7 DEF PvtWithoutFix
  <2>2. Adds(m, "fix") <=> Adds(m, "fixOk")
    BY DEF Adds
  <2> QED BY <1>1, <1>2, <1>4, <1>5, <2>1, <2>2 DEF Twins
<1> QED BY <1>5, <1>6, <1>7 DEF Twins, new

(* What is collected is as good as BestSource says                         *)
LEMMA SourcedIsBest ==
    ASSUME NEW S \in SUBSET Message, NEW coll, Sourced(coll, S), NEW f \in OwnFields, NEW m \in S,
           Supplies(m, f)
    PROVE  /\ coll[f].from # {}
           /\ \A src \in coll[f].from : Rank(m, f) <= Rank(src, f)
<1>1. PICK r \in Rules(m) : r.field = f
  BY DEF Supplies
<1>2. r.qual <= coll[f].qual /\ r.qual \in 1..4
  BY <1>1, RulesAre DEF Sourced, RuleFacts
<1>3. coll[f].from # {}
  BY <1>2 DEF Sourced, NOTHING
<1>4. ASSUME NEW src \in coll[f].from PROVE Rank(m, f) <= Rank(src, f)
  <2>1. src \in Message
    BY <1>4 DEF Sourced, OwnFields
  <2>2. PICK x \in Rules(src) : x.field = f /\ x.qual = coll[f].qual
    BY <1>4 DEF Sourced
  <2> QED BY <1>1, <1>2, <2>1, <2>2, RankRises
<1> QED BY <1>3, <1>4

-----------------------------------------------------------------------------
(* The stream of messages, one navigation epoch after the other            *)
LEMMA Multiple == ASSUME NEW b \in Nat \ {0}, NEW d \in Nat \ {0} PROVE b * d >= b /\ b * d \in Nat
  OBVIOUS

LEMMA Division ==
    ASSUME NEW b \in Nat \ {0}, NEW q \in Nat, NEW r \in 0..b - 1, NEW a, a = (b * q) + r
    PROVE  a \div b = q /\ a % b = r
<1> DEFINE q2 == a \div b
           r2 == a % b
<1>1. a \in Nat /\ b * q \in Nat
  OBVIOUS
<1>2. a = (b * q2) + r2 /\ r2 \in 0..b - 1 /\ q2 \in Nat
  BY <1>1
<1> HIDE DEF q2, r2
<1>3. ASSUME q2 > q PROVE FALSE
  <2>1. q2 - q \in Nat \ {0} /\ b * q2 = (b * q) + (b * (q2 - q))
    BY <1>2, <1>3
  <2>2. b * (q2 - q) >= b /\ b * (q2 - q) \in Nat
    BY <2>1, Multiple
  <2> QED BY <1>1, <1>2, <2>1, <2>2
<1>4. ASSUME q > q2 PROVE FALSE
  <2>1. q - q2 \in Nat \ {0} /\ b * q = (b * q2) + (b * (q - q2)) /\ b * q2 \in Nat
    BY <1>2, <1>4
  <2>2. b * (q - q2) >= b /\ b * (q - q2) \in Nat
    BY <2>1, Multiple
  <2> QED BY <1>1, <1>2, <2>1, <2>2
<1>5. q2 = q
  BY <1>2, <1>3, <1>4
<1>6. r2 = r
  BY <1>1, <1>2, <1>5
<1> QED BY <1>5, <1>6 DEF q2, r2

LEMMA StreamIs ==
    ASSUME StreamInv
    PROVE  /\ Len(profile) \in Nat \ {0} /\ Proper(profile) /\ Nav \in Nat \ {0} /\ Msg \in Message
           /\ \A i \in 1..Len(profile) : profile[i] \in UbxKinds \cup NmeaKinds
           /\ sent % Len(profile) \in 0..Len(profile) - 1
           /\ Msg.nav = Nav /\ Msg.ms = Ms(Nav) /\ Msg.kind = profile[1 + (sent % Len(profile))]
           /\ sent = 0 => First /\ Nav = 1
           /\ profile \in Profiles
<1> DEFINE L == Len(profile)
<1>1. profile \in Profiles /\ sent \in Nat
  BY DEF StreamInv
<1>2. profile \in Seq(UbxKinds \cup NmeaKinds) /\ profile # <<>> /\ Proper(profile)
  BY <1>1, EpochsAssumption
<1>3. L \in Nat \ {0} /\ \A i \in 1..L : profile[i] \in UbxKinds \cup NmeaKinds
  BY <1>2
<1> HIDE DEF L
<1>4. sent % L \in 0..L - 1 /\ sent \div L \in Nat
  BY <1>1, <1>3
<1>5. Nav \in Nat \ {0}
  BY <1>4 DEF Nav, L
<1>6. Msg.nav = Nav /\ Msg.ms = Ms(Nav) /\ Msg.kind = profile[1 + (sent % L)]
  BY DEF Msg, L
<1>10. Ms(Nav) \in Nat
  <2>1. Minute \in Nat \ {0} /\ Nav \in Nat
    BY <1>5, EpochsAssumption
  <2>2. PICK n : n = Nav
    OBVIOUS
  <2>3. n % Minute \in 0..Minute - 1
    BY <2>1, <2>2
  <2> QED BY <2>1, <2>2, <2>3 DEF Ms
<1>7. 1 + (sent % L) \in 1..L
  BY <1>3, <1>4
<1>8. Msg \in Message
  <2>1. profile[1 + (sent % L)] \in UbxKinds \cup NmeaKinds
    BY <1>3, <1>7
  <2>2. (Nav > timeless /\ Nav # noFix) \in BOOLEAN
    OBVIOUS
  <2> QED BY <1>5, <1>10, <2>1, <2>2 DEF Msg, Message, L
<1>9. ASSUME sent = 0 PROVE First /\ Nav = 1
  <2>1. 0 = (L * 0) + 0 /\ 0 \in 0..L - 1
    BY <1>3
  <2>2. 0 \div L = 0 /\ 0 % L = 0
    BY <1>3, <2>1, Division
  <2> QED BY <1>9, <2>2 DEF First, Nav, L
<1> QED BY <1>1, <1>2, <1>3, <1>4, <1>5, <1>6, <1>8, <1>9 DEF L

(* The next message is of the same navigation epoch, or the first one of
   the next.                                                               *)
LEMMA StreamStep ==
    ASSUME StreamInv, sent' = sent + 1, profile' = profile
    PROVE  LET last == 1 + (sent % Len(profile)) = Len(profile) IN
           /\ last => Nav' = Nav + 1 /\ First'
           /\ ~last => Nav' = Nav /\ ~First'
           /\ LastNav' = Nav
<1> DEFINE L == Len(profile)
           q == sent \div L
           r == sent % L
<1>1. L \in Nat \ {0} /\ sent \in Nat
  BY StreamIs DEF StreamInv
<1> HIDE DEF L
<1>2. sent = (L * q) + r /\ r \in 0..L - 1 /\ q \in Nat
  BY <1>1
<1>3. Nav = 1 + q /\ Nav' = 1 + ((sent + 1) \div L) /\ (First' <=> (sent + 1) % L = 0)
  BY DEF Nav, First, L
<1> HIDE DEF q
<1>4. CASE 1 + r = L
  <2>1. sent + 1 = (L * (q + 1)) + 0 /\ 0 \in 0..L - 1 /\ q + 1 \in Nat
    BY <1>1, <1>2, <1>4
  <2> DEFINE a == sent + 1
             u == q + 1
  <2>2. a \div L = u /\ a % L = 0
    <3>1. a = (L * u) + 0 /\ u \in Nat
      BY <2>1
    <3> HIDE DEF a, u
    <3> QED BY <1>1, <2>1, <3>1, Division
  <2>3. Nav' = Nav + 1 /\ First' /\ Nav' - 1 = Nav
    BY <1>2, <1>3, <2>2
  <2> QED BY <1>4, <2>3 DEF LastNav, L
<1>5. CASE 1 + r # L
  <2>1. sent + 1 = (L * q) + (r + 1) /\ r + 1 \in 0..L - 1 /\ r + 1 # 0
    BY <1>1, <1>2, <1>5
  <2> DEFINE t == r + 1
  <2>2. t \in 0..L - 1 /\ sent + 1 = (L * q) + t /\ t # 0
    BY <2>1
  <2> HIDE DEF t
  <2> DEFINE a == sent + 1
  <2>3. a \div L = q /\ a % L = t
    <3>1. a = (L * q) + t /\ q \in Nat /\ t \in 0..L - 1
      BY <1>2, <2>2
    <3> HIDE DEF a
    <3> QED BY <1>1, <3>1, Division
  <2>4. Nav' = Nav /\ ~First'
    BY <1>3, <2>2, <2>3
  <2> QED BY <1>5, <2>4 DEF LastNav, L
<1> QED BY <1>4, <1>5 DEF L

LEMMA FirstNav == ASSUME StreamInv, First, sent # 0 PROVE Nav # 1
<1> DEFINE L == Len(profile)
           q == sent \div L
<1>1. L \in Nat \ {0} /\ sent \in Nat
  BY StreamIs DEF StreamInv
<1> HIDE DEF L
<1>2. sent = (L * q) + (sent % L) /\ q \in Nat
  BY <1>1
<1>3. sent % L = 0 /\ Nav = 1 + q
  BY DEF First, Nav, L
<1> HIDE DEF q
<1>4. q # 0
  BY <1>1, <1>2, <1>3
<1> QED BY <1>2, <1>3, <1>4

LEMMA EInvNav ==
    ASSUME StreamInv
    PROVE  /\ LastNav \in Nat /\ LastNav <= Nav
           /\ First => LastNav = Nav - 1
           /\ ~First => LastNav = Nav
BY StreamIs DEF LastNav

-----------------------------------------------------------------------------
(* A step of the input thread                                              *)
LEMMA ReceiveIs ==
    ASSUME Receive
    PROVE  LET c == Completes(collector.detect, Msg) IN
           /\ collector'.coll = Collected(IF c THEN NoColl ELSE collector.coll, Msg)
           /\ collector'.detect = Detected(collector.detect, Msg)
           /\ seen' = (IF c THEN {} ELSE seen) \cup {Msg}
           /\ c => AddEpoch(Noted(EpochComplete(collector.coll, Detected(collector.detect, Msg).seq)))
           /\ ~c => UNCHANGED dbVars
           /\ sent' = sent + 1 /\ profile' = profile /\ noFix' = noFix /\ timeless' = timeless /\ lost' = lost
           /\ Nav <= MaxNav
           /\ Unlocked
BY DEF Receive, epochCollect

LEMMA KindsAre ==
    ASSUME StreamInv
    PROVE  LET k == Msg.kind IN
           /\ k \in UbxTimed => k \notin NmeaTimed /\ k # "EOE" /\ k # "GSV"
           /\ k \in NmeaTimed => k \notin UbxTimed /\ k # "EOE" /\ k # "GSV"
           /\ k = "EOE" => k \notin UbxTimed /\ k \notin NmeaTimed
           /\ k = "GSV" => k \notin UbxTimed /\ k \notin NmeaTimed
           /\ k \in UbxTimed \/ k \in NmeaTimed \/ k = "EOE" \/ k = "GSV"
           /\ OneProtocol => k \in UbxTimed \/ k = "EOE"
<1>1. Msg.kind \in UbxKinds \cup NmeaKinds
  BY StreamIs DEF Message
<1>2. OneProtocol => Msg.kind \in UbxKinds
  <2>1. 1 + (sent % Len(profile)) \in DOMAIN profile
    <3>1. profile \in Seq(UbxKinds \cup NmeaKinds)
      BY EpochsAssumption DEF StreamInv
    <3>2. DOMAIN profile = 1..Len(profile)
      BY <3>1
    <3> QED BY <3>2, StreamIs
  <2> QED BY <2>1, StreamIs DEF OneProtocol, Kinds
<1> DEFINE k == Msg.kind
<1> HIDE DEF k
<1>3. k \in UbxKinds \cup NmeaKinds /\ (OneProtocol => k \in UbxKinds)
  BY <1>1, <1>2 DEF k
<1> QED BY <1>3 DEF UbxKinds, NmeaKinds, UbxTimed, NmeaTimed, k

LEMMA DetectedIs ==
    ASSUME StreamInv, NEW d \in Detect
    PROVE  /\ Detected(d, Msg) \in Detect
           /\ Detected(d, Msg).seq = IF Completes(d, Msg) THEN d.seq + 1 ELSE d.seq
           /\ Msg.kind = "EOE" =>
                /\ Completes(d, Msg)
                /\ ~Detected(d, Msg).haveUbxItow /\ ~Detected(d, Msg).haveNmeaMs
           /\ Msg.kind \in UbxTimed =>
                /\ Completes(d, Msg) <=> d.haveUbxItow /\ d.ubxItow # Nav
                /\ Detected(d, Msg).haveUbxItow /\ Detected(d, Msg).ubxItow = Nav
                /\ Detected(d, Msg).haveNmeaMs <=> d.haveNmeaMs /\ ~Completes(d, Msg)
                /\ Detected(d, Msg).nmeaMs = d.nmeaMs
           /\ Msg.kind \in NmeaTimed =>
                /\ Completes(d, Msg) <=> d.haveNmeaMs /\ d.nmeaMs # Ms(Nav)
                /\ Detected(d, Msg).haveNmeaMs /\ Detected(d, Msg).nmeaMs = Ms(Nav)
                /\ Detected(d, Msg).haveUbxItow <=> d.haveUbxItow /\ ~Completes(d, Msg)
                /\ Detected(d, Msg).ubxItow = d.ubxItow
           /\ Msg.kind = "GSV" =>
                /\ ~Completes(d, Msg)
                /\ Detected(d, Msg).haveUbxItow <=> d.haveUbxItow
                /\ Detected(d, Msg).haveNmeaMs <=> d.haveNmeaMs
                /\ Detected(d, Msg).ubxItow = d.ubxItow /\ Detected(d, Msg).nmeaMs = d.nmeaMs
<1>1. Msg.nav = Nav /\ Nav \in Nat /\ Msg.ms = Ms(Nav) /\ Ms(Nav) \in Nat
  BY StreamIs DEF Message
<1>2. /\ d.haveUbxItow \in BOOLEAN /\ d.haveNmeaMs \in BOOLEAN /\ d.ubxItow \in Nat /\ d.nmeaMs \in Nat
      /\ d.seq \in Nat
  BY DEF Detect
<1> DEFINE k == Msg.kind
           c == Completes(d, Msg)
           D == Detected(d, Msg)
<1>3. /\ k \in UbxTimed => k \notin NmeaTimed /\ k # "EOE" /\ k # "GSV"
      /\ k \in NmeaTimed => k \notin UbxTimed /\ k # "EOE" /\ k # "GSV"
      /\ k = "EOE" => k \notin UbxTimed /\ k \notin NmeaTimed
      /\ k = "GSV" => k \notin UbxTimed /\ k \notin NmeaTimed
      /\ k \in UbxTimed \/ k \in NmeaTimed \/ k = "EOE" \/ k = "GSV"
  BY KindsAre
<1>4. c <=> \/ k = "EOE"
            \/ k \in UbxTimed /\ d.haveUbxItow /\ d.ubxItow # Nav
            \/ k \in NmeaTimed /\ d.haveNmeaMs /\ d.nmeaMs # Ms(Nav)
  BY <1>1 DEF Completes
<1>5. c \in BOOLEAN
  BY DEF Completes
<1>6. D = [haveUbxItow |-> CASE k = "EOE" -> FALSE
                             [] k \in UbxTimed -> TRUE
                             [] OTHER -> d.haveUbxItow /\ ~c,
           ubxItow     |-> IF k \in UbxTimed THEN Nav ELSE d.ubxItow,
           haveNmeaMs  |-> IF k \in NmeaTimed THEN TRUE ELSE d.haveNmeaMs /\ ~c,
           nmeaMs      |-> IF k \in NmeaTimed THEN Ms(Nav) ELSE d.nmeaMs,
           seq         |-> IF c THEN d.seq + 1 ELSE d.seq]
  BY <1>1 DEF Detected
<1> HIDE DEF k, c, D
<1>7. /\ D.ubxItow = IF k \in UbxTimed THEN Nav ELSE d.ubxItow
      /\ D.nmeaMs = IF k \in NmeaTimed THEN Ms(Nav) ELSE d.nmeaMs
      /\ D.seq = IF c THEN d.seq + 1 ELSE d.seq
  BY <1>6
<1>8. D.haveNmeaMs = IF k \in NmeaTimed THEN TRUE ELSE d.haveNmeaMs /\ ~c
  BY <1>6
<1>9. D.haveUbxItow = CASE k = "EOE" -> FALSE
                        [] k \in UbxTimed -> TRUE
                        [] OTHER -> d.haveUbxItow /\ ~c
  BY <1>6
<1>10. /\ k = "EOE" => D.haveUbxItow = FALSE
       /\ k \in UbxTimed => D.haveUbxItow = TRUE
       /\ k \in NmeaTimed \/ k = "GSV" => D.haveUbxItow = (d.haveUbxItow /\ ~c)
  BY <1>3, <1>9
<1>11. D \in Detect
  <2>1. D.haveUbxItow \in BOOLEAN
    <3>1. (d.haveUbxItow /\ ~c) \in BOOLEAN
      OBVIOUS
    <3> QED BY <1>3, <1>10, <3>1
  <2>2. D.haveNmeaMs \in BOOLEAN
    <3>1. (d.haveNmeaMs /\ ~c) \in BOOLEAN
      OBVIOUS
    <3> QED BY <1>8, <3>1
  <2>3. D.ubxItow \in Nat /\ D.nmeaMs \in Nat /\ D.seq \in Nat
    BY <1>1, <1>2, <1>7
  <2>4. D = [haveUbxItow |-> D.haveUbxItow, ubxItow |-> D.ubxItow, haveNmeaMs |-> D.haveNmeaMs,
             nmeaMs |-> D.nmeaMs, seq |-> D.seq]
    BY <1>6
  <2> QED BY <2>1, <2>2, <2>3, <2>4 DEF Detect
<1>12. k = "EOE" => c /\ ~D.haveUbxItow /\ ~D.haveNmeaMs
  BY <1>3, <1>4, <1>8, <1>10
<1>13. k \in UbxTimed =>
          /\ c <=> d.haveUbxItow /\ d.ubxItow # Nav
          /\ D.haveUbxItow /\ D.ubxItow = Nav
          /\ D.haveNmeaMs <=> d.haveNmeaMs /\ ~c
          /\ D.nmeaMs = d.nmeaMs
  BY <1>3, <1>4, <1>7, <1>8, <1>10
<1>14. k \in NmeaTimed =>
          /\ c <=> d.haveNmeaMs /\ d.nmeaMs # Ms(Nav)
          /\ D.haveNmeaMs /\ D.nmeaMs = Ms(Nav)
          /\ D.haveUbxItow <=> d.haveUbxItow /\ ~c
          /\ D.ubxItow = d.ubxItow
  BY <1>3, <1>4, <1>7, <1>8, <1>10
<1>15. k = "GSV" => ~c
  BY <1>3, <1>4
<1>16. k = "GSV" => (D.haveUbxItow <=> d.haveUbxItow) /\ (D.haveNmeaMs <=> d.haveNmeaMs)
  BY <1>3, <1>8, <1>10, <1>15
<1>17. k = "GSV" => D.ubxItow = d.ubxItow /\ D.nmeaMs = d.nmeaMs
  BY <1>3, <1>7
<1> QED BY <1>7, <1>11, <1>12, <1>13, <1>14, <1>15, <1>16, <1>17 DEF k, c, D

LEMMA NoData0 ==
    Sourced(NoColl, {}) /\ GsvComplete(Froms(NoColl), {}) /\ Twins(Froms(NoColl), {}) /\ Data(NoColl) = {}
<1>1. DOMAIN NoColl = Fields /\ \A f \in Fields : NoColl[f].qual = NOTHING /\ NoColl[f].from = {}
  BY DEF NoColl, NoData
<1>2. \A f \in OwnFields : f \in Fields
  BY DEF OwnFields
<1>3. Twins(Froms(NoColl), {})
  <2>1. {"sat", "orbAvail", "fix", "fixOk"} \subseteq Fields
    BY DEF Fields
  <2> QED BY <1>1, <2>1 DEF Twins, Froms
<1> QED BY <1>1, <1>2, <1>3 DEF Sourced, GsvComplete, Data

LEMMA CollectorStep ==
    ASSUME StreamInv, CollectorInv, Receive
    PROVE  /\ CollectorInv'
           /\ Data(collector'.coll) \subseteq
                (IF Completes(collector.detect, Msg) THEN {} ELSE Data(collector.coll)) \cup {Msg}
           /\ Msg.kind = "EOE" => Data(collector'.coll) = {}
<1> DEFINE c == Completes(collector.detect, Msg)
           old == IF c THEN NoColl ELSE collector.coll
           S == IF c THEN {} ELSE seen
           new == Collected(old, Msg)
<1>1. /\ collector'.coll = new /\ collector'.detect = Detected(collector.detect, Msg)
      /\ seen' = S \cup {Msg}
  BY ReceiveIs
<1>2. Msg \in Message
  BY StreamIs
<1>3. S \in SUBSET Message /\ Sourced(old, S) /\ GsvComplete(Froms(old), S) /\ Twins(Froms(old), S)
  BY NoData0 DEF CollectorInv, Froms
<1>4. collector'.detect \in Detect
  BY <1>1, DetectedIs DEF CollectorInv
<1>5. /\ Sourced(new, S \cup {Msg}) /\ GsvComplete(Froms(new), S \cup {Msg})
      /\ Twins(Froms(new), S \cup {Msg})
  <2> HIDE DEF S, old
  <2> QED BY <1>2, <1>3, CollectKeeps, CollectGsv, CollectTwins
<1>6. \A f \in Fields : new[f].from \subseteq old[f].from \cup {Msg}
  <2> HIDE DEF old
  <2> QED BY CollectedFrom
<1>7. Data(old) \subseteq IF c THEN {} ELSE Data(collector.coll)
  BY NoData0
<1>8. Data(new) \subseteq Data(old) \cup {Msg}
  <2> HIDE DEF new, old
  <2> QED BY <1>6 DEF Data
<1>9. ASSUME Msg.kind = "EOE" PROVE Data(new) = {}
  <2>1. c
    BY <1>9 DEF Completes
  <2>2. Rules(Msg) = {}
    BY <1>9 DEF Rules, UbxRules, NmeaRules
  <2>3. new = [f \in Fields |-> NoColl[f]]
    BY <2>1, <2>2 DEF Collected
  <2>4. \A f \in Fields : new[f].from = {}
    BY <2>3 DEF NoColl, NoData
  <2> HIDE DEF new
  <2> QED BY <2>4 DEF Data
<1> HIDE DEF new, old, c, S
<1>10. CollectorInv'
  <2>1. seen' \subseteq Message
    BY <1>1, <1>2, <1>3
  <2>2. /\ GsvComplete([f \in Fields |-> collector.coll[f].from], seen)'
        /\ Twins([f \in Fields |-> collector.coll[f].from], seen)'
    BY <1>1, <1>5 DEF Froms
  <2>3. Sourced(collector.coll, seen)'
    BY <1>1, <1>5
  <2> QED BY <1>4, <2>1, <2>2, <2>3 DEF CollectorInv
<1> QED BY <1>1, <1>7, <1>8, <1>9, <1>10 DEF c

LEMMA EoeIsLast ==
    ASSUME StreamInv, Msg.kind = "EOE"
    PROVE  1 + (sent % Len(profile)) = Len(profile)
<1>1. \A i \in 1..Len(profile) - 1 : profile[i] # "EOE"
  BY StreamIs DEF Proper
<1>2. PICK i : i = 1 + (sent % Len(profile))
  OBVIOUS
<1>3. profile[i] = "EOE"
  BY <1>2, StreamIs
<1>4. i \in 1..Len(profile) /\ Len(profile) \in Nat
  BY <1>2, StreamIs
<1>5. i = Len(profile)
  BY <1>1, <1>3, <1>4
<1> QED BY <1>2, <1>5

(* The data is of one navigation epoch, which is over when the collector
   completes an epoch: if there is one protocol                            *)
LEMMA UbxStep ==
    ASSUME StreamInv, CollectorInv, UbxOnly, Receive, OneProtocol
    PROVE  /\ UbxOnly'
           /\ Completes(collector.detect, Msg) =>
                \A m \in Data(collector.coll) : m.nav < Nav' /\ \A y \in Data(collector'.coll) : m.nav < y.nav
           /\ \A x, y \in Data(collector.coll) : x.nav = y.nav
<1> DEFINE d == collector.detect
           c == Completes(d, Msg)
           data == Data(collector.coll)
           new == Data(collector'.coll)
           last == 1 + (sent % Len(profile)) = Len(profile)
<1>1. /\ collector'.detect = Detected(d, Msg) /\ sent' = sent + 1 /\ profile' = profile
  BY ReceiveIs
<1>2. /\ last => Nav' = Nav + 1
      /\ ~last => Nav' = Nav
      /\ LastNav' = Nav
  BY <1>1, StreamStep
<1>3. /\ Msg.nav = Nav /\ Nav \in Nat \ {0} /\ LastNav \in Nat /\ LastNav <= Nav
      /\ Msg.kind = "EOE" => last
  <2>1. Msg.kind = "EOE" => last
    BY EoeIsLast
  <2> QED BY <2>1, StreamIs, EInvNav
<1>4. /\ ~d.haveNmeaMs
      /\ d.haveUbxItow => (\A m \in data : m.nav = d.ubxItow) /\ d.ubxItow <= LastNav
      /\ ~d.haveUbxItow => data = {}
  BY DEF UbxOnly, Of
<1>5. d \in Detect /\ d.ubxItow \in Nat
  BY DEF CollectorInv, Detect
<1>6. new \subseteq (IF c THEN {} ELSE data) \cup {Msg} /\ (Msg.kind = "EOE" => new = {})
  BY CollectorStep
<1>7. Msg.kind \in UbxTimed \/ Msg.kind = "EOE"
  BY KindsAre
<1>8. OneProtocol' = OneProtocol
  BY <1>1 DEF OneProtocol, Kinds
<1>9. UbxOnly' <=> (/\ ~collector'.detect.haveNmeaMs
                    /\ collector'.detect.haveUbxItow =>
                        (\A m \in new : m.nav = collector'.detect.ubxItow)
                        /\ collector'.detect.ubxItow <= LastNav'
                    /\ ~collector'.detect.haveUbxItow => new = {})
  BY <1>8 DEF UbxOnly, Of
<1>10. \A x, y \in data : x.nav = y.nav
  BY <1>4
<1> HIDE DEF c, data, new, last
<1>11. CASE Msg.kind = "EOE"
  <2>1. ~collector'.detect.haveUbxItow /\ ~collector'.detect.haveNmeaMs
    BY <1>1, <1>5, <1>11, DetectedIs
  <2>2. \A m \in data : m.nav < Nav'
    BY <1>2, <1>3, <1>4, <1>5, <1>11
  <2> QED BY <1>6, <1>9, <1>10, <1>11, <2>1, <2>2 DEF data, new
<1>12. CASE Msg.kind \in UbxTimed
  <2>1. /\ c <=> d.haveUbxItow /\ d.ubxItow # Nav
        /\ collector'.detect.haveUbxItow /\ collector'.detect.ubxItow = Nav
        /\ ~collector'.detect.haveNmeaMs
    BY <1>1, <1>4, <1>5, <1>12, DetectedIs DEF c
  <2>2. \A m \in new : m.nav = Nav
    BY <1>3, <1>4, <1>6, <2>1
  <2>3. c => \A m \in data : m.nav < Nav /\ m.nav \in Nat
    BY <1>3, <1>4, <1>5, <2>1
  <2>4. Nav' >= Nav /\ Nav' \in Nat
    BY <1>2, <1>3
  <2>5. c => \A m \in data : m.nav < Nav' /\ \A y \in new : m.nav < y.nav
    BY <1>3, <2>2, <2>3, <2>4
  <2> QED BY <1>2, <1>3, <1>9, <1>10, <2>1, <2>2, <2>5 DEF c, data, new
<1> QED BY <1>7, <1>11, <1>12

(* ... or if there are two, but nothing is lost                            *)
LEMMA MixedStep ==
    ASSUME StreamInv, CollectorInv, NoneLost, Receive, Whole
    PROVE  /\ NoneLost'
           /\ Completes(collector.detect, Msg) =>
                \A m \in Data(collector.coll) : m.nav < Nav' /\ \A y \in Data(collector'.coll) : m.nav < y.nav
           /\ \A x, y \in Data(collector.coll) : x.nav = y.nav
<1> DEFINE d == collector.detect
           d2 == collector'.detect
           c == Completes(d, Msg)
           data == Data(collector.coll)
           new == Data(collector'.coll)
           last == 1 + (sent % Len(profile)) = Len(profile)
           clean == sent = 0 \/ AfterEoe
           first == profile[1]
           eoe == profile[Len(profile)] = "EOE"
<1>1. /\ d2 = Detected(d, Msg) /\ sent' = sent + 1 /\ profile' = profile /\ lost' = lost
      /\ timeless' = timeless /\ Nav <= MaxNav
  BY ReceiveIs
<1>2. /\ last => Nav' = Nav + 1 /\ First'
      /\ ~last => Nav' = Nav /\ ~First'
      /\ LastNav' = Nav
  BY <1>1, StreamStep
<1>3. /\ Msg.nav = Nav /\ Nav \in Nat \ {0} /\ LastNav \in Nat
      /\ (First => LastNav = Nav - 1) /\ (~First => LastNav = Nav)
      /\ Msg.kind = "EOE" => last
      /\ last /\ eoe => Msg.kind = "EOE"
      /\ First => Msg.kind = first
      /\ eoe \/ first \in UbxTimed \cup NmeaTimed
      /\ sent \in Nat
  <2>1. eoe \/ first \in UbxTimed \cup NmeaTimed
    BY StreamIs DEF Proper
  <2>2. Msg.kind = profile[1 + (sent % Len(profile))] /\ sent % Len(profile) \in 0..Len(profile) - 1
        /\ Len(profile) \in Nat
    BY StreamIs
  <2>3. Msg.kind = "EOE" => last
    BY EoeIsLast
  <2>4. last /\ eoe => Msg.kind = "EOE"
    BY <2>2
  <2>5. First => Msg.kind = first
    BY <2>2 DEF First
  <2> QED BY <2>1, <2>3, <2>4, <2>5, StreamIs, EInvNav DEF StreamInv
<1>4. /\ \A m \in data : m.nav = LastNav
      /\ d.haveUbxItow => d.ubxItow = LastNav
      /\ d.haveNmeaMs => d.nmeaMs = Ms(LastNav)
      /\ clean => data = {} /\ ~d.haveUbxItow /\ ~d.haveNmeaMs
      /\ ~clean => /\ first \in UbxTimed => d.haveUbxItow
                   /\ first \in NmeaTimed => d.haveNmeaMs
  BY DEF NoneLost, Of
<1>5. d \in Detect
  BY DEF CollectorInv
<1>6. new \subseteq (IF c THEN {} ELSE data) \cup {Msg} /\ (Msg.kind = "EOE" => new = {})
  BY CollectorStep
<1>7. /\ Msg.kind \in UbxTimed => Msg.kind \notin NmeaTimed /\ Msg.kind # "EOE" /\ Msg.kind # "GSV"
      /\ Msg.kind \in NmeaTimed => Msg.kind \notin UbxTimed /\ Msg.kind # "EOE" /\ Msg.kind # "GSV"
      /\ Msg.kind = "GSV" => Msg.kind \notin UbxTimed /\ Msg.kind \notin NmeaTimed
      /\ Msg.kind \in UbxTimed \/ Msg.kind \in NmeaTimed \/ Msg.kind = "EOE" \/ Msg.kind = "GSV"
  BY KindsAre
<1>8. clean' <=> last /\ eoe
  BY <1>1, <1>2, <1>3 DEF AfterEoe
<1>9. NoneLost' <=> (/\ \A m \in new : m.nav = LastNav'
                     /\ d2.haveUbxItow => d2.ubxItow = LastNav'
                     /\ d2.haveNmeaMs => d2.nmeaMs = Ms(LastNav)'
                     /\ clean' => new = {} /\ ~d2.haveUbxItow /\ ~d2.haveNmeaMs
                     /\ ~clean' => /\ first \in UbxTimed => d2.haveUbxItow
                                   /\ first \in NmeaTimed => d2.haveNmeaMs)
  BY <1>1 DEF NoneLost, Of, Whole, UbxMarks, NmeaTells, Ms
<1>18. Ms(LastNav)' = Ms(Nav)
  BY <1>1, <1>2 DEF Ms
<1>19. First /\ ~clean /\ ~eoe /\ first \notin UbxTimed => Ms(LastNav) # Ms(Nav)
  <2> SUFFICES ASSUME First, ~clean, ~eoe, first \notin UbxTimed PROVE Ms(LastNav) # Ms(Nav)
    OBVIOUS
  <2>1. NmeaTells
    BY DEF Whole, UbxMarks
  <2>2. LastNav = Nav - 1 /\ Nav \in Nat /\ LastNav \in Nat
    BY <1>3
  <2>3. Nav # 1
    BY StreamIs, FirstNav DEF First
  <2>4. LastNav \in 1..MaxNav - 1 /\ LastNav + 1 = Nav /\ MaxNav \in Nat
    BY <1>1, <2>2, <2>3, EpochsAssumption
  <2>5. PICK n : n = LastNav
    OBVIOUS
  <2>6. Ms(n) # Ms(n + 1)
    BY <2>1, <2>4, <2>5 DEF NmeaTells
  <2> QED BY <2>4, <2>5, <2>6
<1>10. \A x, y \in data : x.nav = y.nav
  BY <1>4
<1>11. /\ Msg.kind = "EOE" => c /\ ~d2.haveUbxItow /\ ~d2.haveNmeaMs
       /\ Msg.kind \in UbxTimed =>
            /\ c <=> d.haveUbxItow /\ d.ubxItow # Nav
            /\ d2.haveUbxItow /\ d2.ubxItow = Nav
            /\ d2.haveNmeaMs <=> d.haveNmeaMs /\ ~c
            /\ d2.nmeaMs = d.nmeaMs
       /\ Msg.kind \in NmeaTimed =>
            /\ c <=> d.haveNmeaMs /\ d.nmeaMs # Ms(Nav)
            /\ d2.haveNmeaMs /\ d2.nmeaMs = Ms(Nav)
            /\ d2.haveUbxItow <=> d.haveUbxItow /\ ~c
            /\ d2.ubxItow = d.ubxItow
       /\ Msg.kind = "GSV" =>
            /\ ~c
            /\ d2.haveUbxItow <=> d.haveUbxItow
            /\ d2.haveNmeaMs <=> d.haveNmeaMs
            /\ d2.ubxItow = d.ubxItow /\ d2.nmeaMs = d.nmeaMs
  BY <1>1, <1>5, DetectedIs
<1> HIDE DEF d, d2, c, data, new, last, first, eoe
<1>12. CASE Msg.kind = "EOE"
  <2>1. last /\ Nav' = Nav + 1 /\ new = {} /\ ~d2.haveUbxItow /\ ~d2.haveNmeaMs
    BY <1>2, <1>3, <1>6, <1>11, <1>12
  <2>2. eoe
    <3>1. Msg.kind = profile[1 + (sent % Len(profile))]
      BY StreamIs
    <3> QED BY <1>12, <2>1, <3>1 DEF last, eoe
  <2>3. \A m \in data : m.nav < Nav'
    BY <1>3, <1>4, <2>1
  <2>4. NoneLost'
    BY <1>8, <1>9, <2>1, <2>2
  <2> QED BY <1>10, <2>1, <2>3, <2>4 DEF data, new
<1>13. clean => First
  BY StreamIs DEF AfterEoe
<1>14. ~clean /\ First => first \in UbxTimed \cup NmeaTimed /\ ~eoe
  BY <1>3 DEF AfterEoe, eoe
<1> HIDE DEF clean
<1>15. CASE Msg.kind # "EOE" /\ clean
  <2>1. ~c
    BY <1>4, <1>7, <1>11, <1>15
  <2>2. \A m \in new : m.nav = Nav
    BY <1>3, <1>4, <1>6, <1>15
  <2>3. /\ d2.haveUbxItow => d2.ubxItow = Nav
        /\ d2.haveNmeaMs => d2.nmeaMs = Ms(Nav)
        /\ first \in UbxTimed => d2.haveUbxItow
        /\ first \in NmeaTimed => d2.haveNmeaMs
    BY <1>3, <1>4, <1>7, <1>11, <1>13, <1>15
  <2>4. NoneLost'
    BY <1>2, <1>3, <1>8, <1>9, <1>15, <1>18, <2>2, <2>3
  <2> QED BY <1>10, <2>1, <2>4 DEF c, d, data
<1>16. CASE Msg.kind # "EOE" /\ ~clean /\ First
  <2>1. LastNav = Nav - 1 /\ Msg.kind = first /\ first \in UbxTimed \cup NmeaTimed /\ ~eoe /\ LastNav # Nav
    BY <1>3, <1>14, <1>16
  <2>2. c
    BY <1>4, <1>11, <1>16, <1>19, <2>1
  <2>3. \A m \in new : m.nav = Nav
    BY <1>3, <1>6, <2>2
  <2>4. /\ d2.haveUbxItow => d2.ubxItow = Nav
        /\ d2.haveNmeaMs => d2.nmeaMs = Ms(Nav)
        /\ first \in UbxTimed => d2.haveUbxItow
        /\ first \in NmeaTimed => d2.haveNmeaMs
    BY <1>7, <1>11, <2>1, <2>2
  <2>5. NoneLost'
    BY <1>2, <1>8, <1>9, <1>18, <2>1, <2>3, <2>4
  <2>6. Nav' >= Nav /\ Nav' \in Nat
    BY <1>2, <1>3
  <2>7. \A m \in data : m.nav < Nav' /\ \A y \in new : m.nav < y.nav
    BY <1>3, <1>4, <2>1, <2>3, <2>6
  <2> QED BY <1>10, <2>5, <2>7 DEF data, new
<1>17. CASE Msg.kind # "EOE" /\ ~clean /\ ~First
  <2>1. LastNav = Nav
    BY <1>3, <1>17
  <2>2. ~c
    BY <1>4, <1>7, <1>11, <1>17, <2>1
  <2>3. \A m \in new : m.nav = Nav
    BY <1>3, <1>4, <1>6, <2>1
  <2>4. /\ d2.haveUbxItow => d2.ubxItow = Nav
        /\ d2.haveNmeaMs => d2.nmeaMs = Ms(Nav)
        /\ first \in UbxTimed => d2.haveUbxItow
        /\ first \in NmeaTimed => d2.haveNmeaMs
    BY <1>4, <1>7, <1>11, <1>17, <2>1, <2>2
  <2>5. NoneLost'
    BY <1>2, <1>3, <1>8, <1>9, <1>17, <1>18, <2>3, <2>4
  <2> QED BY <1>10, <2>2, <2>5 DEF c, d, data
<1> QED BY <1>12, <1>15, <1>16, <1>17

LEMMA PureStep ==
    ASSUME StreamInv, CollectorInv, UbxOnly, NoneLost, Receive
    PROVE  /\ UbxOnly' /\ NoneLost'
           /\ Pure =>
                /\ Completes(collector.detect, Msg) =>
                    \A m \in Data(collector.coll) : m.nav < Nav' /\ \A y \in Data(collector'.coll) : m.nav < y.nav
                /\ \A x, y \in Data(collector.coll) : x.nav = y.nav
<1>1. OneProtocol' = OneProtocol /\ (Whole' <=> Whole)
  BY ReceiveIs DEF OneProtocol, Kinds, Whole, UbxMarks, NmeaTells, Ms
<1>2. UbxOnly'
  <2>1. CASE OneProtocol
    BY <2>1, UbxStep
  <2>2. CASE ~OneProtocol
    BY <1>1, <2>2 DEF UbxOnly
  <2> QED BY <2>1, <2>2
<1>3. NoneLost'
  <2>1. CASE Whole
    BY <2>1, MixedStep
  <2>2. CASE ~Whole
    BY <1>1, <2>2 DEF NoneLost
  <2> QED BY <2>1, <2>2
<1>4. CASE OneProtocol
  BY <1>2, <1>3, <1>4, UbxStep
<1>5. CASE Whole
  BY <1>2, <1>3, <1>5, MixedStep
<1> QED BY <1>2, <1>3, <1>4, <1>5 DEF Pure

(* An epoch that is complete                                               *)
LEMMA NotedIs ==
    ASSUME CollectorInv, NEW n \in Nat, NEW raw, raw = Noted(EpochComplete(collector.coll, n))
    PROVE  /\ raw \in NotedEpochs /\ raw.epoch.seq = n
           /\ Navs(raw) = {m.nav : m \in Data(collector.coll)} /\ Navs(raw) \subseteq Nat
           /\ Best(raw)
<1> DEFINE coll == collector.coll
           epoch == EpochComplete(coll, n)
<1>1. /\ raw = [epoch |-> epoch, of |-> seen]
      /\ epoch.seq = n /\ epoch.from = [f \in Fields |-> coll[f].from]
      /\ epoch = [seq |-> n, from |-> epoch.from, havePos |-> epoch.havePos,
                  haveMsl |-> epoch.haveMsl, haveFix |-> epoch.haveFix]
  BY DEF Noted, EpochComplete
<1>2. epoch.havePos \in BOOLEAN /\ epoch.haveMsl \in BOOLEAN /\ epoch.haveFix \in BOOLEAN
  <2>1. /\ epoch.havePos = (coll["llh"].qual # coll["xyz"].qual /\ HasFix(coll))
        /\ epoch.haveMsl = (\E m \in coll["msl"].from : m.fix)
        /\ epoch.haveFix = (coll["haveFix"].qual # NOTHING)
    BY DEF EpochComplete
  <2>2. /\ (coll["llh"].qual # coll["xyz"].qual /\ HasFix(coll)) \in BOOLEAN
        /\ (\E m \in coll["msl"].from : m.fix) \in BOOLEAN
        /\ (coll["haveFix"].qual # NOTHING) \in BOOLEAN
    OBVIOUS
  <2> QED BY <2>1, <2>2
<1>3. seen \subseteq Message /\ \A f \in Fields : coll[f].from \subseteq seen
  BY DEF CollectorInv, Sourced
<1> HIDE DEF epoch, coll
<1>4. raw.epoch = epoch /\ raw.of = seen /\ \A f \in Fields : raw.epoch.from[f] = coll[f].from
  BY <1>1
<1>5. raw \in NotedEpochs
  <2>1. epoch.from \in [Fields -> SUBSET Message]
    BY <1>1, <1>3
  <2>2. epoch \in [seq : Nat, from : [Fields -> SUBSET Message], havePos : BOOLEAN,
                   haveMsl : BOOLEAN, haveFix : BOOLEAN]
    BY <1>1, <1>2, <2>1
  <2> QED BY <1>1, <1>3, <2>2 DEF NotedEpochs
<1>6. UNION {raw.epoch.from[f] : f \in Fields} = Data(coll)
  BY <1>4 DEF Data
<1>7. Navs(raw) = {m.nav : m \in Data(coll)}
  BY <1>6 DEF Navs
<1>8. \A m \in Data(coll) : m.nav \in Nat
  BY <1>3 DEF Data, Message
<1>9. Best(raw)
  <2>1. \A f \in OwnFields : \A m \in raw.of :
            Supplies(m, f) =>
                /\ raw.epoch.from[f] # {}
                /\ \A src \in raw.epoch.from[f] : Rank(m, f) <= Rank(src, f)
    <3> SUFFICES ASSUME NEW f \in OwnFields, NEW m \in seen, Supplies(m, f)
                 PROVE  /\ coll[f].from # {}
                        /\ \A src \in coll[f].from : Rank(m, f) <= Rank(src, f)
      BY <1>4 DEF OwnFields
    <3> QED BY <1>3, SourcedIsBest DEF CollectorInv, coll
  <2>2. GsvComplete(raw.epoch.from, raw.of)
    BY <1>1, <1>4 DEF CollectorInv, coll
  <2>3. Twins(raw.epoch.from, raw.of)
    BY <1>1, <1>4 DEF CollectorInv, coll
  <2>4. ASSUME NEW m \in raw.of, Supplies(m, "fixOk"), ~PvtWithoutFix(raw.of)
        PROVE  /\ raw.epoch.from["fixOk"] # {}
               /\ \A src \in raw.epoch.from["fixOk"] : Rank(m, "fixOk") <= Rank(src, "fixOk")
    <3>1. m \in Message
      BY <1>3, <1>4
    <3>2. Supplies(m, "fix")
      BY <2>4, <3>1, TwinRules DEF Supplies, Pair, PvtWithoutFix
    <3>3. raw.epoch.from["fixOk"] = raw.epoch.from["fix"]
      BY <2>3, <2>4 DEF Twins
    <3>4. \A x : Rank(x, "fixOk") = Rank(x, "fix")
      BY DEF Rank
    <3>5. "fix" \in OwnFields
      BY DEF OwnFields, Fields
    <3> QED BY <2>1, <2>4, <3>2, <3>3, <3>4, <3>5
  <2>5. raw.epoch.from["sat"] \subseteq raw.epoch.from["orbAvail"]
    BY <2>3 DEF Twins
  <2>6. ASSUME NEW f \in OwnFields \cup {"fixOk"}, NEW m \in raw.of, Supplies(m, f)
        PROVE  \/ f = "fixOk" /\ PvtWithoutFix(raw.of)
               \/ /\ raw.epoch.from[f] # {}
                  /\ \A src \in raw.epoch.from[f] : Rank(m, f) <= Rank(src, f)
    BY <2>1, <2>4, <2>6
  <2> QED BY <2>2, <2>5, <2>6 DEF Best
<1> QED BY <1>1, <1>4, <1>5, <1>7, <1>8, <1>9 DEF coll

(* What is in the database stays good                                      *)
LEMMA StoredStep ==
    ASSUME IInv, IInv', StoredInv, Pure' => Pure,
           \/ \E raw \in Raw : AddEpoch(raw) /\ GoodIf(raw, Pure)
           \/ CopyEpoch \/ AddDone \/ Main \/ UNCHANGED dbVars
    PROVE  StoredInv'
<1>1. \A x : GoodIf(x, Pure) => GoodIf(x, Pure')
  BY DEF GoodIf
<1> DEFINE Same == \A i \in ValidIn(epochs)' : i \in ValidIn(epochs) /\ epochs'[i].raw = epochs[i].raw
           SameAdding == ~Unlocked' => ~Unlocked /\ adding' = adding
<1>2. Same /\ SameAdding => StoredInv'
  BY <1>1 DEF StoredInv
<1> HIDE DEF Same, SameAdding
<1>3. ASSUME NEW raw \in Raw, AddEpoch(raw), GoodIf(raw, Pure) PROVE StoredInv'
  <2>1. epochs' = [epochs EXCEPT ![epochIx] = NoEpoch] /\ adding' = raw
        /\ epochs = [i \in Slots |-> epochs[i]] /\ epochIx \in Slots
    BY <1>3 DEF AddEpoch, IInv, TypeOK, Places
  <2>2. ~NoEpoch.valid
    BY DEF NoEpoch
  <2>3. \A i \in ValidIn(epochs)' : i \in ValidIn(epochs) /\ epochs'[i].raw = epochs[i].raw
    BY <2>1, <2>2 DEF ValidIn
  <2> QED BY <1>1, <1>3, <2>1, <2>3 DEF StoredInv
<1>4. CASE CopyEpoch
  <2>1. /\ epochs' = [epochs EXCEPT ![epochIx] = Entry(adding, NoRef)] /\ adding' = adding /\ ~Unlocked
        /\ epochs = [i \in Slots |-> epochs[i]] /\ epochIx \in Slots
    BY <1>4 DEF CopyEpoch, IInv, TypeOK, Places
  <2>2. Entry(adding, NoRef).raw = adding
    BY DEF Entry
  <2>3. \A i \in ValidIn(epochs)' : IF i = epochIx THEN epochs'[i].raw = adding
                                    ELSE i \in ValidIn(epochs) /\ epochs'[i].raw = epochs[i].raw
    BY <2>1, <2>2 DEF ValidIn
  <2> QED BY <1>1, <2>1, <2>3 DEF StoredInv
<1>5. CASE AddDone
  <2>1. /\ ValidIn(epochs') = ValidIn(epochs) /\ \A i \in Slots : epochs'[i].raw = epochs[i].raw
        /\ Unlocked'
    BY <1>5, SyncKeeps DEF AddDone, Unlocked
  <2>2. ValidIn(epochs)' = ValidIn(epochs') /\ ValidIn(epochs) \subseteq Slots
    BY DEF ValidIn
  <2>3. Same /\ SameAdding
    BY <2>1, <2>2 DEF Same, SameAdding
  <2> QED BY <1>2, <2>3
<1>6. CASE Clear
  <2>1. Unlocked' /\ \A i \in Slots : ~epochs'[i].valid
    BY <1>6 DEF Clear, Unlocked, NoEpoch
  <2>2. ValidIn(epochs)' = {}
    BY <2>1 DEF ValidIn
  <2>3. Same /\ SameAdding
    BY <2>1, <2>2 DEF Same, SameAdding
  <2> QED BY <1>2, <2>3
<1>7. ASSUME NEW mode \in {"MEAN", "LAST", "USER"}, SetRefPos(mode) PROVE StoredInv'
  <2>1. /\ ValidIn(epochs') = ValidIn(epochs) /\ \A i \in Slots : epochs'[i].raw = epochs[i].raw
        /\ Unlocked'
    BY <1>7, SyncKeeps DEF SetRefPos, Unlocked
  <2>2. ValidIn(epochs)' = ValidIn(epochs') /\ ValidIn(epochs) \subseteq Slots
    BY DEF ValidIn
  <2>3. Same /\ SameAdding
    BY <2>1, <2>2 DEF Same, SameAdding
  <2> QED BY <1>2, <2>3
<1>8. CASE Reader \/ UNCHANGED dbVars
  <2>1. epochs' = epochs /\ adding' = adding
    BY <1>8 DEF Reader, LatestEpoch, FindLastPos, Release, dbVars
  <2>2. ValidIn(epochs)' = ValidIn(epochs) /\ (Unlocked' <=> Unlocked) /\ ValidIn(epochs) \subseteq Slots
    BY <2>1 DEF ValidIn, Unlocked
  <2>3. Same /\ SameAdding
    BY <2>1, <2>2 DEF Same, SameAdding
  <2> QED BY <1>2, <2>3
<1> QED BY <1>3, <1>4, <1>5, <1>6, <1>7, <1>8 DEF Main

(* The log                                                                 *)
LEMMA ViewSeq ==
    ASSUME IInv, Unlocked
    PROVE  /\ LogView \in Seq(Raw) /\ Len(LogView) = epochsValidCnt /\ epochsValidCnt \in 0..Size
           /\ \A n \in 1..epochsValidCnt : LogView[n] = epochs[SlotOf(n - 1)].raw
<1> DEFINE cnt == epochsValidCnt
<1>1. cnt \in 0..Size /\ Size \in Nat
  BY SizeFacts DEF IInv, TypeOK
<1>2. \A n \in 1..cnt : n - 1 \in 0..cnt - 1
  BY <1>1
<1>3. \A n \in 1..cnt : epochs[SlotOf(n - 1)].raw \in Raw
  BY <1>1, <1>2, SlotIs
<1>4. LogView = [n \in 1..cnt |-> epochs[SlotOf(n - 1)].raw]
  BY ViewIs
<1> QED BY <1>1, <1>3, <1>4

LEMMA LogWeaker ==
    ASSUME NEW log \in Seq(Raw), NEW p, NEW p2, p2 => p, NEW seq, NEW nav \in Nat, NEW nav2 \in Nat,
           nav <= nav2, NEW data, NEW data2, LogIs(log, p, seq, nav, data),
           \A m \in data2 : m \in data \/ m.nav = nav
    PROVE  LogIs(log, p2, seq, nav2, data2)
<1>1. \A raw : EndsBefore(raw, nav, data) => EndsBefore(raw, nav2, data2)
  BY DEF EndsBefore
<1>2. \A a, b : FollowsIf(a, b, p) => FollowsIf(a, b, p2)
  BY DEF FollowsIf
<1> QED BY <1>1, <1>2 DEF LogIs

LEMMA LogTail ==
    ASSUME NEW log \in Seq(Raw), log # <<>>, NEW p, NEW seq, NEW nav, NEW data, LogIs(log, p, seq, nav, data)
    PROVE  Tail(log) \in Seq(Raw) /\ LogIs(Tail(log), p, seq, nav, data)
<1> DEFINE t == Tail(log)
<1>1. /\ t \in Seq(Raw) /\ Len(t) = Len(log) - 1 /\ Len(log) \in Nat \ {0} /\ Len(t) \in Nat
      /\ \A n \in 1..Len(t) : t[n] = log[n + 1]
  BY HeadTailProperties
<1> HIDE DEF t
<1>2. ASSUME NEW n \in 1..Len(t) - 1 PROVE FollowsIf(t[n], t[n + 1], p)
  <2>1. n \in 1..Len(t) /\ n + 1 \in 1..Len(t) /\ n + 1 \in 1..Len(log) - 1
    BY <1>1
  <2>2. FollowsIf(log[n + 1], log[n + 1 + 1], p)
    BY <2>1 DEF LogIs
  <2> QED BY <1>1, <2>1, <2>2
<1>3. ASSUME Len(t) > 0 PROVE t[Len(t)] = log[Len(log)] /\ Len(log) > 0
  <2>1. Len(t) \in 1..Len(t) /\ Len(t) + 1 = Len(log)
    BY <1>1, <1>3
  <2> QED BY <1>1, <2>1
<1> QED BY <1>1, <1>2, <1>3 DEF LogIs, t

LEMMA LogAppend ==
    ASSUME NEW log \in Seq(Raw), NEW p, NEW seq, NEW nav, NEW data, LogIs(log, p, seq, nav, data),
           NEW raw \in Raw, NEW seq2, NEW nav2, NEW data2, seq2 = seq + 1, raw.epoch.seq = seq2,
           Navs(raw) = {m.nav : m \in data},
           p => EndsBefore(raw, nav2, data2)
    PROVE  LogIs(Append(log, raw), p, seq2, nav2, data2)
<1> DEFINE r == Append(log, raw)
           l == Len(log)
<1>1. /\ l \in Nat /\ Len(r) = l + 1 /\ r[l + 1] = raw /\ \A n \in 1..l : r[n] = log[n]
  OBVIOUS
<1> HIDE DEF r
<1>2. ASSUME NEW n \in 1..Len(r) - 1 PROVE FollowsIf(r[n], r[n + 1], p)
  <2>1. n \in 1..l
    BY <1>1
  <2>2. CASE n = l
    <3>1. log[l].epoch.seq = seq /\ (p => EndsBefore(log[l], nav, data))
      BY <1>1, <2>1 DEF LogIs
    <3>2. p => \A x \in Navs(log[l]), y \in Navs(raw) : x < y
      BY <3>1 DEF EndsBefore
    <3> QED BY <1>1, <2>1, <2>2, <3>1, <3>2 DEF FollowsIf
  <2>3. CASE n # l
    <3>1. n \in 1..l - 1 /\ n + 1 \in 1..l
      BY <1>1, <2>1, <2>3
    <3>2. FollowsIf(log[n], log[n + 1], p)
      BY <3>1 DEF LogIs
    <3> QED BY <1>1, <2>1, <3>1, <3>2
  <2> QED BY <2>2, <2>3
<1> QED BY <1>1, <1>2 DEF LogIs, r

-----------------------------------------------------------------------------
LEMMA EpochsInitInv == EpochsInit => EInv
<1> SUFFICES ASSUME EpochsInit PROVE EInv
  OBVIOUS
<1>0. timeless \in Nat
  BY EpochsAssumption DEF EpochsInit
<1>1. /\ Init /\ profile \in Profiles /\ sent = 0 /\ lost = 0 /\ collector = epochInit /\ seen = {}
  BY DEF EpochsInit
<1>2. IInv
  BY <1>1, InitInv
<1>3. StreamInv
  BY <1>0, <1>1 DEF StreamInv
<1>4. collector.coll = NoColl /\ collector.detect = NoDetect
  BY <1>1 DEF epochInit
<1>5. NoDetect \in Detect /\ ~NoDetect.haveUbxItow /\ ~NoDetect.haveNmeaMs
  BY DEF Detect, NoDetect
<1>6. Data(collector.coll) = {}
  BY <1>4, NoData0
<1>7. CollectorInv
  BY <1>1, <1>4, <1>5, NoData0 DEF CollectorInv, Froms
<1>8. UbxOnly
  BY <1>4, <1>5, <1>6 DEF UbxOnly
<1>9. NoneLost
  BY <1>1, <1>4, <1>5, <1>6 DEF NoneLost, Of
<1>10. StoredInv
  <2>1. ValidIn(epochs) = {} /\ Unlocked
    BY <1>1 DEF Init, ValidIn, NoEpoch, Unlocked
  <2> QED BY <2>1 DEF StoredInv
<1>11. LogInv
  <2>1. LogView = <<>>
    BY <1>1, InitRefines DEF Log!Init
  <2> QED BY <2>1 DEF LogInv, LogIs
<1> QED BY <1>2, <1>3, <1>7, <1>8, <1>9, <1>10, <1>11 DEF EInv

LEMMA ReceiveInv ==
    ASSUME NotedEpochs \subseteq Raw, EInv, Receive
    PROVE  EInv' /\ [Next]_dbVars
<1> DEFINE c == Completes(collector.detect, Msg)
           raw == Noted(EpochComplete(collector.coll, Detected(collector.detect, Msg).seq))
           seq == collector.detect.seq
           data == Data(collector.coll)
           new == Data(collector'.coll)
<1>1. /\ IInv /\ StreamInv /\ CollectorInv /\ UbxOnly /\ NoneLost /\ StoredInv /\ LogInv
  BY DEF EInv
<1>2. /\ collector'.detect = Detected(collector.detect, Msg)
      /\ c => AddEpoch(raw)
      /\ ~c => UNCHANGED dbVars
      /\ sent' = sent + 1 /\ profile' = profile /\ lost' = lost /\ timeless' = timeless /\ Unlocked
  BY ReceiveIs
<1>3. collector.detect \in Detect /\ seq \in Nat
      /\ collector'.detect.seq = (IF c THEN seq + 1 ELSE seq)
  BY <1>1, <1>2, DetectedIs DEF CollectorInv, Detect
<1>4. /\ CollectorInv'
      /\ new \subseteq (IF c THEN {} ELSE data) \cup {Msg}
  BY <1>1, CollectorStep
<1>5. /\ UbxOnly' /\ NoneLost'
      /\ Pure =>
            /\ c => \A m \in data : m.nav < Nav' /\ \A y \in new : m.nav < y.nav
            /\ \A x, y \in data : x.nav = y.nav
  BY <1>1, PureStep
<1>6. Pure' <=> Pure
  BY <1>2 DEF Pure, Whole, UbxMarks, NmeaTells, Ms, OneProtocol, Kinds
<1>7. StreamInv'
  BY <1>1, <1>2 DEF StreamInv
<1>8. Nav \in Nat /\ Nav' \in Nat /\ Nav <= Nav' /\ Msg.nav = Nav
  BY <1>1, <1>2, StreamIs, StreamStep
<1>9. c => /\ raw \in NotedEpochs /\ raw.epoch.seq = seq + 1
           /\ Navs(raw) = {m.nav : m \in data} /\ Navs(raw) \subseteq Nat
           /\ Best(raw)
  <2> SUFFICES ASSUME c
               PROVE  /\ raw \in NotedEpochs /\ raw.epoch.seq = seq + 1
                      /\ Navs(raw) = {m.nav : m \in data} /\ Navs(raw) \subseteq Nat
                      /\ Best(raw)
    OBVIOUS
  <2>1. Detected(collector.detect, Msg).seq = seq + 1 /\ seq + 1 \in Nat
    BY <1>2, <1>3
  <2> HIDE DEF raw, data, seq
  <2>2. raw = Noted(EpochComplete(collector.coll, seq + 1))
    BY <2>1 DEF raw
  <2> DEFINE n == seq + 1
  <2>3. n \in Nat /\ raw = Noted(EpochComplete(collector.coll, n))
    BY <2>1, <2>2
  <2> HIDE DEF n
  <2>4. /\ raw \in NotedEpochs /\ raw.epoch.seq = n
        /\ Navs(raw) = {m.nav : m \in data} /\ Navs(raw) \subseteq Nat
        /\ Best(raw)
    BY <1>1, <2>3, NotedIs DEF data
  <2> QED BY <2>4 DEF n
<1> HIDE DEF raw, c, data, new, seq
<1>10. [Next]_dbVars
  BY <1>2, <1>9 DEF Next
<1>11. IInv'
  BY <1>1, <1>10, NextInv
<1>12. ASSUME c PROVE StoredInv' /\ LogInv'
  <2>1. raw \in Raw /\ AddEpoch(raw)
    BY <1>2, <1>9, <1>12
  <2>2. GoodIf(raw, Pure)
    BY <1>5, <1>9, <1>12 DEF GoodIf, OneNav
  <2>3. StoredInv'
    BY <1>1, <1>6, <1>11, <2>1, <2>2, StoredStep
  <2>4. LogView \in Seq(Raw) /\ Len(LogView) = epochsValidCnt /\ Size \in Nat /\ Size >= 2
    BY <1>1, <1>2, ViewSeq, SizeFacts
  <2> DEFINE old == IF Len(LogView) < Size THEN LogView ELSE Tail(LogView)
  <2>5. LogView' = Append(old, raw)
    BY <1>1, <1>11, <2>1, AddRefines
  <2>6. LogIs(LogView, Pure, seq, Nav, data)
    BY <1>1 DEF LogInv, seq, data
  <2>7. old \in Seq(Raw) /\ LogIs(old, Pure, seq, Nav, data)
    <3>1. CASE Len(LogView) < Size
      BY <2>4, <2>6, <3>1
    <3>2. CASE ~(Len(LogView) < Size)
      <4>1. LogView # <<>>
        BY <2>4, <3>2
      <4> QED BY <2>4, <2>6, <3>2, <4>1, LogTail
    <3> QED BY <3>1, <3>2
  <2>8. Pure => EndsBefore(raw, Nav', new)
    BY <1>5, <1>9, <1>12 DEF EndsBefore
  <2> HIDE DEF old
  <2>9. PICK p, s, n, n2, d2 : p = Pure /\ s = seq + 1 /\ n = Nav /\ n2 = Nav' /\ d2 = new
    OBVIOUS
  <2>10. LogIs(old, Pure, seq, Nav, data) /\ (Pure => EndsBefore(raw, n2, d2)) /\ raw.epoch.seq = s
         /\ Navs(raw) = {m.nav : m \in data}
    BY <1>9, <1>12, <2>7, <2>8, <2>9
  <2>11. LogIs(Append(old, raw), Pure, s, n2, d2)
    BY <2>1, <2>7, <2>9, <2>10, LogAppend
  <2>12. LogIs(LogView', Pure', collector'.detect.seq, Nav', new)
    BY <1>3, <1>6, <1>12, <2>5, <2>9, <2>11 DEF LogIs
  <2>13. LogInv'
    BY <2>12 DEF LogInv, new
  <2> QED BY <2>3, <2>13
<1>13. ASSUME ~c PROVE StoredInv' /\ LogInv'
  <2>1. UNCHANGED dbVars
    BY <1>2, <1>13
  <2>2. StoredInv'
    BY <1>1, <1>6, <1>11, <2>1, StoredStep
  <2>3. LogView' = LogView
    BY <2>1 DEF LogView, GetEpoch, SlotOf, Unlocked, dbVars
  <2>4. LogView \in Seq(Raw)
    BY <1>1, <1>2, ViewSeq
  <2>5. \A m \in new : m \in data \/ m.nav = Nav
    BY <1>4, <1>8, <1>13
  <2>6. LogIs(LogView, Pure, seq, Nav, data)
    BY <1>1 DEF LogInv, seq, data
  <2>7. PICK n2, d2 : n2 = Nav' /\ d2 = new
    OBVIOUS
  <2>8. n2 \in Nat /\ Nav <= n2 /\ \A m \in d2 : m \in data \/ m.nav = Nav
    BY <1>8, <2>5, <2>7
  <2>9. LogIs(LogView, Pure, seq, n2, d2)
    BY <1>8, <2>4, <2>6, <2>8, LogWeaker
  <2>10. LogIs(LogView', Pure', collector'.detect.seq, Nav', new)
    BY <1>3, <1>6, <1>13, <2>3, <2>7, <2>9 DEF LogIs
  <2>11. LogInv'
    BY <2>10 DEF LogInv, new
  <2> QED BY <2>2, <2>11
<1> QED BY <1>4, <1>5, <1>7, <1>10, <1>11, <1>12, <1>13 DEF EInv

(* A message that is lost                                                  *)
LEMMA LoseInv ==
    ASSUME EInv, Lose
    PROVE  EInv' /\ [Next]_dbVars
<1>1. IInv /\ StreamInv /\ CollectorInv /\ UbxOnly /\ NoneLost /\ StoredInv /\ LogInv
  BY DEF EInv
<1>2. /\ sent' = sent + 1 /\ lost' = lost + 1 /\ lost \in Nat /\ profile' = profile /\ timeless' = timeless
      /\ collector' = collector /\ seen' = seen /\ UNCHANGED dbVars /\ Unlocked
  BY <1>1 DEF Lose, StreamInv
<1>3. IInv'
  BY <1>1, <1>2, NextInv
<1>4. StreamInv' /\ CollectorInv'
  BY <1>1, <1>2 DEF StreamInv, CollectorInv
<1>5. (OneProtocol' <=> OneProtocol) /\ lost' # 0
  BY <1>2 DEF OneProtocol, Kinds
<1>6. Pure' => Pure
  BY <1>5 DEF Pure, Whole
<1>7. LastNav' = Nav /\ LastNav <= Nav /\ LastNav \in Nat /\ Nav \in Nat /\ Nav' \in Nat /\ Nav <= Nav'
  BY <1>1, <1>2, StreamIs, StreamStep, EInvNav
<1>8. NoneLost'
  BY <1>5 DEF NoneLost, Whole
<1>9. UbxOnly'
  <2>1. CASE OneProtocol /\ collector.detect.haveUbxItow
    <3>1. /\ Of(collector.detect.ubxItow) /\ collector.detect.ubxItow <= LastNav
          /\ ~collector.detect.haveNmeaMs /\ collector.detect.ubxItow \in Nat
      BY <1>1, <2>1 DEF UbxOnly, CollectorInv, Detect
    <3> DEFINE itow == collector.detect.ubxItow
    <3>2. itow \in Nat /\ itow <= LastNav
      BY <3>1
    <3> HIDE DEF itow
    <3>3. itow <= LastNav'
      BY <1>7, <3>2
    <3>4. Of(collector.detect.ubxItow)'
      BY <1>2, <3>1 DEF Of
    <3> QED BY <1>2, <2>1, <3>1, <3>3, <3>4 DEF UbxOnly, itow
  <2>2. CASE OneProtocol /\ ~collector.detect.haveUbxItow
    BY <1>1, <1>2, <2>2 DEF UbxOnly
  <2>3. CASE ~OneProtocol
    BY <1>5, <2>3 DEF UbxOnly
  <2> QED BY <2>1, <2>2, <2>3
<1>10. StoredInv'
  BY <1>1, <1>2, <1>3, <1>6, StoredStep
<1>11. LogInv'
  <2>1. LogView' = LogView
    BY <1>2 DEF LogView, GetEpoch, SlotOf, Unlocked, dbVars
  <2>2. LogView \in Seq(Raw)
    BY <1>1, <1>2, ViewSeq
  <2>3. PICK p2, n2, d2 : p2 = Pure' /\ n2 = Nav' /\ d2 = Data(collector.coll)
    OBVIOUS
  <2>4. LogIs(LogView, Pure, collector.detect.seq, Nav, d2)
    BY <1>1, <2>3 DEF LogInv
  <2>5. (p2 => Pure) /\ n2 \in Nat /\ Nav <= n2
    BY <1>6, <1>7, <2>3
  <2>6. \A m \in d2 : m \in d2 \/ m.nav = Nav
    OBVIOUS
  <2>7. LogIs(LogView, p2, collector.detect.seq, n2, d2)
    BY <1>7, <2>2, <2>4, <2>5, <2>6, LogWeaker
  <2>8. LogIs(LogView', Pure', collector'.detect.seq, Nav', Data(collector'.coll))
    BY <1>2, <2>1, <2>3, <2>7
  <2> QED BY <2>8 DEF LogInv
<1> QED BY <1>2, <1>3, <1>4, <1>8, <1>9, <1>10, <1>11 DEF EInv

(* The rest of what the database does leaves the log alone, or empties it  *)
LEMMA DatabaseStepInv ==
    ASSUME EInv, CopyEpoch \/ AddDone \/ Main \/ UNCHANGED dbVars, UNCHANGED <<streamVars, collector, seen>>
    PROVE  EInv' /\ [Next]_dbVars
<1>1. IInv /\ StreamInv /\ CollectorInv /\ UbxOnly /\ NoneLost /\ StoredInv /\ LogInv
  BY DEF EInv
<1>2. [Next]_dbVars
  BY DEF Next
<1>3. IInv'
  BY <1>1, <1>2, NextInv
<1>4. profile' = profile /\ timeless' = timeless /\ sent' = sent /\ lost' = lost /\ collector' = collector /\ seen' = seen
  BY DEF streamVars
<1>5. StreamInv' /\ CollectorInv'
  BY <1>1, <1>4 DEF StreamInv, CollectorInv
<1>6. /\ (OneProtocol' <=> OneProtocol) /\ (Pure' <=> Pure) /\ Nav' = Nav /\ (First' <=> First)
      /\ LastNav' = LastNav /\ (AfterEoe' <=> AfterEoe) /\ (Whole' <=> Whole) /\ Ms(LastNav)' = Ms(LastNav)
  BY <1>4 DEF OneProtocol, Kinds, Whole, UbxMarks, NmeaTells, Ms, Pure, Nav, First, LastNav, AfterEoe
<1>7. \A n : Of(n)' <=> Of(n)
  BY <1>4 DEF Of
<1>8. UbxOnly'
  BY <1>1, <1>4, <1>6, <1>7 DEF UbxOnly
<1>9. Of(LastNav)' <=> Of(LastNav)
  BY <1>4, <1>6 DEF Of
<1>10. NoneLost'
  BY <1>1, <1>4, <1>6, <1>9 DEF NoneLost
<1>11. StoredInv'
  BY <1>1, <1>3, <1>6, StoredStep
<1>12. LogView' = LogView \/ LogView' = <<>>
  <2>1. CASE CopyEpoch
    BY <1>1, <2>1, CopyRefines
  <2>2. CASE AddDone
    BY <1>1, <2>2, DoneRefines
  <2>3. CASE Clear
    BY <2>3, ClearRefines DEF Log!Empty
  <2>4. ASSUME NEW mode \in {"MEAN", "LAST", "USER"}, SetRefPos(mode) PROVE LogView' = LogView
    BY <1>1, <2>4, RefPosRefines
  <2>5. CASE Reader \/ UNCHANGED dbVars
    <3>1. UNCHANGED <<epochs, epochIx, epochsValidCnt, adding>>
      BY <2>5 DEF Reader, LatestEpoch, FindLastPos, Release, dbVars
    <3> QED BY <3>1 DEF LogView, GetEpoch, SlotOf, Unlocked
  <2> QED BY <2>1, <2>2, <2>3, <2>4, <2>5 DEF Main
<1>13. LogInv'
  <2>1. CASE LogView' = LogView
    <3>1. PICK p2, d2 : p2 = Pure' /\ d2 = Data(collector'.coll)
      OBVIOUS
    <3>2. LogIs(LogView, Pure, collector.detect.seq, Nav, d2) /\ (p2 <=> Pure)
      BY <1>1, <1>4, <1>6, <3>1 DEF LogInv
    <3>3. \A x, y : FollowsIf(x, y, Pure) => FollowsIf(x, y, p2)
      BY <3>2 DEF FollowsIf
    <3>4. LogIs(LogView, p2, collector.detect.seq, Nav, d2)
      BY <3>2, <3>3 DEF LogIs
    <3>5. LogIs(LogView', Pure', collector'.detect.seq, Nav', Data(collector'.coll))
      BY <1>4, <1>6, <2>1, <3>1, <3>4
    <3> QED BY <3>5 DEF LogInv
  <2>2. CASE LogView' = <<>>
    BY <2>2 DEF LogInv, LogIs
  <2> QED BY <1>12, <2>1, <2>2
<1> QED BY <1>2, <1>3, <1>5, <1>8, <1>10, <1>11, <1>13 DEF EInv

LEMMA EpochsNextInv ==
    ASSUME NotedEpochs \subseteq Raw, EInv, [EpochsNext]_vars
    PROVE  EInv' /\ [Next]_dbVars
<1>1. CASE Receive
  BY <1>1, ReceiveInv
<1>2. CASE Lose
  BY <1>2, LoseInv
<1>3. CASE (CopyEpoch \/ AddDone \/ Main) /\ UNCHANGED <<streamVars, collector, seen>>
  BY <1>3, DatabaseStepInv
<1>4. CASE UNCHANGED vars
  BY <1>4, DatabaseStepInv DEF vars
<1> QED BY <1>1, <1>2, <1>3, <1>4 DEF EpochsNext, Input

(* The inductive invariant holds in every state of collector and database,
   if what the collector makes can be stored.                              *)
THEOREM EpochsInvariant == ASSUME NotedEpochs \subseteq Raw PROVE EpochsSpec => []EInv
<1>1. EpochsInit => EInv
  BY EpochsInitInv
<1>2. EInv /\ [EpochsNext]_vars => EInv'
  BY EpochsNextInv
<1> QED BY <1>1, <1>2, PTL DEF EpochsSpec

(* The collector uses the database as its specification says that it is
   used: what is proved of the database holds of the composition.          *)
THEOREM EpochsUseDatabase == ASSUME NotedEpochs \subseteq Raw PROVE EpochsSpec => Spec
<1>1. EpochsInit => Init
  BY DEF EpochsInit
<1>2. EInv /\ [EpochsNext]_vars => [Next]_dbVars
  BY EpochsNextInv
<1> QED BY <1>1, <1>2, EpochsInvariant, PTL DEF EpochsSpec, Spec

(* Readers find complete epochs, pointers stay good, what is relative to
   the reference position is current, and the ring is a log, also when the
   collector writes to it.                                                 *)
THEOREM DatabaseHolds ==
    ASSUME NotedEpochs \subseteq Raw
    PROVE  EpochsSpec => []LatestIsComplete /\ []HeldIntact /\ []Synchronised /\ ImplementsLog
<1> QED BY EpochsUseDatabase, LatestAlwaysComplete, PointersProtected, AlwaysSynchronised, Refinement, PTL

(* Each field of a stored epoch comes from the best message there was for
   it, and the satellites and signals of all GSV messages are in it: for
   all sequences of messages, whatever is lost.                            *)
THEOREM AlwaysBest == ASSUME NotedEpochs \subseteq Raw PROVE EpochsSpec => []BestSource
<1>1. EInv => BestSource
  <2> SUFFICES ASSUME EInv, NEW i \in ValidIn(epochs)
               PROVE  Best(epochs[i].raw)
    <3>1. Fields \ {"msl", "haveFix", "orbAvail"} = OwnFields \cup {"fixOk"}
      BY DEF OwnFields, Fields
    <3>2. ASSUME NEW raw \in Stored, \A k \in ValidIn(epochs) : Best(epochs[k].raw) PROVE Best(raw)
      BY <3>2 DEF Stored
    <3> QED BY <3>1, <3>2 DEF BestSource, Best, GsvComplete
  <2> QED BY DEF EInv, StoredInv, GoodIf
<1> QED BY <1>1, EpochsInvariant, PTL

(* The data of a stored epoch is of one navigation epoch, and the epochs
   come in order, none twice or split in two, if the receiver talks UBX
   only, or nothing is lost and UBX or the times in NMEA messages tell the
   navigation epochs apart.                                                *)
THEOREM AlwaysPure == ASSUME NotedEpochs \subseteq Raw PROVE EpochsSpec => []EpochsPure
<1>1. EInv => EpochsPure
  <2> SUFFICES ASSUME EInv, Pure
               PROVE  /\ \A i \in ValidIn(epochs) : Cardinality(Navs(epochs[i].raw)) <= 1
                      /\ Unlocked =>
                            \A n \in 1..epochsValidCnt - 1 :
                                LET a == GetEpoch(n - 1).raw
                                    b == GetEpoch(n).raw
                                IN b.epoch.seq = a.epoch.seq + 1 /\ \A x \in Navs(a), y \in Navs(b) : x < y
    BY DEF EpochsPure, Stored, Pure, Whole
  <2>1. ASSUME NEW i \in ValidIn(epochs) PROVE Cardinality(Navs(epochs[i].raw)) <= 1
    <3> DEFINE navs == Navs(epochs[i].raw)
    <3>1. \A x, y \in navs : x = y
      BY DEF EInv, StoredInv, GoodIf, OneNav
    <3> HIDE DEF navs
    <3>2. navs = {} \/ \E x : navs = {x}
      BY <3>1
    <3>3. Cardinality(navs) = 0 \/ Cardinality(navs) = 1
      BY <3>2, FS_EmptySet, FS_Singleton
    <3> QED BY <3>3 DEF navs
  <2>2. ASSUME Unlocked, NEW n \in 1..epochsValidCnt - 1
        PROVE  FollowsIf(GetEpoch(n - 1).raw, GetEpoch(n).raw, TRUE)
    <3>1. /\ Len(LogView) = epochsValidCnt /\ epochsValidCnt \in 0..Size
          /\ \A k \in 1..epochsValidCnt : LogView[k] = epochs[SlotOf(k - 1)].raw
      BY <2>2, ViewSeq DEF EInv
    <3>2. n \in 1..epochsValidCnt /\ n + 1 \in 1..epochsValidCnt /\ (n + 1) - 1 = n
      BY <3>1, SizeFacts
    <3>3. FollowsIf(LogView[n], LogView[n + 1], Pure)
      BY <3>1 DEF EInv, LogInv, LogIs
    <3>4. LogView[n] = GetEpoch(n - 1).raw /\ LogView[n + 1] = GetEpoch(n).raw
      BY <3>1, <3>2 DEF GetEpoch
    <3> QED BY <3>3, <3>4 DEF FollowsIf
  <2> QED BY <2>1, <2>2 DEF FollowsIf
<1> QED BY <1>1, EpochsInvariant, PTL
=============================================================================
