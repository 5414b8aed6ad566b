------------------------------- MODULE Epochs -------------------------------
(***************************************************************************)
(* The thread of an input that reads messages, collects epochs and adds    *)
(* them to the database (input_receiver.cpp, input_logfile.cpp), composed  *)
(* with the database and its readers. The receiver puts out, navigation    *)
(* epoch by navigation epoch, the messages of a profile, in its order. Some*)
(* are lost: damaged, or sent before the input started to read. After a    *)
(* cold start the receiver does not know the time yet: the first messages  *)
(* have an empty time field.                                               *)
(***************************************************************************)
EXTENDS EpochCollector, Database

CONSTANTS
    Profiles,   \* sequences of kinds of messages
    Minute,     \* navigation epochs per minute
    MaxNav,     \* bound on navigation epochs
    MaxLost     \* bound on lost messages

(* UBX-NAV-EOE is the last message of a navigation epoch. Where there is
   none the first one has the time.                                        *)
Proper(p) ==
    /\ \A i \in 1..Len(p) - 1 : p[i] # "EOE"
    /\ p[Len(p)] = "EOE" \/ p[1] \in UbxTimed \cup NmeaTimed

ASSUME EpochsAssumption ==
    /\ Profiles \subseteq Seq(UbxKinds \cup NmeaKinds) \ {<<>>}
    /\ \A p \in Profiles : Proper(p)
    /\ Minute \in Nat \ {0} /\ MaxNav \in Nat /\ MaxLost \in Nat

VARIABLES
    profile,            \* what the receiver puts out
    noFix, timeless,    \* the navigation epoch without a fix, and the last without a time
    sent, lost,         \* how many messages it has sent, and how many of them are lost
    collector,
    seen                \* history: the messages that went into the collector

streamVars == <<profile, noFix, timeless, sent, lost>>
vars == <<dbVars, streamVars, collector, seen>>

EpochsInit ==
    /\ Init
    /\ profile \in Profiles /\ timeless \in 0..MaxNav /\ noFix \in {0} \cup timeless + 1..MaxNav
    /\ sent = 0 /\ lost = 0
    /\ collector = epochInit
    /\ seen = {}

Nav == 1 + (sent \div Len(profile))
Ms(nav) == IF nav <= timeless THEN 0 ELSE nav % Minute
Msg == [kind |-> profile[1 + (sent % Len(profile))], nav |-> Nav,
        fix |-> Nav > timeless /\ Nav # noFix, ms |-> Ms(Nav)]

(* The messages it was made of are noted with the epoch                    *)
Noted(epoch) == [epoch |-> epoch, of |-> seen]
EpochHavePos(raw) == raw.epoch.havePos

Receive ==
    /\ Nav <= MaxNav /\ Unlocked
    /\ sent' = sent + 1
    /\ LET r == epochCollect(collector, Msg) IN
        /\ collector' = r.collector
        /\ seen' = (IF r.complete THEN {} ELSE seen) \cup {Msg}
        /\ IF r.complete THEN AddEpoch(Noted(r.epoch)) ELSE UNCHANGED dbVars
    /\ UNCHANGED <<profile, noFix, timeless, lost>>

Lose ==
    /\ Nav <= MaxNav /\ Unlocked /\ lost < MaxLost
    /\ sent' = sent + 1 /\ lost' = lost + 1
    /\ UNCHANGED <<profile, noFix, timeless, collector, seen, dbVars>>

Input == Receive \/ Lose \/ (CopyEpoch /\ UNCHANGED <<streamVars, collector, seen>>)
                         \/ (AddDone /\ UNCHANGED <<streamVars, collector, seen>>)
EpochsNext == Input \/ (Main /\ UNCHANGED <<streamVars, collector, seen>>)

EpochsSpec == EpochsInit /\ [][EpochsNext]_vars
-----------------------------------------------------------------------------
Kinds == {profile[i] : i \in DOMAIN profile}
OneProtocol == Kinds \subseteq UbxKinds
Stored == {epochs[i].raw : i \in ValidIn(epochs)}
Navs(raw) == {m.nav : m \in UNION {raw.epoch.from[f] : f \in Fields}}

(* UBX tells where a navigation epoch begins or ends                       *)
UbxMarks == profile[1] \in UbxTimed \/ profile[Len(profile)] = "EOE"

(* The times in NMEA messages tell one navigation epoch from the next: the
   receiver knows the time, or does not for one epoch only, and puts out
   more than one epoch per minute                                          *)
NmeaTells == \A nav \in 1..MaxNav - 1 : Ms(nav) # Ms(nav + 1)

(* The data of an epoch is of one navigation epoch, and epochs come in
   order, none twice or split in two: always if the receiver talks UBX only,
   and otherwise as long as nothing is lost and either UBX or the times in
   NMEA messages tell the epochs apart. (Each protocol's detection clears
   the other's mark when it completes an epoch. With NMEA only, epochs with
   an empty time, or one epoch per minute, are taken for one.)             *)
EpochsPure ==
    OneProtocol \/ (lost = 0 /\ (UbxMarks \/ NmeaTells)) =>
        /\ \A raw \in Stored : Cardinality(Navs(raw)) <= 1
        /\ Unlocked =>
            \A n \in 1..epochsValidCnt - 1 :
                LET a == GetEpoch(n - 1).raw
                    b == GetEpoch(n).raw
                IN b.epoch.seq = a.epoch.seq + 1 /\ \A x \in Navs(a), y \in Navs(b) : x < y

(* What the kinds of messages are good for, and the better of two: the
   comments of COLL_QUAL_t                                                 *)
Supplies(m, f) == \E r \in Rules(m) : r.field = f
Rank(m, f) ==
    CASE m.kind = "HPPOSECEF" \/ (m.kind = "TIMEGPS" /\ f = "gpsTow") -> 3
      [] m.kind \in NmeaKinds -> 1
      [] OTHER -> 2

(* A PVT without a fix keeps others from setting fixOk, and does not set it *)
PvtWithoutFix(S) == \E m \in S : m.kind = "PVT" /\ ~m.fix

(* Each field of an epoch comes from the best message that there was for
   it, whatever the order of the messages, and of the satellites and signals
   that come in several GSV messages all are in the epoch, unless there is
   UBX-NAV-SAT or -SIG. Not so the height above mean sea level (RMC and GLL
   take the place of GGA, which has one), fixOk if there is a PVT without a
   fix (what NMEA said before stays), and the orbit data of satellites: it
   has that of the best message, but that of GSV messages before SAT, too.  *)
BestSource ==
    \A raw \in Stored :
        /\ \A f \in Fields \ {"msl", "haveFix", "orbAvail"} : \A m \in raw.of :
            Supplies(m, f) =>
                \/ f = "fixOk" /\ PvtWithoutFix(raw.of)
                \/ /\ raw.epoch.from[f] # {}
                   /\ \A src \in raw.epoch.from[f] : Rank(m, f) <= Rank(src, f)
        /\ raw.epoch.from["sat"] \subseteq raw.epoch.from["orbAvail"]
        /\ \A better \in {<<"sat", "SAT">>, <<"sig", "SIG">>} :
            \/ {m \in raw.of : m.kind = "GSV"} \subseteq raw.epoch.from[better[1]]
            \/ \E m \in raw.of : m.kind = better[2]
=============================================================================
