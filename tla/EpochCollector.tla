--------------------------- MODULE EpochCollector ---------------------------
(***************************************************************************)
(* ff_epoch.c: epochCollect(), which puts the messages of one navigation   *)
(* epoch together. A message is a record of its kind, the navigation epoch *)
(* nav that it is about, fix, whether the receiver had one, and, if it is  *)
(* an NMEA message with a time, ms, the milliseconds within the minute that*)
(* nmeaDecode() finds there: 0 if the field is empty. (The time of a UBX   *)
(* message, iTOW, is that of the week, and is never empty: nav stands for  *)
(* it.) What a field of an epoch holds is abstracted to the messages it    *)
(* comes from, and fields that the code always sets together are one.      *)
(***************************************************************************)
EXTENDS Naturals, Sequences, FiniteSets

(* COLL_QUAL_t                                                             *)
NOTHING == 0
NMEA == 1
BETTER_NMEA == 2
UBX == 3
UBX_HP == 4
Quality == NOTHING..UBX_HP
Always == UBX_HP + 1    \* a threshold above any quality: no condition

UbxTimed == {"PVT", "POSECEF", "HPPOSECEF", "TIMEGPS", "RELPOSNED", "SIG", "SAT", "TIMELS", "STATUS"}
UbxKinds == UbxTimed \cup {"EOE"}
NmeaTimed == {"GGA", "RMC", "GLL"}
NmeaKinds == NmeaTimed \cup {"GSV"}
Message == [kind : UbxKinds \cup NmeaKinds, nav : Nat, fix : BOOLEAN, ms : Nat]

Fields == {"fix", "fixOk", "haveFix", "time", "date", "llh", "msl", "vel", "acc", "pdop", "numSv", "xyz",
           "posAcc", "gpsTow", "gpsWeek", "leap", "uptime", "relPos", "sig", "sat", "orbAvail", "diffAge"}

(* Field f is set if what there is, of the field that is the guard, has a
   quality below the threshold; qual is what is noted then.                *)
Rule(f, guard, below, qual) == [field |-> f, guard |-> guard, below |-> below, qual |-> qual]
(* Fault: whatever there is already is replaced                            *)
BetterFault(f, qual) == Rule(f, f, Always, qual)
Better(f, qual) == Rule(f, f, qual, qual)
OnlyIf(cond, rules) == IF cond THEN rules ELSE {}

UbxRules(m) ==
    CASE m.kind = "PVT" ->
            {Better(f, UBX) : f \in {"fix", "time", "date", "llh", "vel", "gpsTow"}}
            \cup {Rule("haveFix", "fix", UBX, UBX), Rule("msl", "llh", UBX, UBX),
                  Rule("pdop", "pdop", Always, UBX), Rule("numSv", "numSv", Always, UBX)}
            \cup OnlyIf(m.fix, {Better("acc", UBX), Rule("fixOk", "fix", UBX, UBX)})
      [] m.kind = "POSECEF" -> {Better("xyz", UBX), Better("posAcc", UBX)}
      [] m.kind = "HPPOSECEF" -> OnlyIf(m.fix, {Better("xyz", UBX_HP), Better("posAcc", UBX_HP)})
      [] m.kind = "TIMEGPS" ->
            {Rule("gpsWeek", "gpsWeek", Always, UBX), Better("gpsTow", UBX_HP), Rule("leap", "leap", NMEA, UBX)}
      [] m.kind = "RELPOSNED" -> OnlyIf(m.fix, {Rule("relPos", "relPos", Always, UBX_HP)})
      [] m.kind = "SIG" -> {Better("sig", UBX)}
      [] m.kind = "SAT" -> {Better("sat", UBX), Rule("orbAvail", "sat", UBX, UBX)}
      [] m.kind = "TIMELS" -> {Rule("leap", "leap", NMEA, UBX)}
      [] m.kind = "STATUS" -> {Rule("uptime", "uptime", NMEA, UBX)}
      [] OTHER -> {}

(* RMC and GLL have no height, and clear haveMsl                           *)
NmeaRules(m) ==
    CASE m.kind = "GGA" ->
            {Better("time", NMEA), Better("fix", NMEA), Rule("fixOk", "fix", NMEA, NMEA), Better("numSv", NMEA)}
            \cup OnlyIf(m.fix, {Better("llh", BETTER_NMEA), Rule("msl", "llh", BETTER_NMEA, BETTER_NMEA),
                                Better("diffAge", NMEA)})
      [] m.kind = "RMC" ->
            {Better("time", NMEA), Better("date", NMEA), Better("fix", BETTER_NMEA),
             Rule("fixOk", "fix", BETTER_NMEA, BETTER_NMEA)}
            \cup OnlyIf(m.fix, {Rule("llh", "llh", NMEA, BETTER_NMEA)})
      [] m.kind = "GLL" ->
            {Better("time", NMEA), Better("fix", BETTER_NMEA)}
            \cup {Rule(f, "fix", BETTER_NMEA, BETTER_NMEA) : f \in {"fixOk", "haveFix"}}
            \cup OnlyIf(m.fix, {Rule("llh", "llh", NMEA, BETTER_NMEA)})
      [] m.kind = "GSV" ->
            {Rule(f, f, BETTER_NMEA, NMEA) : f \in {"sig", "sat"}} \cup {Rule("orbAvail", "sat", BETTER_NMEA, NMEA)}
      [] OTHER -> {}

Rules(m) == UbxRules(m) \cup NmeaRules(m)
-----------------------------------------------------------------------------
(* The collector: per field the quality, and the messages it is from       *)
NoData == [qual |-> NOTHING, from |-> {}]
NoColl == [f \in Fields |-> NoData]
NoDetect == [haveUbxItow |-> FALSE, ubxItow |-> 0, haveNmeaMs |-> FALSE, nmeaMs |-> 0, seq |-> 0]
epochInit == [coll |-> NoColl, detect |-> NoDetect]

(* GSV messages add to what earlier ones brought, all others replace; but
   SAT, too, adds its bits to the orbit data of what was there before      *)
Adds(m, f) == m.kind = "GSV" \/ f = "orbAvail"

Collected(coll, m) ==
    [f \in Fields |->
        IF \E r \in Rules(m) : r.field = f /\ coll[r.guard].qual < r.below
        THEN LET r == CHOOSE x \in Rules(m) : x.field = f IN
             [qual |-> r.qual, from |-> IF Adds(m, f) THEN coll[f].from \cup {m} ELSE {m}]
        ELSE coll[f]]

(* _detectUbx(), _detectNmea(): the time of the message is not that of the
   one before, or (EOE) this epoch has no more messages                    *)
Completes(d, m) ==
    \/ m.kind = "EOE"
    \/ m.kind \in UbxTimed /\ d.haveUbxItow /\ d.ubxItow # m.nav
    \/ m.kind \in NmeaTimed /\ d.haveNmeaMs /\ d.nmeaMs # m.ms

(* Fault: the other protocol's time is kept                                *)
DetectedFault(d, m) ==
    [haveUbxItow |-> m.kind # "EOE" /\ (m.kind \in UbxTimed \/ d.haveUbxItow),
     ubxItow     |-> IF m.kind \in UbxTimed THEN m.nav ELSE d.ubxItow,
     haveNmeaMs  |-> m.kind \in NmeaTimed \/ d.haveNmeaMs,
     nmeaMs      |-> IF m.kind \in NmeaTimed THEN m.ms ELSE d.nmeaMs,
     seq         |-> IF Completes(d, m) THEN d.seq + 1 ELSE d.seq]

(* Each protocol forgets, when it completes an epoch, the other's time     *)
Detected(d, m) ==
    LET complete == Completes(d, m) IN
    [haveUbxItow |-> CASE m.kind = "EOE" -> FALSE
                       [] m.kind \in UbxTimed -> TRUE
                       [] OTHER -> d.haveUbxItow /\ ~complete,
     ubxItow     |-> IF m.kind \in UbxTimed THEN m.nav ELSE d.ubxItow,
     haveNmeaMs  |-> IF m.kind \in NmeaTimed THEN TRUE ELSE d.haveNmeaMs /\ ~complete,
     nmeaMs      |-> IF m.kind \in NmeaTimed THEN m.ms ELSE d.nmeaMs,
     seq         |-> IF complete THEN d.seq + 1 ELSE d.seq]

(* _epochComplete(). A position is both geodetic and cartesian: the one
   that is better is converted to the other.                               *)
HasFix(coll) == \E m \in coll["fix"].from : m.fix
EpochComplete(coll, seq) ==
    [seq |-> seq,
     from |-> [f \in Fields |-> coll[f].from],
     havePos |-> coll["llh"].qual # coll["xyz"].qual /\ HasFix(coll),
     haveMsl |-> \E m \in coll["msl"].from : m.fix,
     haveFix |-> coll["haveFix"].qual # NOTHING]

(* epochCollect(): the collector afterwards, and the epoch if complete     *)
epochCollect(c, m) ==
    LET complete == Completes(c.detect, m)
        detect == Detected(c.detect, m) IN
    [collector |-> [coll |-> Collected(IF complete THEN NoColl ELSE c.coll, m), detect |-> detect],
     complete |-> complete,
     epoch |-> EpochComplete(c.coll, detect.seq)]
=============================================================================
