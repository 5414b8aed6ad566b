------------------------------ MODULE MCEpochs ------------------------------
(* What receivers are set up to put out: UBX with and without an end of
   epoch message, NMEA, and both, in the orders that they come in.         *)
EXTENDS Epochs

MCRaw == [epoch : [seq : Nat, from : [Fields -> SUBSET Message],
                   havePos : BOOLEAN, haveMsl : BOOLEAN, haveFix : BOOLEAN],
          of : SUBSET Message]

MCProfiles == {
    <<"STATUS", "PVT", "SIG", "EOE">>,
    <<"POSECEF", "HPPOSECEF", "TIMEGPS", "RELPOSNED">>,
    <<"RMC", "GGA", "GSV", "GSV", "GLL">>,
    <<"RMC", "GGA", "PVT", "EOE">>,
    <<"RMC", "GSV", "SAT", "TIMELS">>,
    <<"PVT", "SIG", "GGA", "GSV">>}
=============================================================================
