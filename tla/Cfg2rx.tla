------------------------------- MODULE Cfg2rx -------------------------------
(***************************************************************************)
(* cfgtool_cfg2rx.c: cfg2rxRun(), the command that configures a receiver   *)
(* from a file, step by step. The receiver (not in src/) has the current   *)
(* configuration in RAM, and what it takes from BBR, Flash and its         *)
(* defaults, in this order, when it is reset. Any request to it may fail.  *)
(***************************************************************************)
EXTENDS Naturals, FiniteSets

CONSTANTS
    Keys,       \* configuration items
    Known,      \* those that the receiver has
    Values,     \* what they can be
    Default,    \* its default configuration
    LayerArgs   \* the sets of layers that the command may be given

ASSUME Cfg2rxAssumption ==
    /\ Known \subseteq Keys /\ Known # {}
    /\ Default \in [Known -> Values]
    /\ LayerArgs \subseteq (SUBSET {"RAM", "BBR", "FLASH"}) \ {{}}

(* Resets that delete what is stored, and the others that reload RAM       *)
Deletes == {"DEFAULT", "FACTORY"}
Resets == Deletes \cup {"SOFT"}
None == "NONE"

(* A configuration of some of the items in S                               *)
Partial(S) == UNION {[K -> Values] : K \in SUBSET S}

NoItems == [k \in {} |-> None]

VARIABLES
    step,       \* the next step of cfg2rxRun()
    layers, resetArg, applyConfig, updateOnly,      \* the arguments
    allKvCfg,   \* the file
    reset,
    allKvRam, allKvDef,         \* polled; NoItems when the poll failed
    result,     \* the exit code, or None
    ram, bbr, flash,            \* the receiver
    polled,     \* history: the polls that were made all succeeded
    touched     \* history: something was sent that changes the receiver

args == <<layers, resetArg, applyConfig, updateOnly, allKvCfg>>
receiver == <<ram, bbr, flash>>
cmdVars == <<step, args, reset, allKvRam, allKvDef, result, receiver, polled, touched>>

(* The items of f, and those of g that f lacks                             *)
Over(f, g) == [k \in DOMAIN f \cup DOMAIN g |-> IF k \in DOMAIN f THEN f[k] ELSE g[k]]

(* What the receiver has in RAM after a reset                              *)
Startup(b, f) == Over(b, Over(f, Default))

CmdInit ==
    /\ step = "open"
    /\ layers \in LayerArgs
    /\ resetArg \in Resets \cup {None}
    /\ applyConfig \in BOOLEAN /\ updateOnly \in BOOLEAN
    /\ allKvCfg \in Partial(Keys) \ {NoItems}
    /\ IF resetArg = None THEN reset \in Resets \cup {None}     \* not initialised
                          ELSE reset = resetArg
    /\ allKvRam = NoItems /\ allKvDef = NoItems
    /\ result = None
    /\ bbr \in Partial(Known) /\ flash \in Partial(Known)
    /\ ram \in {Startup(bbr, flash)} \cup {[k \in Known |-> v] : v \in Values}
    /\ polled = TRUE /\ touched = FALSE
-----------------------------------------------------------------------------
Exit(code) == step' = "done" /\ result' = code

(* cfgToKeyVal() and rxOpen()                                              *)
Open ==
    /\ step = "open"
    /\ \/ \E code \in {"OTHERFAIL", "RXFAIL"} : Exit(code)
       \/ step' = (IF updateOnly THEN "pollRam" ELSE "reset") /\ UNCHANGED result
    /\ UNCHANGED <<args, reset, allKvRam, allKvDef, receiver, polled, touched>>

PollRam ==
    /\ step = "pollRam"
    /\ step' = IF reset = "FACTORY" THEN "pollDef" ELSE "check"
    /\ \/ allKvRam' = ram /\ UNCHANGED polled
       \/ UNCHANGED allKvRam /\ polled' = FALSE
    /\ UNCHANGED <<args, reset, allKvDef, result, receiver, touched>>

PollDef ==
    /\ step = "pollDef" /\ step' = "check"
    /\ \/ allKvDef' = Default /\ UNCHANGED polled
       \/ UNCHANGED allKvDef /\ polled' = FALSE
    /\ UNCHANGED <<args, reset, allKvRam, result, receiver, touched>>

(* Fault: leaves the items alone that the file does not have               *)
ConfigNeedsUpdateFault ==
    \E k \in DOMAIN allKvRam : k \in DOMAIN allKvCfg /\ allKvRam[k] # allKvCfg[k]

ConfigNeedsUpdate ==
    \E k \in DOMAIN allKvRam :
        \/ k \in DOMAIN allKvCfg /\ allKvRam[k] # allKvCfg[k]
        \/ k \notin DOMAIN allKvCfg /\ k \in DOMAIN allKvDef /\ allKvRam[k] # allKvDef[k]

Check ==
    /\ step = "check"
    /\ IF ConfigNeedsUpdate THEN step' = "reset" /\ UNCHANGED result ELSE Exit("SUCCESS")
    /\ UNCHANGED <<args, reset, allKvRam, allKvDef, receiver, polled, touched>>

(* rxReset(): for some types delete what is stored, then reset, then connect  *)
(* again; each can fail                                                     *)
RxReset(type, next) ==
    /\ touched' = TRUE
    /\ \/ Exit("RXFAIL") /\ UNCHANGED receiver
       \/ LET b == IF type \in Deletes THEN NoItems ELSE bbr
              f == IF type \in Deletes THEN NoItems ELSE flash
          IN  /\ bbr' = b /\ flash' = f
              /\ \/ Exit("RXFAIL") /\ UNCHANGED ram
                 \/ Exit("RXFAIL") /\ ram' = Startup(b, f)
                 \/ next /\ ram' = Startup(b, f)

Reset ==
    /\ step = "reset"
    /\ IF resetArg # None
       THEN RxReset(reset, step' = "setConfig" /\ UNCHANGED result)
       ELSE step' = "setConfig" /\ UNCHANGED <<result, receiver, touched>>
    /\ UNCHANGED <<args, reset, allKvRam, allKvDef, polled>>

(* rxSetConfig(): the receiver rejects what it does not know. The command   *)
(* may fail although the receiver has done its part, when the answer is lost *)
SetConfig ==
    /\ step = "setConfig" /\ touched' = TRUE
    /\ \/ Exit("OTHERFAIL") /\ UNCHANGED receiver
       \/ /\ DOMAIN allKvCfg \subseteq Known
          /\ ram'   = IF "RAM"   \in layers THEN Over(allKvCfg, ram) ELSE ram
          /\ bbr'   = IF "BBR"   \in layers THEN Over(allKvCfg, bbr) ELSE bbr
          /\ flash' = IF "FLASH" \in layers THEN Over(allKvCfg, flash) ELSE flash
          /\ \/ Exit("OTHERFAIL")
             \/ IF applyConfig THEN step' = "apply" /\ UNCHANGED result ELSE Exit("SUCCESS")
    /\ UNCHANGED <<args, reset, allKvRam, allKvDef, polled>>

(* Fault: does not reset                                                    *)
ApplyFault ==
    /\ step = "apply"
    /\ Exit("SUCCESS")
    /\ UNCHANGED <<args, reset, allKvRam, allKvDef, receiver, polled, touched>>

Apply ==
    /\ step = "apply"
    /\ RxReset("SOFT", Exit("SUCCESS"))
    /\ UNCHANGED <<args, reset, allKvRam, allKvDef, polled>>

CmdNext == Open \/ PollRam \/ PollDef \/ Check \/ Reset \/ SetConfig \/ Apply

CmdSpec == CmdInit /\ [][CmdNext]_cmdVars
-----------------------------------------------------------------------------
(* The type of the state                                                   *)
CmdTypeOK ==
    /\ step \in {"open", "pollRam", "pollDef", "check", "reset", "setConfig", "apply", "done"}
    /\ layers \subseteq {"RAM", "BBR", "FLASH"}
    /\ resetArg \in Resets \cup {None} /\ reset \in Resets \cup {None}
    /\ applyConfig \in BOOLEAN /\ updateOnly \in BOOLEAN
    /\ allKvCfg \in Partial(Keys)
    /\ allKvRam \in {NoItems} \cup [Known -> Values] /\ allKvDef \in {NoItems, Default}
    /\ result \in {None, "SUCCESS", "OTHERFAIL", "RXFAIL"}
    /\ ram \in [Known -> Values] /\ bbr \in Partial(Known) /\ flash \in Partial(Known)
    /\ polled \in BOOLEAN /\ touched \in BOOLEAN

Includes(config, items) ==
    \A k \in DOMAIN items : k \in DOMAIN config /\ config[k] = items[k]

Success == step = "done" /\ result = "SUCCESS"

(* Success, when the receiver was changed: the file is in every layer that  *)
(* was asked for, and after a reset that deletes what is stored only the    *)
(* file is in BBR and Flash. With -a the file is also in RAM, if it was     *)
(* stored in BBR, or in Flash with nothing in BBR to override it.           *)
SuccessMeansDone ==
    Success /\ touched =>
        /\ "BBR" \in layers => Includes(bbr, allKvCfg)
        /\ "FLASH" \in layers => Includes(flash, allKvCfg)
        /\ "RAM" \in layers /\ ~applyConfig => Includes(ram, allKvCfg)
        /\ resetArg \in Deletes =>
            DOMAIN bbr \subseteq DOMAIN allKvCfg /\ DOMAIN flash \subseteq DOMAIN allKvCfg
        /\ applyConfig /\ "BBR" \in layers => Includes(ram, allKvCfg)
        /\ applyConfig /\ "FLASH" \in layers /\ resetArg \in Deletes => Includes(ram, allKvCfg)

(* With -U, when the polls succeed, nothing is done only if RAM differs     *)
(* neither from the file nor, after "-r factory", from the defaults.        *)
SkippedOnlyIfCurrent ==
    Success /\ ~touched /\ polled =>
        \A k \in Known :
            /\ k \in DOMAIN allKvCfg => ram[k] = allKvCfg[k]
            /\ k \notin DOMAIN allKvCfg /\ resetArg = "FACTORY" => ram[k] = Default[k]
=============================================================================
