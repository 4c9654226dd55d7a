---------------------------- MODULE SensorCycle ----------------------------
(***************************************************************************)
(* What the sensor node promises about its two sensors, whatever the radio *)
(* does meanwhile: they take turns; only the one whose turn it is gets     *)
(* power; a conversion is started on a powered sensor and finishes while   *)
(* that sensor still has power; a sensor is reported, and switched off,    *)
(* only on the strength of a conversion made since it was switched on.     *)
(*                                                                         *)
(* This is an abstract specification: LightServer implements it under the  *)
(* refinement mapping given there.                                         *)
(***************************************************************************)

Sensors == {"light", "smoke"}

Other(s) == IF s = "light" THEN "smoke" ELSE "light"

VARIABLES
    turn,        \* the sensor whose turn it is
    powered,     \* the sensors that have power
    converting,  \* the sensors whose conversion is running
    fresh        \* the sensors converted since they were powered

cycleVars == <<turn, powered, converting, fresh>>

CycleInit ==
    /\ turn = "light"
    /\ powered = {}
    /\ converting = {}
    /\ fresh = {}

PowerOn ==
    /\ powered = {}
    /\ powered' = {turn}
    /\ UNCHANGED <<turn, converting, fresh>>

StartConversion ==
    /\ powered = {turn}
    /\ converting = {}
    /\ fresh = {}
    /\ converting' = {turn}
    /\ UNCHANGED <<turn, powered, fresh>>

FinishConversion ==
    /\ converting = {turn}
    /\ powered = {turn}
    /\ converting' = {}
    /\ fresh' = {turn}
    /\ UNCHANGED <<turn, powered>>

Report ==
    /\ fresh = {turn}
    /\ converting = {}
    /\ turn' = Other(turn)
    /\ powered' = {}
    /\ fresh' = {}
    /\ UNCHANGED converting

CycleNext == PowerOn \/ StartConversion \/ FinishConversion \/ Report

CycleSpec == CycleInit /\ [][CycleNext]_cycleVars
=============================================================================
