------------------------------ MODULE MCCgLock ------------------------------
(***************************************************************************)
(* Small instances of three components in one run: a behaviour is one of   *)
(* CgLock, with a few threads each of which may read, write and downgrade  *)
(* for ever, one of S21Tuner, whose threads share a mutex that an error    *)
(* path leaves locked, or one of BlockTracker.  The variables of the       *)
(* others stay as they are.                                                *)
(***************************************************************************)
EXTENDS CgLock

CONSTANTS
    Sensors, Low, High, Skip,
    Pool, Scheduler, Keep, Lag, MaxBlock

VARIABLES
    part,           \* which of them this is
    hot, temperature, rpc, sensor, i2cMutex, tpc, want, setting, supply, hottest, full,
    measurement, optVoltage, clamping,
    chain, pblock, clean, miningPool, blocks, current, news, bpc, wpool, wblock

U == INSTANCE S21Tuner WITH mutex <- i2cMutex
B == INSTANCE BlockTracker WITH pc <- bpc

ASSUME RunAssumption == U!TunerAssumption /\ B!BlockAssumption

tunerVars == <<hot, temperature, rpc, sensor, i2cMutex, tpc, want, setting, supply,
               hottest, full, measurement, optVoltage, clamping>>
blockVars == <<chain, pblock, clean, miningPool, blocks, current, news, bpc, wpool, wblock>>
allVars == <<part, vars, tunerVars, blockVars>>

EitherInit ==
    /\ part \in {"lock", "tuner", "block"}
    /\ Init /\ U!Init /\ B!Init
    /\ \/ part = "tuner"
       \/ hot = temperature /\ measurement = 0 /\ optVoltage = setting
    /\ part = "block" \/ miningPool = CHOOSE p \in Pool : TRUE

EitherNext ==
    \/ part = "lock" /\ Next /\ UNCHANGED <<part, tunerVars, blockVars>>
    \/ part = "tuner" /\ U!Next /\ UNCHANGED <<part, vars, blockVars>>
    \/ part = "block" /\ B!Next /\ UNCHANGED <<part, vars, tunerVars>>

EitherFairness ==
    /\ Fairness
    /\ WF_tunerVars(part = "tuner" /\ (U!ReadDone \/ U!ReadFails))
    /\ SF_tunerVars(part = "tuner" /\ U!ReadLock)
    /\ WF_tunerVars(part = "tuner" /\ U!Tuner) /\ SF_tunerVars(part = "tuner" /\ U!TunerLock)
    /\ WF_tunerVars(part = "tuner" /\ U!ClampVoltage)
    /\ WF_blockVars(part = "block" /\ B!MakeWork)
    /\ \A p \in Pool : WF_blockVars(part = "block" /\ B!InformDatabase(p))
    /\ \A t \in B!Caller : WF_blockVars(part = "block" /\ B!Test(t))

EitherSpec == EitherInit /\ [][EitherNext]_allVars /\ EitherFairness

-----------------------------------------------------------------------------
\* The properties of the two other modules, which state and explain them.

\* The types of both; and the supply's voltage moves in steps, within its limits.
SupplyInSteps == U!TypeOK /\ B!TypeOK /\ U!SupplyInSteps

\* A voltage that stays asked for is reached.
VoltageIsReached == part = "tuner" => U!VoltageIsReached

\* A sensor that stays too hot brings the fans to full speed.
HeatRunsFans == part = "tuner" => U!HeatRunsFans

\* A block is new once.
NewOnce == B!NewOnce

\* Every block that all pools stay on is noticed.
NoticedInTheEnd == part = "block" => B!NoticedInTheEnd
=============================================================================
