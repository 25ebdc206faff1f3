-------------------------------- MODULE S21Tuner --------------------------------
(***************************************************************************)
(* The threads that keep the boards of the S21 within limits: one reads    *)
(* their sensors over i2c, the autotuner sets the fans and moves the       *)
(* supply voltage, one step a round, towards the option, and the API       *)
(* changes the option.  The supply hangs on wires of its own, but takes    *)
(* the mutex of the i2c bus; a sensor that cannot be selected leaves it    *)
(* locked.                                                                 *)
(*                                                                         *)
(* Voltages are in steps of 1 / VOLTAGE_STEP_DIV.  A temperature is above  *)
(* S21_WORKING_TEMPERATURE_MAX or not; below it the fans' controller may   *)
(* come to any result.  The frequency, which goes towards its option in    *)
(* the same way but waits for nothing, and the sensors in the chips, whose *)
(* readings only go into a log, are left out; all boards are active.  The  *)
(* mode of the autotuner is at least ONLY_FANS, its default (in mode 0 its *)
(* thread returns at once).                                                *)
(***************************************************************************)
EXTENDS Integers

CONSTANTS
    Sensors,        \* how many, in the order they are read
    Low, High,      \* APW17_MIN_VOLTAGE and APW17_MAX_VOLTAGE
    Skip            \* SKIP_MEASUREMENT

TunerAssumption ==
    /\ Skip \in Nat \ {0} /\ Low \in Int /\ High \in Int /\ Low < High
    /\ Sensors \in Nat \ {0}

Sensor == 0..Sensors - 1

VARIABLES
    hot,            \* hot[s]: what sensor s would say
    temperature,    \* temperature[s]: what the board says of it, in the same terms
    rpc,            \* the reading thread
    sensor,         \* the sensor it is at
    mutex,          \* i2c_mutex: who has it
    tpc,            \* the autotuner
    want,           \* autotuner->voltage_setting, from one step to the next
    setting,        \* g_apw17_psu->voltage_setting
    supply,         \* the voltage the supply was last told
    hottest,        \* most_hot_board_temperature, in the same terms, likewise
    full,           \* the fans run at FAN_PWM_MAX_VALUE
    measurement,    \* rounds, modulo Skip
    optVoltage,     \* opt_psu_voltage
    clamping        \* the API is to clamp opt_psu_voltage yet

readVars == <<temperature, rpc, sensor>>
tunerVars == <<tpc, want, setting, supply, hottest, full, measurement>>
optVars == <<optVoltage, clamping>>
vars == <<hot, readVars, mutex, tunerVars, optVars>>

\* apw17_init has set the first voltage; measurement is not initialised.
Init ==
    /\ hot \in [Sensor -> BOOLEAN] /\ temperature = [s \in Sensor |-> FALSE]
    /\ rpc = "lock" /\ sensor = 0 /\ mutex = "free"
    /\ tpc = "prepare"
    /\ setting = High - 1 /\ supply = High - 1 /\ want = High - 1
    /\ hottest = FALSE /\ full = FALSE /\ measurement \in 0..Skip - 1
    /\ optVoltage \in Low..High /\ clamping = FALSE

-----------------------------------------------------------------------------
(* The thread that reads the sensors.                                      *)

ReadLock ==
    /\ rpc = "lock" /\ mutex = "free" /\ mutex' = "reader" /\ rpc' = "read"
    /\ UNCHANGED <<hot, temperature, sensor, tunerVars, optVars>>

NextSensor == sensor' = (sensor + 1) % Sensors

ReadDone ==
    /\ rpc = "read" /\ mutex' = "free" /\ rpc' = "lock"
    /\ temperature' = [temperature EXCEPT ![sensor] = hot[sensor]]
    /\ NextSensor
    /\ UNCHANGED <<hot, tunerVars, optVars>>

\* ioctl fails: the function returns without a value, and without unlocking.
ReadFails ==
    /\ rpc = "read" /\ rpc' = "lock"
    /\ \E t \in BOOLEAN : temperature' = [temperature EXCEPT ![sensor] = t]
    /\ NextSensor
    /\ UNCHANGED <<hot, mutex, tunerVars, optVars>>

Reader == ReadLock \/ ReadDone \/ ReadFails

-----------------------------------------------------------------------------
(* The autotuner.                                                          *)

\* One that stops a step short when it goes down.
TowardsShort(x, goal) == IF goal > x THEN x + 1 ELSE IF goal + 1 < x THEN x - 1 ELSE x

Towards(x, goal) == IF goal > x THEN x + 1 ELSE IF goal < x THEN x - 1 ELSE x

\* One that keeps the temperature of the last sensor.
HottestLast(t) == t[Sensors - 1]

Hottest(t) == \E s \in Sensor : t[s]

Prepare ==
    /\ tpc = "prepare" /\ tpc' = "work"
    /\ want' = Towards(setting, optVoltage)
    /\ hottest' = Hottest(temperature)
    /\ UNCHANGED <<hot, readVars, mutex, setting, supply, full, measurement, optVars>>

\* One that trusts the option.
ClampNothing(v) == v

Clamp(v) == IF v < Low THEN Low ELSE IF v > High THEN High ELSE v

\* The fans; then a measurement, or the voltage, if it is to change.
Work ==
    /\ tpc = "work"
    /\ full' \in IF hottest THEN {TRUE} ELSE BOOLEAN
    /\ measurement' = (measurement + 1) % Skip
    /\ IF measurement' = 0
       THEN tpc' = "measure" /\ UNCHANGED setting
       ELSE /\ setting' = Clamp(want)
            /\ tpc' = IF setting' = setting THEN "prepare" ELSE "tell"
    /\ want' = setting' /\ hottest' = FALSE
    /\ UNCHANGED <<hot, readVars, mutex, supply, optVars>>

TunerLock ==
    /\ tpc \in {"measure", "tell"} /\ mutex = "free" /\ mutex' = "tuner"
    /\ tpc' = IF tpc = "tell" THEN "telling" ELSE "measuring"
    /\ UNCHANGED <<hot, readVars, want, setting, supply, hottest, full,
                   measurement, optVars>>

TunerUnlock ==
    /\ tpc \in {"measuring", "telling"} /\ mutex' = "free" /\ tpc' = "prepare"
    /\ supply' = IF tpc = "telling" THEN setting ELSE supply
    /\ UNCHANGED <<hot, readVars, want, setting, hottest, full, measurement,
                   optVars>>

Tuner == Prepare \/ Work \/ TunerUnlock

-----------------------------------------------------------------------------
(* The API, and the weather.                                               *)

\* setpsuvoltage stores the parameter, whatever it is, and clamps it then.
SetVoltage ==
    /\ ~clamping /\ clamping' = TRUE
    /\ optVoltage' \in Low - 1..High + 1
    /\ UNCHANGED <<hot, readVars, mutex, tunerVars>>

ClampVoltage ==
    /\ clamping /\ clamping' = FALSE
    /\ optVoltage' = Clamp(optVoltage)
    /\ UNCHANGED <<hot, readVars, mutex, tunerVars>>

Weather ==
    /\ \E s \in Sensor : hot' = [hot EXCEPT ![s] = ~@]
    /\ UNCHANGED <<readVars, mutex, tunerVars, optVars>>

Next == Reader \/ Tuner \/ TunerLock \/ SetVoltage \/ ClampVoltage \/ Weather

\* The threads run on, a command ends, and who has let the mutex go sleeps long enough
\* for the other to take it.
Fairness ==
    /\ WF_vars(ReadDone \/ ReadFails) /\ SF_vars(ReadLock)
    /\ WF_vars(Tuner) /\ SF_vars(TunerLock) /\ WF_vars(ClampVoltage)

Spec == Init /\ [][Next]_vars /\ Fairness

-----------------------------------------------------------------------------
(* Properties.                                                             *)

TypeOK ==
    /\ hot \in [Sensor -> BOOLEAN] /\ temperature \in [Sensor -> BOOLEAN]
    /\ rpc \in {"lock", "read"} /\ sensor \in Sensor
    /\ mutex \in {"free", "reader", "tuner"}
    /\ tpc \in {"prepare", "work", "measure", "measuring", "tell", "telling"}
    /\ want \in Low - 1..High + 1 /\ setting \in Int /\ supply \in Int
    /\ hottest \in BOOLEAN /\ full \in BOOLEAN /\ measurement \in 0..Skip - 1
    /\ optVoltage \in Int /\ clamping \in BOOLEAN

\* The supply is told voltages within its limits only, each one step from the last,
\* though the option may be read between the store of a wild value and its clamping,
\* rounds with a measurement tell it nothing, and the mutex may be waited for.
SupplyInSteps ==
    /\ setting \in Low..High /\ supply \in Low..High
    /\ setting - supply \in -1..1 /\ (tpc \notin {"tell", "telling"} => setting = supply)

\* i2c_mutex was left locked: its holder is about to lock it again.
Leaked == mutex = "reader" /\ rpc = "lock"

\* A voltage that stays asked for is reached, and kept, unless the mutex was left locked.
VoltageIsReached ==
    <>[][FALSE]_optVars /\ []~Leaked => <>[](supply = optVoltage)

\* A sensor that stays too hot brings the fans to full speed for good, whatever the
\* other sensors say; unless the mutex was left locked: then the temperatures are
\* never read again, and the next measurement stops the autotuner.
HeatRunsFans ==
    \A s \in Sensor : <>[]hot[s] /\ []~Leaked => <>[]full
=============================================================================
