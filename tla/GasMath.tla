------------------------------ MODULE GasMath ------------------------------
(***************************************************************************)
(* gas/yinEngine.ts, the rising floor of the gas price, and the auto gas   *)
(* limit of gas/gasUtils.ts.  Amounts are in ANU and times in seconds.     *)
(***************************************************************************)
EXTENDS Integers

CONSTANTS
  GenesisTime,      \* GENESIS_TIME_S
  GenesisMinGas,    \* GENESIS_MIN_GAS_ANU
  MaxGas,           \* MAX_GAS_ANU
  GasPriceInterval, \* GAS_PRICE_INTERVAL_S
  MinAutoGasLimit   \* MIN_AUTO_GAS_LIMIT

ASSUME YinAssumption ==
  /\ GenesisTime \in Nat
  /\ GenesisMinGas \in Nat \ {0}
  /\ MaxGas \in Nat /\ GenesisMinGas <= MaxGas
  /\ GasPriceInterval \in Nat \ {0}
  /\ MinAutoGasLimit \in Nat \ {0}

(* minGasPriceAnu: one ANU more for every full interval since genesis. *)
Ticks(creationTime) ==
  IF creationTime <= GenesisTime THEN 0
  ELSE (creationTime - GenesisTime) \div GasPriceInterval

MinGasPriceAnu(creationTime) ==
  IF GenesisMinGas + Ticks(creationTime) <= MaxGas
  THEN GenesisMinGas + Ticks(creationTime)
  ELSE MaxGas

(* stoaGasMeta: both fields from one reading of the clock. *)
StoaGasMeta(now) == [creationTime |-> now, gasPrice |-> MinGasPriceAnu(now)]

-----------------------------------------------------------------------------
(* calculateAutoGasLimit *)

(* The multiplier, in hundredths, and the flat buffer of a measurement. *)
Buffer(gas) ==
  CASE gas < 100                      -> [times |-> 1000, flat |-> 0]
    [] 100 <= gas /\ gas < 200        -> [times |-> 500, flat |-> 0]
    [] 200 <= gas /\ gas < 400        -> [times |-> 250, flat |-> 0]
    [] 400 <= gas /\ gas < 500        -> [times |-> 200, flat |-> 0]
    [] 500 <= gas /\ gas < 1000       -> [times |-> 150, flat |-> 0]
    [] 1000 <= gas /\ gas < 20000     -> [times |-> 115, flat |-> 0]
    [] 20000 <= gas /\ gas < 100000   -> [times |-> 110, flat |-> 5000]
    [] 100000 <= gas /\ gas < 500000  -> [times |-> 110, flat |-> 10000]
    [] 500000 <= gas                  -> [times |-> 105, flat |-> 20000]

(* The product is a double: when it is a whole number it may come out a    *)
(* hair above it, and Math.ceil then gives one more (ulp is 0 or 1).       *)
Buffered(gas, ulp) ==
  LET product == (gas * Buffer(gas).times + 99) \div 100 + ulp + Buffer(gas).flat
  IN  IF product >= MinAutoGasLimit THEN product ELSE MinAutoGasLimit

AutoGasLimit(gas, nodeLimit, ulp) ==
  IF gas <= 0 THEN 0
  ELSE IF Buffered(gas, ulp) <= nodeLimit THEN Buffered(gas, ulp) ELSE nodeLimit

AutoGasLimits(gas, nodeLimit) == {AutoGasLimit(gas, nodeLimit, ulp) : ulp \in {0, 1}}

=============================================================================
