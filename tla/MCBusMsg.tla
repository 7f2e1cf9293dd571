------------------------------ MODULE MCBusMsg ------------------------------
(***************************************************************************)
(* Model-checking instance of BusMsg: tables with two I2C buses or two I3C *)
(* buses, and a number that is in no table; and one that has both kinds.   *)
(***************************************************************************)
EXTENDS BusMsg

\* The I2C buses alone.
MCI2cTables ==
    {[b \in Buses |-> IF b \in {1, 2} THEN "i2c" ELSE "none"]}

MCTables ==
    MCI2cTables \cup
    {[b \in Buses |-> IF b \in {1, 2} THEN "i3c" ELSE "none"],
     [b \in Buses |-> IF b = 1 THEN "i2c" ELSE "i3c"]}
=============================================================================
