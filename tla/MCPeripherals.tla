--------------------------- MODULE MCPeripherals ---------------------------
(* A board with a CAN controller on pins of both ports and an I2C bus on a *)
(* pin of the port they share.                                             *)
EXTENDS Peripherals

CONSTANTS can, i2c, tx, shutdown, scl, portA, portB

BoardDevices == {can, i2c, tx, shutdown, scl, portA, portB}

BoardNeeds ==
  [p \in BoardDevices |->
     CASE p = can      -> {tx, shutdown}
       [] p = i2c      -> {scl}
       [] p = tx       -> {portA}
       [] p = shutdown -> {portB}
       [] p = scl      -> {portB}
       [] OTHER        -> {}]

=============================================================================
