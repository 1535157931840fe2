---------------------------- MODULE MCBusTiming -----------------------------
(* Values of the constants of BusTiming for TLC.                           *)
EXTENDS BusTiming

(* The dividers of the driver; fast ones, where clock 3 is more than 32    *)
(* times 100 kHz and clock 4 has to be halved; slow ones, where no base    *)
(* clock reaches 1 MHz.                                                    *)
MCDividers ==
  {GlobalDividers, <<1, 3, 8, 31>>, <<1, 3, 8, 50>>, <<255, 255, 255, 98>>, <<2, 5, 8, 34>>}

Clocks(a, b, c, d, e) == [k \in 0 .. 4 |-> <<a, b, c, d, e>>[k + 1]]
MCOwnClocks == {Clocks(50000000, 0, 0, 0, 0), Clocks(50000000, 0, 0, 3290000, 1000000)}

Manual(low, high, hold) == [low |-> low, high |-> high, hold |-> hold]
MCManuals == {Manual(0, 0, 0), Manual(0, 0, 4), Manual(8, 4, 1), Manual(7, 5, 2), Manual(0, 9, 5)}

Times(high, low) == [high |-> high, low |-> low]
Conf(core, i2c, i3cHz, od, pp, hold) ==
  [core |-> core, i2c |-> i2c, i3c |-> i3cHz, od |-> od, pp |-> pp, hold |-> hold]
Zero == Times(0, 0)
MCI3cConfs ==
  {Conf(core, i2c, 12500000, Zero, Zero, 20) :
     core \in {50000000, 100000000, 133000000, 200000000}, i2c \in {100000, 384615, 400000, 1000000}}
  \cup {Conf(0, 0, 0, Zero, Zero, 0), Conf(200000000, 0, 12500000, Zero, Zero, 0),
        Conf(200000000, 250000, 8000000, Times(41, 205), Times(36, 64), 45),
        Conf(250000000, 2000, 1000000, Zero, Zero, 32),
        Conf(12500000, 100000, 1000000, Zero, Times(36, 0), 1000)}
=============================================================================
