---------------------------- MODULE MCInputEvdev ----------------------------
EXTENDS InputEvdev

MCNumber == [n \in Nodes |-> IF n = "vita" THEN 7 ELSE 2]

\* The Vita's buttons, and a keyboard that has a stick as well.  BTN_NORTH (307)
\* is above 63 and not tracked, KEY_ESC (1) is.
MCDevice ==
    [n \in Nodes |->
        IF n = "vita"
        THEN [named |-> TRUE, phys |-> "vita", name |-> "vita",
              keys |-> {304, 305, 307, 308, 310, 311, 546, 547},
              abs |-> {"ABS_X", "ABS_Y"}, calibrated |-> {"ABS_X", "ABS_Y"}]
        ELSE [named |-> TRUE, phys |-> "usb", name |-> "keyboard",
              keys |-> {1, 16}, abs |-> {"ABS_X"}, calibrated |-> {"ABS_X"}]]
=============================================================================
