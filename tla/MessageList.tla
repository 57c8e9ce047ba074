---------------------------- MODULE MessageList ----------------------------
(* The messages of messagedef.h and those that the constructor of class    *)
(* MessageDef registers.                                                   *)
EXTENDS Integers, Sequences

ActionId ==
  [ACTION_START |-> 100, ACTION_STOP |-> 101, ACTION_PAUSE |-> 102,
   ACTION_KEY_F1 |-> 103, ACTION_KEY_F2 |-> 104, ACTION_KEY_F3 |-> 105,
   ACTION_KEY_F4 |-> 106, ACTION_KEY_UP |-> 107, ACTION_KEY_DOWN |-> 108,
   ACTION_KEY_ENTER |-> 109, ACTION_KEY_ESC |-> 110]

OtherId ==
  [MOTOR_SET_RPM |-> 1000, FIRMWARE_REV |-> 1001, BSP_REV |-> 1002,
   COVER_STATE |-> 1003, IP_ADDRESS_ETH0 |-> 1004, IP_ADDRESS_ETH1 |-> 1005,
   UPPER_AIR_OUT_VALVE |-> 1006, UPPER_AIR_IN_VALVE |-> 1007,
   AC_MOTOR_ACTUAL_SPEED |-> 1008, AC_MOTOR_ACTUAL_CURRENT |-> 1009,
   E_STOP_STATE |-> 1010]

\* The macro ADDMSG(a, b): the value of a, its spelling, and b.
AddMsg(id, name, b) == [key |-> id[name], name |-> name, highend_can_set |-> b]

Actions ==
  <<"ACTION_START", "ACTION_STOP", "ACTION_PAUSE", "ACTION_KEY_F1",
    "ACTION_KEY_F2", "ACTION_KEY_F3", "ACTION_KEY_F4", "ACTION_KEY_UP",
    "ACTION_KEY_DOWN", "ACTION_KEY_ENTER", "ACTION_KEY_ESC">>

Others ==
  <<"FIRMWARE_REV", "BSP_REV", "COVER_STATE", "IP_ADDRESS_ETH0",
    "IP_ADDRESS_ETH1", "UPPER_AIR_OUT_VALVE", "UPPER_AIR_IN_VALVE",
    "AC_MOTOR_ACTUAL_SPEED", "AC_MOTOR_ACTUAL_CURRENT", "E_STOP_STATE">>

\* What the constructor adds: the high end may set the actions and the motor.
Registered ==
  [i \in 1..Len(Actions) |-> AddMsg(ActionId, Actions[i], 1)]
  \o <<AddMsg(OtherId, "MOTOR_SET_RPM", 1)>>
  \o [i \in 1..Len(Others) |-> AddMsg(OtherId, Others[i], 0)]
=============================================================================
