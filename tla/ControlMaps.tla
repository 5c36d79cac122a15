---------------------------- MODULE ControlMaps -----------------------------
(***************************************************************************)
(* The conversion maps of ut_control_plane.c, with which a callback turns  *)
(* the strings of a message into values and back.  A map is the sequence   *)
(* of its entries; the entry with a NULL string that ends it is left out.  *)
(***************************************************************************)
EXTENDS Integers, Sequences, FiniteSetsExt

CONSTANTS IntMax                \* INT32_MAX
ASSUME IntAssumption == IntMax \in Nat

NULL == <<"NULL">>

(* The conversions between int32_t, or int, and the uint32_t returned.     *)
ToUnsigned(v) == v % (2 * (IntMax + 1))
ToSigned(v) == IF v > IntMax THEN v - 2 * (IntMax + 1) ELSE v

(* The loops stop at the first entry that matches.                         *)
UT_Control_GetMapValue(map, searchString, defaultValue) ==
  LET found == {j \in DOMAIN map : map[j].string = searchString}
  IN ToUnsigned(IF found = {} THEN defaultValue ELSE map[Min(found)].value)

(* Mutant: an entry with the value 0 ends the map.                         *)
UT_Control_GetMapStringToZero(map, key) ==
  LET found == {j \in DOMAIN map : /\ map[j].value = key
                                   /\ \A h \in 1 .. j : map[h].value # 0}
  IN IF found = {} THEN NULL ELSE map[Min(found)].string

UT_Control_GetMapString(map, key) ==
  LET found == {j \in DOMAIN map : map[j].value = key}
  IN IF found = {} THEN NULL ELSE map[Min(found)].string
=============================================================================
