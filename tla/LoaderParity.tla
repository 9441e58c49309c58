---------------------------- MODULE LoaderParity ----------------------------
(***************************************************************************)
(* The Python loader beside the C++ one, on the same keymap file.  Their   *)
(* steps interleave freely (they are programs of their own); only the ends *)
(* are compared.                                                           *)
(***************************************************************************)
EXTENDS CppLoader

VARIABLES py_pc, py_todo, py_m, prefixes

py_vars == <<py_pc, py_todo, py_m, prefixes>>

Py == INSTANCE PyLoader WITH pc <- py_pc, todo <- py_todo, m <- py_m

BothInit == Init /\ Py!Init

BothNext ==
  \/ Next /\ UNCHANGED py_vars
  \/ Py!Next /\ UNCHANGED <<pc, todo, m>>

BothSpec == BothInit /\ [][BothNext]_<<vars, py_vars>>

-----------------------------------------------------------------------------
(* Properties *)

Ended == pc \in Errors \cup {"loaded"} /\ py_pc \in Py!Errors \cup {"loaded"}

\* Both programs refuse a file, or both load the same keymap from it (the state machines
\* can only mirror each other if they are given the same tries), but for these causes:
\*   - C++ alone refuses 0, false, [] or {} where Python's if takes it for no letter, and
\*     a flag that is not a Boolean, of which Python takes bool();
\*   - Python alone refuses a string that is not one letter, of which C++ takes the first
\*     or 0, and an entry that is not an object, which C++ skips;
\*   - both load, but differently, a file with such a string (an empty one is no letter
\*     to Python), one that lacks a sign (0 in C++, a default in Python) or one with an
\*     upper-case key (whose Shift form Python stores twice).
LoadersAgree ==
  Ended =>
    /\ pc \in Errors /\ py_pc = "loaded" =>
         HasFalsy(file) \/ ~ IsFlag(file.unmapped_passthrough)
    /\ pc = "loaded" /\ py_pc \in Py!Errors => HasOddString(file) \/ HasBareEntry(file)
    /\ pc = "loaded" /\ py_pc = "loaded" /\ m # py_m =>
         HasOddString(file) \/ LacksSign(file) \/ HasUpperKey(file)
=============================================================================
