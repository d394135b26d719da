---------------------------- MODULE ActivationStore ----------------------------
(***************************************************************************)
(* What the storage of a generated program promises, without cells and      *)
(* addresses: global locations that live for ever, and a stack of           *)
(* activation records, each fresh and zero when its call starts and gone     *)
(* when the call returns.  An assignment changes one location and nothing    *)
(* else.  NumRuntime implements this module with one flat array of cells.    *)
(***************************************************************************)
EXTENDS Integers, Sequences

CONSTANTS Fns,        \* the functions of the program, main among them
          Entry,      \* main
          Size,       \* cells of a record, per function
          Globals,    \* the global locations
          Vals        \* what a location holds; 0 is one of them

VARIABLES phase,      \* "boot", "live" or "stopped"
          globals,    \* the contents of the global locations
          records     \* the activation records, main's first

vars == <<phase, globals, records>>

Slots(f) == 0 .. Size[f] - 1

\* A new activation of f: every slot is zero.
Fresh(f) == [fn |-> f, cells |-> [i \in Slots(f) |-> 0]]

Init ==
    /\ phase = "boot"
    /\ globals = [c \in Globals |-> 0]
    /\ records = <<>>

Start ==
    /\ phase = "boot"
    /\ phase' = "live"
    /\ records' = <<Fresh(Entry)>>
    /\ UNCHANGED globals

Call(f) ==
    /\ phase = "live"
    /\ records' = Append(records, Fresh(f))
    /\ UNCHANGED <<phase, globals>>

Return ==
    /\ phase = "live"
    /\ Len(records) > 1
    /\ records' = SubSeq(records, 1, Len(records) - 1)
    /\ UNCHANGED <<phase, globals>>

AssignGlobal(c) ==
    /\ phase = "live"
    /\ globals' = [globals EXCEPT ![c] = globals'[c]]
    /\ globals'[c] \in Vals
    /\ UNCHANGED <<phase, records>>

\* Any live record can be assigned to, because its address may be held.
AssignLocal(k, i) ==
    /\ phase = "live"
    /\ records' = [records EXCEPT ![k].cells[i] = records'[k].cells[i]]
    /\ records'[k].cells[i] \in Vals
    /\ UNCHANGED <<phase, globals>>

\* A declaration is executed: some slots of the running record become zero.
Declare(slots) ==
    /\ phase = "live"
    /\ records # <<>>
    /\ records' = [records EXCEPT ![Len(records)].cells =
                      [i \in DOMAIN @ |-> IF i \in slots THEN 0 ELSE @[i]]]
    /\ UNCHANGED <<phase, globals>>

Stop ==
    /\ phase' = "stopped"
    /\ UNCHANGED <<globals, records>>

Next ==
    \/ Start
    \/ \E f \in Fns : Call(f)
    \/ Return
    \/ \E c \in Globals : AssignGlobal(c)
    \/ \E k \in DOMAIN records :
         \E i \in DOMAIN records[k].cells : AssignLocal(k, i)
    \/ /\ records # <<>>
       /\ \E slots \in SUBSET DOMAIN records[Len(records)].cells : Declare(slots)
    \/ Stop

Spec == Init /\ [][Next]_vars
================================================================================
