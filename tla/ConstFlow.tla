------------------------------- MODULE ConstFlow -------------------------------
(***************************************************************************)
(* What the checks on const are worth (_check_assign, _emit_assign and the    *)
(* static types of lvalues in codegen_c.py).  A statement names an object,     *)
(* walks a path of members, elements and pointers to the object it assigns,    *)
(* does the same for its right-hand side, and is either refused by the         *)
(* compiler (no step) or executed.  Some accepted statements lose a const      *)
(* that the checks do not look at; they set laundered and end the behaviour.   *)
(***************************************************************************)
EXTENDS Integers, Sequences

CONSTANTS
    BaseTypes,  \* arithmetic types, struct definitions and Func
    Structs,    \* the struct definitions among them
    Members,    \* member names of each struct definition
    MemberType, \* [s |-> [member |-> type]]
    Nested,     \* [s |-> s and the structs inside it]
    Objects,    \* objects, their members and their elements, at any depth
    Roots,      \* the objects with a name
    DeclaredType, \* [object |-> its type]
    Field,      \* [struct object |-> [member |-> object]]
    Elements,   \* [array object |-> its elements]
    Leaves,     \* [struct object |-> the cells inside it]
    Twin(_, _, _), \* the cell of its second struct like one of its first
    Numbers, Functions, Zero,
    Initial     \* what the cells are initialised with

\* A type: base is at the end of a chain of pointers, quals[1] says whether the
\* object is const, quals[2] what it points to, and so on.  The qualifiers of
\* an array are those of its elements, as with_quals keeps them.
Types == [base : BaseTypes, quals : Seq(BOOLEAN) \ {<<>>}, array : BOOLEAN]
Func == "func"

IsPointer(t) == ~t.array /\ Len(t.quals) > 1
IsStruct(t) == ~t.array /\ Len(t.quals) = 1 /\ t.base \in Structs
IsConst(t) == ~t.array /\ t.quals[1]
IsFunction(t) == ~t.array /\ Len(t.quals) = 1 /\ t.base = Func
TargetOf(t) == IF t.array THEN [t EXCEPT !.array = FALSE]
                          ELSE [t EXCEPT !.quals = Tail(@)]
PointerTo(t) == [t EXCEPT !.quals = <<FALSE>> \o @]
WithQuals(t, const) == IF const THEN [t EXCEPT !.quals[1] = TRUE] ELSE t

ScalarCells == {o \in Objects : ~DeclaredType[o].array /\ ~IsStruct(DeclaredType[o])}
Values == Objects \cup Numbers \cup Functions

ASSUME TypeAssumption ==
    /\ Structs \subseteq BaseTypes /\ Func \in BaseTypes \ Structs
    /\ \A s \in Structs : \A m \in Members[s] : MemberType[s][m] \in Types
    /\ \A s \in Structs : Nested[s] \subseteq Structs

ASSUME LayoutAssumption ==
    /\ Roots \subseteq Objects
    /\ DeclaredType \in [Objects -> Types]
    /\ \A o \in Objects : ~IsFunction(DeclaredType[o])
    /\ \A o \in Objects : IsStruct(DeclaredType[o]) =>
          \A m \in Members[DeclaredType[o].base] :
             /\ Field[o][m] \in Objects
             /\ DeclaredType[Field[o][m]]
                   = WithQuals(MemberType[DeclaredType[o].base][m], IsConst(DeclaredType[o]))
    /\ \A o \in Objects : DeclaredType[o].array =>
          \A e \in Elements[o] : e \in Objects /\ DeclaredType[e] = TargetOf(DeclaredType[o])

\* Two structs of one definition have the same cells but for the const of the
\* struct itself; a cell that is const without it has it from a member.
ASSUME CopyAssumption ==
    \A d, s \in Objects :
       IsStruct(DeclaredType[d]) /\ IsStruct(DeclaredType[s])
         /\ DeclaredType[d].base = DeclaredType[s].base =>
          \A c \in Leaves[d] :
             /\ c \in ScalarCells /\ Twin(d, s, c) \in ScalarCells
             /\ LET own == DeclaredType[c]
                    like == DeclaredType[Twin(d, s, c)]
                IN  own.base = like.base /\ Tail(own.quals) = Tail(like.quals)
             /\ DeclaredType[c].quals[1] /\ ~IsConst(DeclaredType[d]) =>
                   \E n \in Nested[DeclaredType[d].base] : \E m \in Members[n] :
                      MemberType[n][m].quals[1]

VARIABLES
    mem,       \* what each cell holds: an address is the object that has it
    dst,       \* the lvalue on the left as far as it is evaluated
    src,       \* the lvalue on the right
    laundered  \* a statement has lost a const unseen

flowVars == <<mem, dst, src, laundered>>

NoLval == [none |-> TRUE]
Lvals == [obj : Objects, type : Types]
--------------------------------------------------------------------------------
\* _compatible: qualifiers do not matter.
SameLength(a, b) ==            \* defect: only the depth of pointers matters
    a.array = b.array /\ Len(a.quals) = Len(b.quals)
Compatible(a, b) ==
    a.array = b.array /\ a.base = b.base /\ Len(a.quals) = Len(b.quals)

\* _has_const_member: the members of structs inside, but not of arrays' const
\* elements, as an array type has no qualifiers of its own.
OwnConstMember(s) ==           \* defect: the structs inside are not searched
    \E m \in Members[s] : IsConst(MemberType[s][m])
HasConstMember(s) ==
    \E n \in Nested[s] : \E m \in Members[n] : IsConst(MemberType[n][m])

\* p[i] stays inside the array that holds the object p points to.
Near(v) ==
    {v} \cup UNION {Elements[a] :
                      a \in {b \in Objects : DeclaredType[b].array /\ v \in Elements[b]}}

Pointed(o) == IF mem[o] \in Objects THEN Near(mem[o]) ELSE {}

\* _step_type and _lval_addr: one more step of a path, with the type the
\* compiler gives it and the address the program computes.
MemberAsDeclared(s, m, const) == MemberType[s][m]  \* defect: a const struct's is lost
MemberOf(s, m, const) == WithQuals(MemberType[s][m], const)

Indexed(l) ==
    {[obj |-> e, type |-> TargetOf(l.type)] : e \in
        IF l.type.array THEN Elements[l.obj]
        ELSE IF IsPointer(l.type) /\ ~IsFunction(TargetOf(l.type)) THEN Pointed(l.obj)
        ELSE {}}

FieldsOf(o, t) ==
    {[obj |-> Field[o][m], type |-> MemberOf(t.base, m, IsConst(t))] : m \in Members[t.base]}

Dotted(l) == IF IsStruct(l.type) THEN FieldsOf(l.obj, l.type) ELSE {}

Arrowed(l) ==
    IF IsPointer(l.type) /\ IsStruct(TargetOf(l.type)) /\ mem[l.obj] \in Objects
    THEN FieldsOf(mem[l.obj], TargetOf(l.type)) ELSE {}

Steps(l) == Indexed(l) \cup Dotted(l) \cup Arrowed(l)
--------------------------------------------------------------------------------
\* _check_assign, for a right-hand side of one operand.
Permissive(l, r) ==            \* defect: no test for a discarded const
    IF IsPointer(l) THEN IsPointer(r) /\ Compatible(TargetOf(l), TargetOf(r)) ELSE ~IsPointer(r)
Checked(l, r) ==
    IF IsPointer(l)
    THEN /\ IsPointer(r)
         /\ IsConst(TargetOf(r)) => IsConst(TargetOf(l))
         /\ Compatible(TargetOf(l), TargetOf(r))
    ELSE ~IsPointer(r)

\* The qualifiers below the first level are never compared.
Launders(l, r) == IsPointer(l) /\ Tail(Tail(l.quals)) # Tail(Tail(r.quals))

\* Const elements of a member array are not seen by _has_const_member.
HidesConst(s) ==
    \E n \in Nested[s] : \E m \in Members[n] : MemberType[n][m].array /\ MemberType[n][m].quals[1]

ScalarOrConst(t) == ~t.array /\ ~IsStruct(t)  \* defect: const objects too
Assignable(t) == ~t.array /\ ~IsConst(t) /\ ~IsStruct(t)

Idle == dst = NoLval /\ ~laundered
Done == dst' = NoLval /\ src' = NoLval
Store(v) == mem' = [mem EXCEPT ![dst.obj] = v] /\ Done

NameLeft ==
    /\ Idle
    /\ \E x \in Roots : dst' = [obj |-> x, type |-> DeclaredType[x]]
    /\ UNCHANGED <<mem, src, laundered>>

WalkLeft ==
    /\ dst # NoLval /\ src = NoLval
    /\ dst' \in Steps(dst)
    /\ UNCHANGED <<mem, src, laundered>>

NameRight ==
    /\ dst # NoLval /\ src = NoLval
    /\ \E x \in Roots : src' = [obj |-> x, type |-> DeclaredType[x]]
    /\ UNCHANGED <<mem, dst, laundered>>

WalkRight ==
    /\ src # NoLval
    /\ src' \in Steps(src)
    /\ UNCHANGED <<mem, dst, laundered>>

(* A literal, and for an arithmetic object any computation: a pointer takes    *)
(* the literal zero only.                                                      *)
AssignNumber ==
    /\ dst # NoLval /\ src = NoLval /\ Assignable(dst.type)
    /\ \E v \in Numbers : (IsPointer(dst.type) => v = Zero) /\ Store(v)
    /\ UNCHANGED laundered

\* A longer expression or a call: nothing is checked (codegen_c.py:228).
AssignComputed ==
    /\ dst # NoLval /\ src = NoLval /\ Assignable(dst.type) /\ IsPointer(dst.type)
    /\ \E v \in Values : Store(v)
    /\ laundered' = TRUE

\* A load; an array decays to the address of an element.
LoadType(l) == IF l.type.array THEN PointerTo(TargetOf(l.type)) ELSE l.type
Loaded(l) == IF l.type.array THEN Elements[l.obj] ELSE {mem[l.obj]}

AssignLoad ==
    /\ src # NoLval /\ Assignable(dst.type) /\ ~IsStruct(src.type)
    /\ Checked(dst.type, LoadType(src))
    /\ \E v \in IF IsPointer(dst.type) THEN Loaded(src) ELSE Numbers : Store(v)
    /\ laundered' = Launders(dst.type, LoadType(src))

AssignAddress ==
    /\ src # NoLval /\ Assignable(dst.type)
    /\ ~src.type.array         \* a pointer to an array fits no pointer
    /\ Checked(dst.type, PointerTo(src.type))
    /\ Store(src.obj)
    /\ laundered' = Launders(dst.type, PointerTo(src.type))

FunctionPointer == [base |-> Func, quals |-> <<FALSE, FALSE>>, array |-> FALSE]

AssignFunction ==
    /\ dst # NoLval /\ src = NoLval /\ Assignable(dst.type)
    /\ Checked(dst.type, FunctionPointer)
    /\ \E f \in Functions : Store(f)
    /\ UNCHANGED laundered

CopyStruct ==
    /\ src # NoLval /\ IsStruct(dst.type) /\ ~IsConst(dst.type)
    /\ ~HasConstMember(dst.type.base)
    /\ IsStruct(src.type) /\ src.type.base = dst.type.base
    /\ mem' = [c \in ScalarCells |-> IF c \in Leaves[dst.obj]
                               THEN mem[Twin(dst.obj, src.obj, c)] ELSE mem[c]]
    /\ Done
    /\ laundered' = HidesConst(dst.type.base)

FlowInit == mem = Initial /\ dst = NoLval /\ src = NoLval /\ laundered = FALSE

FlowNext ==
    \/ NameLeft \/ WalkLeft \/ NameRight \/ WalkRight
    \/ AssignNumber \/ AssignComputed \/ AssignLoad \/ AssignAddress
    \/ AssignFunction \/ CopyStruct

FlowSpec == FlowInit /\ [][FlowNext]_flowVars
--------------------------------------------------------------------------------
\* An object may be used at type t: it is what t says, and t may only add const
\* at the first level.
Sound(o, t) ==
    /\ Compatible(t, DeclaredType[o])
    /\ DeclaredType[o].quals[1] => t.quals[1]
    /\ Tail(t.quals) = Tail(DeclaredType[o].quals)

Holds(c, v) ==
    LET t == DeclaredType[c]
    IN  IF IsPointer(t)
        THEN \/ v = Zero
             \/ v \in Objects /\ Sound(v, TargetOf(t))
             \/ v \in Functions /\ IsFunction(TargetOf(t))
        ELSE v \in Numbers

ASSUME StartAssumption ==
    /\ Zero \in Numbers
    /\ Numbers \cap Objects = {} /\ Functions \cap Objects = {}
    /\ Initial \in [ScalarCells -> Values]
    /\ \A c \in ScalarCells : Holds(c, Initial[c])

\* As long as every statement is one the checks see through, every cell holds
\* what its declared type says: a pointer, an object it may be used to read,
\* and to write unless the pointer's own type forbids it (README.md:352).
PointersTyped == ~laundered => \A c \in ScalarCells : Holds(c, mem[c])

\* Until then no const object ever changes, through any path of members,
\* elements and pointers and any chain of copies (README.md:351).
ConstKept ==
    ~laundered => \A c \in ScalarCells : IsConst(DeclaredType[c]) => mem[c] = Initial[c]
================================================================================
