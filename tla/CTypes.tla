--------------------------------- MODULE CTypes ---------------------------------
(***************************************************************************)
(* Struct and union types while the parser reads declarations: tags that are *)
(* mentioned before they are defined, bodies nested in bodies, and the cell  *)
(* and byte layouts that complete_struct computes when a body closes.  A     *)
(* type is what a declarator makes of a base type; a qualified type is a     *)
(* copy, and a copy of a struct made before the struct is complete stays     *)
(* incomplete.  Members have no names here, so a name used twice is not      *)
(* among the errors.                                                        *)
(***************************************************************************)
EXTENDS Integers, Sequences

CONSTANTS
    Tags,        \* struct and union tags
    UnionTags,   \* the union tags among them
    Scalars,     \* arithmetic base types
    Size,        \* their bytes, which are also their alignment
    PtrBytes,    \* POINTER_BYTES
    Counts,      \* array sizes; 1 also stands for a declarator without [N]
    MaxFields,   \* bound: members of one body
    MaxObjects   \* bound: declared objects

ASSUME TypesAssumption ==
    /\ UnionTags \subseteq Tags /\ Tags \cap Scalars = {}
    /\ Size \in [Scalars -> Nat \ {0}] /\ PtrBytes \in Nat \ {0}
    /\ Counts \subseteq Nat /\ MaxFields \in Nat /\ MaxObjects \in Nat

\* Of two alignments one is a multiple of the other.
Alignments == {1, PtrBytes} \cup {Size[s] : s \in Scalars}
ASSUME AlignmentAssumption ==
    \A a, b \in Alignments : a <= b => b % a = 0

Bases == Scalars \cup Tags

\* stale: a qualified copy of a struct that was incomplete at the time.
Type == [base : Bases, stale : BOOLEAN, ptr : BOOLEAN, count : Counts]

VARIABLES
    defs,      \* per tag: state ("absent", "incomplete" or "complete"),
               \* members and sizes
    open,      \* bodies being parsed, the outermost first: [tag, fields]
    objects,   \* types of the declared objects, in order
    status     \* "parse" or "error"

vars == <<defs, open, objects, status>>

Defined(t) == defs[t].state = "complete"

\* (Definitions marked "defect" are variants the properties are checked
\* against.)
SizedAlways(ty) == TRUE   \* defect: _need_complete is not called

\* _need_complete of everything the size of ty depends on.
Sized(ty) == ty.ptr \/ ty.base \in Scalars \/ (~ty.stale /\ Defined(ty.base))

Of(ty, scalar, pointer, field) ==
    CASE ty.ptr -> pointer
      [] ~ty.ptr /\ ty.base \in Scalars -> scalar[ty.base]
      [] OTHER -> defs[ty.base][field]

Cells(ty) == ty.count * Of(ty, [s \in Scalars |-> 1], 1, "cells")
Bytes(ty) == ty.count * Of(ty, Size, PtrBytes, "bytes")
Align(ty) == Of(ty, Size, PtrBytes, "align")

RoundDown(value, unit) == (value \div unit) * unit   \* defect: no unit - 1
RoundUp(value, unit) == ((value + unit - 1) \div unit) * unit

Largest(S) == CHOOSE m \in S : \A x \in S : x <= m

\* The ends of members laid out one after the other, each at a multiple of
\* its unit.
Ends(size, unit) ==
    LET end[i \in 0 .. Len(size)] ==
            IF i = 0 THEN 0 ELSE RoundUp(end[i - 1], unit[i]) + size[i]
    IN end

\* Both layouts of a body: cells without padding, bytes with it, and
\* everything at 0 in a union.
Start(t, size, unit, i) ==
    IF t \in UnionTags THEN 0 ELSE RoundUp(Ends(size, unit)[i - 1], unit[i])
Extent(t, size, unit) ==
    IF t \in UnionTags THEN Largest({0} \cup {size[i] : i \in DOMAIN size})
                       ELSE Ends(size, unit)[Len(size)]

Layout(t, fields) ==
    LET cells == [i \in 1 .. Len(fields) |-> Cells(fields[i])]
        bytes == [i \in 1 .. Len(fields) |-> Bytes(fields[i])]
        unit == [i \in 1 .. Len(fields) |-> Align(fields[i])]
        one == [i \in 1 .. Len(fields) |-> 1]
        align == Largest({1} \cup {unit[i] : i \in 1 .. Len(fields)})
    IN [state |-> "complete",
        members |-> [i \in 1 .. Len(fields) |->
                        [type |-> fields[i], cell |-> Start(t, cells, one, i),
                         byte |-> Start(t, bytes, unit, i)]],
        cells |-> Extent(t, cells, one),
        bytes |-> RoundUp(Extent(t, bytes, unit), align),
        align |-> align]

Innermost == open[Len(open)]
Error == status' = "error" /\ UNCHANGED <<defs, open, objects>>

MentionedNot(b) == defs   \* defect: the new type is not entered in tags

\* Naming a tag for the first time creates an incomplete type.
Mentioned(b) ==
    IF b \in Tags /\ defs[b].state = "absent"
    THEN [defs EXCEPT ![b].state = "incomplete"]
    ELSE defs

\* The declarator: with_quals copies a struct that is still incomplete.
Declared(b, quals, ptr, n) ==
    [base |-> b, stale |-> quals /\ b \in Tags /\ ~Defined(b), ptr |-> ptr, count |-> n]

\* ty is complete: the name of a member or of an object follows.
Use(ty, rest, d) ==
    IF rest # <<>>
    THEN /\ Len(rest[Len(rest)].fields) < MaxFields
         /\ open' = [rest EXCEPT ![Len(rest)].fields = Append(@, ty)]
         /\ defs' = d
         /\ UNCHANGED <<objects, status>>
    ELSE /\ Len(objects) < MaxObjects
         /\ open' = rest
         /\ defs' = d
         /\ objects' = Append(objects, ty)
         /\ UNCHANGED status

\* A member or an object whose base is a scalar or a mentioned tag.  The size
\* of an object is needed at once, that of a member when the body closes.
Declare(b, quals, ptr, n) ==
    /\ status = "parse"
    /\ LET ty == Declared(b, quals, ptr, n) IN
       IF open = <<>> /\ ~Sized(ty)
       THEN Error
       ELSE Use(ty, open, Mentioned(b))

\* struct t;  at file level.
Forward(t) ==
    /\ status = "parse" /\ open = <<>>
    /\ defs' = Mentioned(t)
    /\ UNCHANGED <<open, objects, status>>

\* struct t {
OpenBody(t) ==
    /\ status = "parse"
    /\ IF Defined(t)
       THEN Error
       ELSE /\ defs' = Mentioned(t)
            /\ open' = Append(open, [tag |-> t, fields |-> <<>>])
            /\ UNCHANGED <<objects, status>>

RedefinesNothing(t) == FALSE   \* defect: st.complete is not tested
Redefines(t) == Defined(t)

\* complete_struct refuses the body.
Refused ==
    \/ Redefines(Innermost.tag)
    \/ Innermost.fields = <<>>
    \/ \E i \in 1 .. Len(Innermost.fields) : ~Sized(Innermost.fields[i])

\* } and the declarator after it, or ; at file level.
CloseBody(ptr, n) ==
    /\ status = "parse" /\ open # <<>>
    /\ IF Refused
       THEN Error
       ELSE LET t == Innermost.tag
                rest == SubSeq(open, 1, Len(open) - 1)
                d == [defs EXCEPT ![t] = Layout(t, Innermost.fields)]
            IN \/ Use([base |-> t, stale |-> FALSE, ptr |-> ptr, count |-> n], rest, d)
               \/ /\ rest = <<>>
                  /\ defs' = d /\ open' = rest
                  /\ UNCHANGED <<objects, status>>

\* new_struct, before anything is known of it.
New == [state |-> "absent", members |-> <<>>, cells |-> 0, bytes |-> 0, align |-> 1]

Init ==
    /\ defs = [t \in Tags |-> New]
    /\ open = <<>>
    /\ objects = <<>>
    /\ status = "parse"

Next ==
    \/ \E b \in Bases, quals, ptr \in BOOLEAN, n \in Counts : Declare(b, quals, ptr, n)
    \/ \E t \in Tags : Forward(t) \/ OpenBody(t)
    \/ \E ptr \in BOOLEAN, n \in Counts : CloseBody(ptr, n)

Spec == Init /\ [][Next]_vars

--------------------------------------------------------------------------------

Member == [type : Type, cell : Nat, byte : Nat]
Struct == [state : {"absent", "incomplete", "complete"}, members : Seq(Member),
           cells : Nat, bytes : Nat, align : Nat \ {0}]

\* Types; and every tag in use, in a body being parsed, a member or an object,
\* has an entry in the table of tags (_parse_struct).
Known(ty) == ty.base \in Tags => defs[ty.base].state # "absent"

TypeOK ==
    /\ defs \in [Tags -> Struct]
    /\ open \in Seq([tag : Tags, fields : Seq(Type)])
    /\ objects \in Seq(Type)
    /\ \A i \in 1 .. Len(open) :
         /\ defs[open[i].tag].state # "absent"
         /\ \A k \in 1 .. Len(open[i].fields) : Known(open[i].fields[k])
    /\ \A i \in 1 .. Len(objects) : Known(objects[i])
    /\ status \in {"parse", "error"}

\* Offsets recorded when a body closed are right for the sizes the members
\* have now: members lie inside the struct, aligned, and those of a struct
\* one after the other in both layouts (complete_struct).
LayoutSound ==
    \A t \in Tags : Defined(t) =>
        LET d == defs[t]
            m == d.members
        IN /\ d.bytes % d.align = 0
           /\ \A i \in 1 .. Len(m) :
                 /\ m[i].cell + Cells(m[i].type) <= d.cells
                 /\ m[i].byte + Bytes(m[i].type) <= d.bytes
                 /\ m[i].byte % Align(m[i].type) = 0
                 /\ d.align % Align(m[i].type) = 0
           /\ t \notin UnionTags =>
                 \A i, j \in 1 .. Len(m) : i < j =>
                    /\ m[i].cell + Cells(m[i].type) <= m[j].cell
                    /\ m[i].byte + Bytes(m[i].type) <= m[j].byte

\* No struct contains itself, directly or through members that are structs,
\* in whatever order tags are mentioned, nested and defined (_need_complete):
\* of any structs one contains none of them.
Contains(t, u) ==
    /\ Defined(t)
    /\ \E i \in 1 .. Len(defs[t].members) :
          defs[t].members[i].type.base = u /\ ~defs[t].members[i].type.ptr

NoSelfContainment ==
    \A group \in (SUBSET Tags) \ {{}} :
        \E t \in group : \A u \in group : ~Contains(t, u)

\* A complete definition never changes, even when the same tag is defined
\* again inside its own body (redefinition check of complete_struct).
DefinitionsPermanent ==
    [][\A t \in Tags : Defined(t) => defs'[t] = defs[t]]_vars

\* "Identity of a struct definition, shared by qualified copies": a qualified
\* struct type is the same type as its tag, whenever the copy was made
\* (with_quals, struct_id).
QualifiedCopiesShareIdentity ==
    \A i \in 1 .. Len(objects) :
        objects[i].stale => ~Defined(objects[i].base)
================================================================================
