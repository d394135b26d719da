--------------------------------- MODULE Blocks ---------------------------------
(***************************************************************************)
(* From the ops of a program to its C text: what the semantic analysis        *)
(* accepts, and the blocks of C that are emitted.  Both walk the op lists of  *)
(* one function after the other, main last; an activation is a list at work.  *)
(***************************************************************************)
EXTENDS Parser

VARIABLES
    phase,   \* "check", "rejected", "emit" or "done"
    calls,   \* activations: [at, part, next], the op, its list at work and the
             \* next item of that; while checking loop and switch too
    faulty,  \* errors were reported
    seen,    \* labels and gotos of the body so far
    checked, \* bodies checked
    out,     \* the C text of the body so far
    texts    \* the C texts of the bodies before it

walkVars == <<phase, calls, faulty, seen, checked, out, texts>>
vars == <<parserVars, walkVars>>

Parse == ParserNext /\ UNCHANGED walkVars
Parsed == status = "ended" /\ Len(open) = 1

\* The functions and main, which is no op.
Program == Append(functions, 0)
Kind(at) == IF at = 0 THEN "main" ELSE ops[at].kind
Subs(at) == IF at = 0 THEN open[1].lists ELSE ops[at].subs

Current == Last(calls)
Callers == Front(calls)
List(f) == Subs(f.at)[f.part]
Item == List(Current)[Current.next]
AtItem == calls # <<>> /\ Current.next <= Len(List(Current))
AtEnd == calls # <<>> /\ Current.next > Len(List(Current))
LastList == Current.part = Len(Subs(Current.at))

Advanced == Append(Callers, [Current EXCEPT !.next = @ + 1])
Onward == Append(Callers, [Current EXCEPT !.part = @ + 1, !.next = 1])

--------------------------------------------------------------------------------
(* Semantic analysis.  The checks of the ops and the collection of labels,    *)
(* which only add to the errors, are one walk here.  (Definitions marked      *)
(* "defect" are variants the properties are checked against.)                 *)

Checking(at, loop, switch) ==
    [at |-> at, part |-> 1, next |-> 1, loop |-> loop, switch |-> switch]

\* What holds of the ops in the list at work.
InLoop == Current.loop \/ Kind(Current.at) \in Loops
InSwitch == Current.switch \/ (Kind(Current.at) = "switch {" /\ Current.part > 1)

Wrong(op) ==
    \/ op.kind = "<" /\ ~InLoop /\ ~InSwitch
    \/ op.kind = ">" /\ ~InLoop
    \/ op.kind = ".1" /\ functions = <<>>
    \/ op.kind \in Loops /\ op.subs[1] = <<>>
    \/ op.kind = "switch {" /\ ~IsInjective(op.labels)
    \/ op.kind = "label L;" /\ op.kind \in seen

SharedLabels == seen   \* defect: one set of labels for all bodies
NoLabels == {}

CheckBody ==
    /\ Parsed /\ phase = "check" /\ calls = <<>> /\ checked < Len(Program)
    /\ calls' = <<Checking(Program[checked + 1], FALSE, FALSE)>>
    /\ seen' = NoLabels
    /\ UNCHANGED <<parserVars, phase, faulty, checked, out, texts>>

CheckOp ==
    /\ phase = "check" /\ AtItem
    /\ LET op == ops[Item] IN
        /\ faulty' = (faulty \/ Wrong(op))
        /\ seen' = seen \cup ({op.kind} \cap {"goto L;", "label L;"})
        /\ calls' = IF op.subs = <<>>
                    THEN Advanced
                    ELSE Append(Advanced, Checking(Item, InLoop, InSwitch))
    /\ UNCHANGED <<parserVars, phase, checked, out, texts>>

CheckNextList ==
    /\ phase = "check" /\ AtEnd /\ ~LastList
    /\ calls' = Onward
    /\ UNCHANGED <<parserVars, phase, faulty, seen, checked, out, texts>>

CheckReturn ==
    /\ phase = "check" /\ AtEnd /\ LastList
    /\ calls' = Callers
    /\ IF Callers = <<>>
       THEN /\ faulty' = (faulty \/ ("goto L;" \in seen /\ "label L;" \notin seen))
            /\ checked' = checked + 1
       ELSE UNCHANGED <<faulty, checked>>
    /\ UNCHANGED <<parserVars, phase, seen, out, texts>>

Analysed ==
    /\ Parsed /\ phase = "check" /\ calls = <<>> /\ checked = Len(Program)
    /\ phase' = IF faulty THEN "rejected" ELSE "emit"
    /\ UNCHANGED <<parserVars, calls, faulty, seen, checked, out, texts>>

--------------------------------------------------------------------------------
(* Code generation.  A C text is a sequence of statements, case labels and    *)
(* braces, which know the construct and the list of it they were made for.    *)

Piece(c, kind, at, part) == [c |-> c, kind |-> kind, at |-> at, part |-> part]
Brace(kind, at, part) == Piece("{", kind, at, part)
End == Piece("}", "block", 0, 0)

Emitting(at) == [at |-> at, part |-> 1, next |-> 1]

\* In front of an op's lists, between two of them and behind.
BlockFirst(at) == Brace("switch {", at, 1)   \* defect: the scrutinee is inside
ScrutineeFirst(at) == Brace("block", at, 1)

Opener(at) ==
    LET kind == Kind(at) IN
    IF kind \in {"30", "("} THEN <<Brace("loop", at, 1)>>
    ELSE IF kind = "50" THEN <<Brace("block", at, 0), Brace("loop", at, 1)>>
    ELSE IF kind \in {"20", "a[", "a="} THEN <<Brace("block", at, 0), Brace("block", at, 1)>>
    ELSE IF kind = "int a=" THEN <<Brace("block", at, 1)>>
    ELSE IF kind = "switch {" THEN <<ScrutineeFirst(at)>>
    ELSE IF kind = "sizeof a[" THEN <<>>
    ELSE <<Piece("stmt", kind, at, 0)>>

Switch(at, part) == IF part = 1 THEN <<Brace("switch {", at, 1)>> ELSE <<>>

ElseInside(at, part) ==   \* defect: the then block is still open
    IF Kind(at) = "switch {"
    THEN Append(Switch(at, part), Piece("case", ops[at].labels[part], at, part + 1))
    ELSE <<Brace("block", at, part + 1)>>
Between(at, part) ==
    IF Kind(at) = "switch {"
    THEN Append(Switch(at, part), Piece("case", ops[at].labels[part], at, part + 1))
    ELSE <<End, Brace("block", at, part + 1)>>

Closer(at, part) ==
    LET kind == Kind(at) IN
    IF kind \in {"30", "(", "int a=", "/1", "main"} THEN <<End>>
    ELSE IF kind = "switch {" THEN Switch(at, part) \o <<End, End>>
    ELSE <<End, End>>

EmitBody ==
    /\ phase = "emit" /\ calls = <<>> /\ Len(texts) < Len(Program)
    /\ LET at == Program[Len(texts) + 1] IN
        /\ calls' = <<Emitting(at)>>
        /\ out' = <<Brace("block", at, 1)>>
    /\ UNCHANGED <<parserVars, phase, faulty, seen, checked, texts>>

EmitOp ==
    /\ phase = "emit" /\ AtItem
    /\ out' = out \o Opener(Item)
    /\ calls' = IF ops[Item].subs = <<>> \/ Kind(Item) = "sizeof a["
                THEN Advanced
                ELSE Append(Advanced, Emitting(Item))
    /\ UNCHANGED <<parserVars, phase, faulty, seen, checked, texts>>

EmitNextList ==
    /\ phase = "emit" /\ AtEnd /\ ~LastList
    /\ out' = out \o Between(Current.at, Current.part)
    /\ calls' = Onward
    /\ UNCHANGED <<parserVars, phase, faulty, seen, checked, texts>>

EmitReturn ==
    /\ phase = "emit" /\ AtEnd /\ LastList
    /\ calls' = Callers
    /\ LET all == out \o Closer(Current.at, Current.part) IN
        IF Callers = <<>>
        THEN out' = <<>> /\ texts' = Append(texts, all)
        ELSE out' = all /\ UNCHANGED texts
    /\ UNCHANGED <<parserVars, phase, faulty, seen, checked>>

Emitted ==
    /\ phase = "emit" /\ calls = <<>> /\ Len(texts) = Len(Program)
    /\ phase' = "done"
    /\ UNCHANGED <<parserVars, calls, faulty, seen, checked, out, texts>>

Init ==
    /\ ParserInit
    /\ phase = "check" /\ calls = <<>> /\ faulty = FALSE /\ seen = {}
    /\ checked = 0 /\ out = <<>> /\ texts = <<>>

Next ==
    \/ Parse
    \/ CheckBody \/ CheckOp \/ CheckNextList \/ CheckReturn \/ Analysed
    \/ EmitBody \/ EmitOp \/ EmitNextList \/ EmitReturn \/ Emitted

Spec == Init /\ [][Next]_vars

--------------------------------------------------------------------------------
(* What is in a body, and what the rules of the README allow there.           *)

\* The constructs around a position, from the body it is in; the function or main.
Function(j) == Len(Around(j)) > 1 /\ Around(j)[2].kind = "/1"
Within(j) == IF Function(j) THEN Tail(Around(j)) ELSE Around(j)
OpsOf(body) == {j \in Starts \ Definitions : Within(j)[1].at = body}

Enclosed(j, kinds) == \E i \in DOMAIN Around(j) : Around(j)[i].kind \in kinds

Allowed(body) ==
    \A j \in OpsOf(body) :
        /\ text[j] = "<" => Enclosed(j, Loops \cup {"switch {"})
        /\ text[j] = ">" => Enclosed(j, Loops)
        /\ text[j] = ".1" => Definitions # {}
        /\ text[j] \in Loops => Under(j, 1) # {}
        /\ text[j] = "goto L;" => \E k \in OpsOf(body) : text[k] = "label L;"
        /\ text[j] = "label L;" => \A k \in OpsOf(body) : text[k] = text[j] => k = j

CasesDiffer ==
    \A j, k \in DOMAIN text :
        text[j] \in Labels /\ text[k] = text[j] /\ Innermost(k).at = Innermost(j).at => k = j

\* The semantic analysis is exact: it accepts the programs whose jumps have a
\* construct to leave or a label in their own function to reach, whose calls have
\* a function, whose loops have a body and whose labels differ.
SemaExact ==
    phase # "check" =>
        (phase # "rejected" <=>
            CasesDiffer /\ \A b \in DOMAIN Program : Allowed(Program[b]))

--------------------------------------------------------------------------------
(* What a C text means by the rules of C.                                     *)

Reading(braces, piece) ==
    IF piece.c = "{" THEN Append(braces, piece)
    ELSE IF piece.c = "}" THEN Front(braces)
    ELSE IF piece.c = "case" THEN Append(Front(braces), [Last(braces) EXCEPT !.part = piece.part])
    ELSE braces

\* The braces open in front of each piece, case groups with their part.
Enclosing(c) ==
    LET braces[j \in 1 .. Len(c) + 1] ==
            IF j = 1 THEN <<>> ELSE Reading(braces[j - 1], c[j - 1])
    IN  braces

\* The part of each construct that something with these braces is in.
Situation(braces) ==
    {<<braces[i].at, braces[i].part>> : i \in
        {i \in DOMAIN braces : \A k \in DOMAIN braces : braces[k].at = braces[i].at => k <= i}}

Statements(c) == {j \in DOMAIN c : c[j].c = "stmt"}
CaseLabels(c) == {j \in DOMAIN c : c[j].c = "case"}

\* Every operation has its statement in the text of its function, once, in the
\* order of the program and in the part of the constructs it was written in, and
\* every case label its own (except in the operand of sizeof, which has no code):
\* codegen_c.py:726-813.
HasCode(j) == ~Enclosed(j, {"sizeof a["})
Coded(body) == {j \in OpsOf(body) : text[j] \in Plain \cup {"/1"} /\ HasCode(j)}
Cases(body) == {j \in DOMAIN text : text[j] \in Labels /\ Within(j)[1].at = body /\ HasCode(j)}

NestingKept ==
    \A b \in DOMAIN texts :
        LET c == texts[b]
            enclosing == Enclosing(c)
        IN  /\ {<<c[j].kind, c[j].at, Situation(enclosing[j])>> : j \in Statements(c)}
                 = {<<text[j], j, {<<e.at, e.part>> : e \in Range(Within(j))}>> : j \in Coded(Program[b])}
            /\ \A i, j \in Statements(c) : i < j => c[i].at < c[j].at
            /\ {<<c[j].kind, c[j].at, c[j].part>> : j \in CaseLabels(c)}
                 = {<<text[j], Innermost(j).at, Innermost(j).part + 1>> : j \in Cases(Program[b])}

\* "<" and ">" leave or continue the construct the text says: the innermost
\* loop, or, for "<", switch whose groups they are in (codegen_c.py:548-564).
Target(seq, kinds) ==
    {seq[i].at : i \in {i \in DOMAIN seq :
        seq[i].kind \in kinds /\ \A k \in DOMAIN seq : k > i => seq[k].kind \notin kinds}}

JumpsBind ==
    \A b \in DOMAIN texts : \A j \in Statements(texts[b]) :
        LET p == texts[b][j]
            left == Loops \cup {"loop"} \cup IF p.kind = "<" THEN {"switch {"} ELSE {}
        IN  p.kind \in {"<", ">"} =>
              /\ Target(Enclosing(texts[b])[j], left) # {}
              /\ Target(Enclosing(texts[b])[j], left) = Target(Around(p.at), left)

\* Activations are nested like the ops they are at work on, and what they do
\* next is inside their list.
TypeOK ==
    /\ ParserTypeOK
    /\ phase \in {"check", "rejected", "emit", "done"}
    /\ ~Parsed => phase = "check" /\ calls = <<>>
    /\ \A i \in DOMAIN calls :
         LET f == calls[i] IN
         /\ f.at \in {0} \cup DOMAIN ops
         /\ f.part \in DOMAIN Subs(f.at) /\ f.next \in 1 .. Len(List(f)) + 1
         /\ i > 1 => f.at = List(calls[i - 1])[calls[i - 1].next - 1]
    /\ checked \in 0 .. Len(Program) /\ Len(texts) <= Len(Program)
    /\ calls # <<>> => calls[1].at = Program[1 + IF phase = "check" THEN checked ELSE Len(texts)]
    /\ faulty \in BOOLEAN /\ seen \subseteq {"goto L;", "label L;"}
================================================================================
