--------------------------------- MODULE Parser ---------------------------------
(***************************************************************************)
(* The block structure the parser finds in a program: what it takes as the    *)
(* body of a condition, a loop, a switch, a function, a subscript or an       *)
(* assignment.  Tokens are classes, and names, numbers and labels are one of  *)
(* each: "goto L;" stands for three tokens, "a[" for a name and "[", "]=" for *)
(* "]" and "=", "]()" for "]", "(" and ")", which call through the element.   *)
(* An op is known by where its text starts.                                  *)
(***************************************************************************)
EXTENDS Integers, FiniteSets, Sequences, SequencesExt

CONSTANT
    Vocabularies \* bound: the texts considered, [supply, length]: how often each
                 \* token may occur, and the number of tokens

\* Operations without a structure of their own: "op" any of them, "28.0", calls
\* through a name and the like included, but no bare name in front of "(" (that
\* is such a call); "28" where it is not a separator.
Plain == {"op", "28", "<", ">", "goto L;", "label L;", ".1"}
Loops == {"30", "50", "("}
Objects == {"a[", "sizeof a["}
Values == {"a=", "int a="}
Bodies == {"20", "30", "50", "/1"}
Opening == Bodies \cup Values \cup Objects \cup {"switch", "("}
Labels == {"case 1", "case 2", "default"}
Ending == {";", ")", "]", "][", "]=", "]()", "{", "}"} \cup Labels

ASSUME VocabulariesAssumption ==
    \A v \in Vocabularies :
        /\ DOMAIN v.supply \subseteq Plain \cup Opening \cup Ending
        /\ \A t \in DOMAIN v.supply : v.supply[t] \in Nat
        /\ v.length \in Nat

Tokens == UNION {DOMAIN v.supply : v \in Vocabularies}

VARIABLES
    text,        \* tokens read so far
    open,        \* constructs being parsed, the program outermost:
                 \* [kind, at, labels, lists], lists the op lists of the
                 \* construct so far and labels those of its case groups
    ops,         \* the ops that are complete: [kind, labels, subs], subs the
                 \* nested op lists
    functions,   \* functions parsed
    status       \* "parsing", "ended" or "error"

parserVars == <<text, open, ops, functions, status>>

Top == Last(open)
Outer == Front(open)
Here == Len(text) + 1

Op(kind, labels, subs) == [kind |-> kind, labels |-> labels, subs |-> subs]
Construct(kind, lists) == [kind |-> kind, at |-> Here, labels |-> <<>>, lists |-> lists]

\* An op joins the program: the list of the construct around it gets it.
Record(at, op) == ops' = [p \in DOMAIN ops \cup {at} |-> IF p = at THEN op ELSE ops[p]]
AppendToFirst(f, at) == [f EXCEPT !.lists[1] = Append(@, at)]   \* defect: the condition
AppendOp(f, at) == [f EXCEPT !.lists[Len(f.lists)] = Append(@, at)]
NextList == [Top EXCEPT !.lists = Append(@, <<>>)]
Filled == Last(Top.lists) # <<>>

\* The construct is complete and becomes an op of the one around it.
Close ==
    /\ Record(Top.at, Op(Top.kind, Top.labels, Top.lists))
    /\ IF Top.kind = "/1"
       THEN open' = Outer /\ functions' = Append(functions, Top.at)
       ELSE /\ open' = Append(Front(Outer), AppendOp(Last(Outer), Top.at))
            /\ UNCHANGED functions

\* A subscripted name with nothing behind it yet: "(" calls through it and must
\* have ")" behind it, which is the token "]()", so another "(" is an error.
Callable ==
    /\ text # <<>> /\ Last(text) = "]"
    /\ ops[Last(Last(Top.lists))].kind = "a["

\* What the parser requires of the next token, given the construct it is in.
Fits(t) ==
    /\ Top.kind = "switch {" /\ Top.labels = <<>> => t \in Labels \cup {"}"}
    /\ t = ")" => Top.kind = "("
    /\ t \in {"]", "]["} => Top.kind \in Objects /\ Filled
    /\ t \in {"]=", "]()"} => Top.kind = "a[" /\ Filled
    /\ t = "(" => ~Callable
    /\ t = "{" => Top.kind = "switch" /\ Filled
    /\ t \in Labels \cup {"}"} => Top.kind = "switch {"
    /\ t = "default" => ~Contains(Top.labels, t)
    /\ t = ";" /\ Top.kind \in Values => Filled

\* bound: no braces around the value of a declaration (InitPlan has those).
ValueInBraces == text # <<>> /\ Last(text) = "int a="

Written(t) == Cardinality({i \in DOMAIN text : text[i] = t})
Available(t) ==
    /\ status = "parsing"
    /\ t = "{" => ~ValueInBraces
    /\ \E v \in Vocabularies :
         /\ Here <= v.length
         /\ Range(text) \cup {t} \subseteq DOMAIN v.supply
         /\ \A u \in Range(text) \ {t} : Written(u) <= v.supply[u]
         /\ Written(t) < v.supply[t]

Read(t) ==
    /\ Available(t) /\ Fits(t)
    /\ text' = Append(text, t)
    /\ UNCHANGED status

Mismatch(t) ==
    /\ Available(t) /\ ~Fits(t)
    /\ text' = Append(text, t)
    /\ status' = "error"
    /\ UNCHANGED <<open, ops, functions>>

--------------------------------------------------------------------------------
(* (Definitions marked "defect" are variants the properties are checked       *)
(* against.)                                                                 *)

\* 28 at the top of a then-body starts the else body; anywhere else it is a
\* number.
Separator == Top.kind = "20" /\ Len(Top.lists) = 1

Else ==
    /\ Separator /\ Read("28")
    /\ open' = Append(Outer, NextList)
    /\ UNCHANGED <<ops, functions>>

\* Functions are defined at the top of the program only: elsewhere "/1" is a
\* division and a number.
DefinesAnywhere(t) == t = "/1"   \* defect
Defines(t) == t = "/1" /\ Len(open) = 1

PlainOp(t) ==
    /\ t \in Plain \/ (t = "/1" /\ ~Defines(t))
    /\ ~(t = "28" /\ Separator)
    /\ Read(t)
    /\ Record(Here, Op(t, <<>>, <<>>))
    /\ open' = Append(Outer, AppendOp(Top, Here))
    /\ UNCHANGED functions

Begin(t) ==
    /\ t \in Opening /\ (t = "/1" => Defines(t))
    /\ Read(t)
    /\ open' = Append(open, Construct(t, <<<<>>>>))
    /\ UNCHANGED <<ops, functions>>

\* ";" ends bodies and values; elsewhere it is skipped, in a do-while, a
\* subscript or a switch as at the top of the program.
Semicolon ==
    /\ Read(";")
    /\ IF Top.kind \in Bodies \cup Values THEN Close ELSE UNCHANGED <<open, ops, functions>>

EndConstruct(t) ==
    /\ t \in {")", "]", "]()", "}"}
    /\ Read(t)
    /\ Close

\* More subscripts, or the assignment they belong to.
EndIndex(t) ==
    /\ t \in {"][", "]="}
    /\ Read(t)
    /\ open' = Append(Outer, [NextList EXCEPT !.kind = IF t = "]=" THEN "a=" ELSE @])
    /\ UNCHANGED <<ops, functions>>

OpenSwitch ==
    /\ Read("{")
    /\ open' = Append(Outer, [Top EXCEPT !.kind = "switch {"])
    /\ UNCHANGED <<ops, functions>>

CaseLabel(t) ==
    /\ t \in Labels
    /\ Read(t)
    /\ open' = Append(Outer, [NextList EXCEPT !.labels = Append(@, t)])
    /\ UNCHANGED <<ops, functions>>

EndOfText ==
    /\ status = "parsing"
    /\ status' = "ended"
    /\ UNCHANGED <<text, open, ops, functions>>

\* Bodies end with the text as well; the rest must be complete.
CloseAtEnd ==
    /\ status = "ended" /\ Len(open) > 1
    /\ IF Top.kind \in Bodies
       THEN Close /\ UNCHANGED status
       ELSE status' = "error" /\ UNCHANGED <<open, ops, functions>>
    /\ UNCHANGED text

ParserInit ==
    /\ text = <<>>
    /\ open = <<[kind |-> "main", at |-> 0, labels |-> <<>>, lists |-> <<<<>>>>]>>
    /\ ops = <<>>
    /\ functions = <<>>
    /\ status = "parsing"

ParserNext ==
    \/ \E t \in Tokens :
         \/ PlainOp(t) \/ Begin(t) \/ EndConstruct(t) \/ EndIndex(t) \/ CaseLabel(t)
         \/ Mismatch(t)
    \/ Else \/ Semicolon \/ OpenSwitch
    \/ EndOfText \/ CloseAtEnd

ParserSpec == ParserInit /\ [][ParserNext]_parserVars

--------------------------------------------------------------------------------
(* What the tokens in front of a position mean by the rules of the README:    *)
(* the constructs they leave open, each with the part of it that the position *)
(* is in.                                                                    *)

Ends(kind) ==
    IF kind \in Bodies \cup Values THEN {";"}
    ELSE IF kind = "(" THEN {")"}
    ELSE IF kind = "a[" THEN {"]", "]()"}
    ELSE IF kind = "sizeof a[" THEN {"]"}
    ELSE {"}"}

Entry(kind, at, part) == [kind |-> kind, at |-> at, part |-> part]

Meaning(around, t, j) ==
    LET top == Last(around)
        Now(kind, part) == Append(Front(around), Entry(kind, top.at, part))
    IN  IF t \in Opening /\ (t = "/1" => Len(around) = 1) THEN Append(around, Entry(t, j, 1))
        ELSE IF Len(around) > 1 /\ t \in Ends(top.kind) THEN Front(around)
        ELSE IF t = "28" /\ top.kind = "20" /\ top.part = 1 THEN Now("20", 2)
        ELSE IF t = "][" \/ t \in Labels THEN Now(top.kind, top.part + 1)
        ELSE IF t = "]=" THEN Now("a=", top.part + 1)
        ELSE IF t = "{" THEN Now("switch {", top.part)
        ELSE around

\* By position, up to the one behind the text.
Readings(txt) ==
    LET around[j \in 1 .. Len(txt) + 1] ==
            IF j = 1 THEN <<Entry("main", 0, 1)>> ELSE Meaning(around[j - 1], txt[j - 1], j - 1)
    IN  around
Around(j) == Readings(text)[j]
Innermost(j) == Last(Around(j))

\* The positions where an op starts, those of an op list, and functions.
Starts ==
    {j \in DOMAIN text :
        /\ text[j] \in Plain \cup Opening
        /\ ~(text[j] = "28" /\ Innermost(j).kind = "20" /\ Innermost(j).part = 1)}
Definitions == {j \in Starts : text[j] = "/1" /\ Len(Around(j)) = 1}
Under(at, part) ==
    {j \in Starts \ Definitions : Innermost(j).at = at /\ Innermost(j).part = part}

\* Types, and the shape of what is being parsed: functions are nowhere inside
\* another construct, and every construct has an op list to add to and as many
\* as its kind can have.
Kinds == Opening \cup {"main", "switch {"}
Parts == Seq(Seq(Nat))
Constructs == [kind : Kinds, at : Nat, labels : Seq(Labels), lists : Parts]
Ops == [kind : Kinds \cup Plain, labels : Seq(Labels), subs : Parts]

Shaped(kind, labels, lists) ==
    /\ lists # <<>>
    /\ kind = "switch {" => Len(lists) = Len(labels) + 1
    /\ kind # "switch {" => labels = <<>>
    /\ kind = "20" => Len(lists) <= 2
    /\ kind \notin Objects \cup {"20", "a=", "switch {"} => Len(lists) = 1

ParserTypeOK ==
    /\ text \in Seq(Tokens)
    /\ status \in {"parsing", "ended", "error"}
    /\ open \in Seq(Constructs) /\ open # <<>>
    /\ \A i \in DOMAIN open :
         /\ Shaped(open[i].kind, open[i].labels, open[i].lists)
         /\ open[i].kind = "main" <=> i = 1
         /\ open[i].kind = "/1" => i = 2
    /\ ops \in [DOMAIN ops -> Ops]
    /\ \A p \in DOMAIN ops : ops[p].subs # <<>> => Shaped(ops[p].kind, ops[p].labels, ops[p].subs)
    /\ functions \in Seq(DOMAIN ops)
    /\ \A f \in DOMAIN functions : ops[functions[f]].kind = "/1" /\ ops[functions[f]].subs # <<>>

\* The constructs the parser has open are those the text leaves open, at the same
\* part, and every op list, complete or not, has the ops of its part of the text
\* in their order, except those that are still open.  No separator, skipped
\* semicolon or end of the text moves, drops or repeats an op.
Ascending(list) == \A i, j \in DOMAIN list : i < j => list[i] < list[j]
Unfinished == {open[i].at : i \in DOMAIN open}
Lists(list, at, part) == Ascending(list) /\ Range(list) = Under(at, part) \ Unfinished

OpsByRules ==
    status # "error" =>
        /\ Len(open) <= Len(Around(Here))
        /\ status = "parsing" => Len(open) = Len(Around(Here))
        /\ \A i \in DOMAIN open :
             /\ Around(Here)[i] = Entry(open[i].kind, open[i].at, Len(open[i].lists))
             /\ \A k \in DOMAIN open[i].lists : Lists(open[i].lists[k], open[i].at, k)
        /\ DOMAIN ops = Starts \ Unfinished
        /\ \A p \in DOMAIN ops : \A k \in DOMAIN ops[p].subs : Lists(ops[p].subs[k], p, k)
        /\ Ascending(functions) /\ Range(functions) = Definitions \ Unfinished

\* "(" behind a subscripted name calls through it ("tab[i]()" of the README):
\* it never is a do-while.
CallsByRules ==
    status # "error" =>
        \A j \in DOMAIN text :
            text[j] = "(" /\ j > 1 /\ text[j - 1] = "]" => Innermost(j - 1).kind # "a["

\* The parser reads texts by the rules.
ParsedByRules == OpsByRules /\ CallsByRules
================================================================================
