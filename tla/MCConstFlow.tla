------------------------------ MODULE MCConstFlow ------------------------------
(***************************************************************************)
(* Objects are paths from a declared name.  The structs have a plain member, *)
(* a const member one level down, and const elements of a member array.        *)
(***************************************************************************)
EXTENDS ConstFlow

Plain(b, q) == [base |-> b, quals |-> q, array |-> FALSE]
C == TRUE
V == FALSE

MCBaseTypes == {"int", "S", "Inner", "Outer", "A", Func}
MCStructs == {"S", "Inner", "Outer", "A"}
MCMemberType ==
    [S |-> [m |-> Plain("int", <<V>>)],
     Inner |-> [k |-> Plain("int", <<C>>)],
     Outer |-> [n |-> Plain("Inner", <<V>>)],
     A |-> [e |-> [base |-> "int", quals |-> <<C>>, array |-> TRUE]]]
MCMembers == [s \in MCStructs |-> DOMAIN MCMemberType[s]]
MCNested == [S |-> {"S"}, Inner |-> {"Inner"}, Outer |-> {"Outer", "Inner"}, A |-> {"A"}]

Names ==
    [c  |-> Plain("int", <<C>>),    q  |-> Plain("int", <<C, V>>),
     cp |-> Plain("int", <<V, C>>), p  |-> Plain("int", <<V, V>>),
     pp |-> Plain("int", <<V, V, V>>),
     cs |-> Plain("S", <<C>>),      st |-> Plain("S", <<V>>),
     sp |-> Plain("S", <<V, C>>),
     u  |-> Plain("Outer", <<V>>),  v  |-> Plain("Outer", <<V>>),
     a  |-> Plain("A", <<V>>),      f  |-> Plain(Func, <<V, V>>)]

\* Each object <<path, type>> with its members or elements, two levels down.
Parts(e) ==
    IF IsStruct(e[2])
    THEN {<<Append(e[1], m), WithQuals(MCMemberType[e[2].base][m], IsConst(e[2]))>> :
            m \in MCMembers[e[2].base]}
    ELSE IF e[2].array THEN {<<Append(e[1], i), TargetOf(e[2])>> : i \in {"[0]", "[1]"}} ELSE {}

Level0 == {<<<<x>>, Names[x]>> : x \in DOMAIN Names}
Level1 == UNION {Parts(e) : e \in Level0}
Level2 == UNION {Parts(e) : e \in Level1}
Layout == Level0 \cup Level1 \cup Level2
MCObjects == {e[1] : e \in Layout}
MCRoots == {<<x>> : x \in DOMAIN Names}
MCDeclaredType == [o \in MCObjects |-> (CHOOSE e \in Layout : e[1] = o)[2]]
MCField == [o \in MCObjects |-> [m \in UNION {MCMembers[s] : s \in MCStructs} |-> Append(o, m)]]
MCElements == [o \in MCObjects |-> {Append(o, "[0]"), Append(o, "[1]")}]

Scalar(o) == ~MCDeclaredType[o].array /\ ~IsStruct(MCDeclaredType[o])
MCLeaves ==
    [d \in MCObjects |-> {c \in MCObjects :
        Scalar(c) /\ Len(c) >= Len(d) /\ SubSeq(c, 1, Len(d)) = d}]
MCTwin(d, s, c) == s \o SubSeq(c, Len(d) + 1, Len(c))

MCZero == <<>>
MCNumbers == {MCZero, <<"1">>}
MCFunctions == {<<"fn">>}
MCInitial == [o \in {d \in MCObjects : Scalar(d)} |->
              IF o = <<"v", "n", "k">> THEN <<"1">>
              ELSE IF o = <<"q">> THEN <<"st", "m">> ELSE MCZero]
================================================================================
