-------------------------------- MODULE MCBlocks --------------------------------
(* Instances of Blocks: texts over small sets of tokens.                     *)
EXTENDS Blocks

Texts(tokens, twice, length) ==
    [supply |-> [t \in tokens |-> IF t \in twice THEN 2 ELSE 1], length |-> length]

\* Every construct, with the tokens that could end or divide another one; jumps
\* and what they leave; case labels; labels and calls across bodies.  (sizeof only
\* without jumps: the analysis refuses them there although they have no code.)
Nesting ==
    Texts({"op", "28", "20", "30", "(", ")", ";", "a[", "sizeof a[", "][", "]=", "]()", "]"},
          {"28", ";"}, 5)
Jumps == Texts({"30", "50", ";", "switch", "{", "}", "case 1", "<", ">"}, {";"}, 7)
Switches ==
    Texts({"switch", "op", "{", "}", "case 1", "case 2", "default", "<"}, {"case 1", "default"}, 7)
Bodied ==
    Texts({"/1", ".1", "goto L;", "label L;", "op", ";", "int a="},
          {"goto L;", "label L;", ";"}, 6)
Structured == {Nesting, Jumps, Switches, Bodied}
================================================================================
