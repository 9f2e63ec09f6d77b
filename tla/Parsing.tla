------------------------------ MODULE Parsing ------------------------------
(***************************************************************************)
(* A program is written in some layout and parsed.  The grammar says what  *)
(* the parser has to find: the tree that was written, or an error.         *)
(***************************************************************************)
EXTENDS Naturals, Sequences, Functions

CONSTANTS Programs,         \* families (sequences) of programs [body, module]
          Layouts(_),       \* the layouts in which a program is written
          Parse(_, _),      \* what the parser returns for a program in a layout
          Expected(_)       \* what the grammar says of a program

VARIABLES program, layout, outcome

vars == <<program, layout, outcome>>

NotYet == [line |-> "none", i |-> 0]

Init == /\ \E i \in DOMAIN Programs : program \in Range(Programs[i])
        /\ layout = NotYet /\ outcome = NotYet

Next == /\ layout = NotYet
        /\ \E l \in Layouts(program) : layout' = l /\ outcome' = Parse(program, l)
        /\ UNCHANGED program
Spec == Init /\ [][Next]_vars

Parsed == layout # NotYet

\* A program of the language gives the tree it was written from, with the var declarations,
\* module entries and top-level await that it has, wherever there are line breaks that do
\* not end a statement, and whether its statements end in semicolons or are ended by
\* parseStatement's automatic insertion (insertSemicolon, implicitSemicolon).
Parses == Parsed /\ layout.line = "harmless" /\ Expected(program).legal => outcome = Expected(program).outcome

\* Whatever breaks a rule of the grammar that the parser is in charge of (where break,
\* return, await, yield, declarations and exports may be, what can be assigned to, what
\* needs parentheses) is reported, however often the parser went back to read a list
\* again as the parameters of an arrow function.
Rejects == Parsed /\ layout.i = 0 /\ ~Expected(program).legal => outcome.errs

\* A line break after return, break, continue, throw, yield and async, or in front of
\* => and a postfix operator, is a semicolon: the parser finds what it finds there
\* when a semicolon is written.
LineBreakEnds == Parsed /\ layout.line = "restricted" => outcome = Parse(program, [layout EXCEPT !.line = "semicolon"])
=============================================================================
