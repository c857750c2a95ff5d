---------------------------- MODULE Preprocessor ----------------------------
(***************************************************************************)
(* _select_known_preprocessor_branches: goes through the lines of a text   *)
(* once and keeps those that the conditionals around them select.  Of a    *)
(* conditional on a symbol whose value is known one branch is kept, of any *)
(* other both.                                                             *)
(*                                                                         *)
(* A line is a record: [directive |-> "if", symbol |-> s], "else",         *)
(* "endif", or "none" with whatever the line holds.                        *)
(***************************************************************************)
EXTENDS Integers, Sequences, FiniteSets

CONSTANT Symbols    \* the known symbols: a function to their values

ASSUME SymbolsAssumption == Symbols \in [DOMAIN Symbols -> BOOLEAN]

VARIABLES
    text,       \* the lines
    line,       \* number of the line to look at
    stack,      \* stack: frames [parent, else], the innermost last
    active,     \* active
    output      \* the numbers of the lines kept

preprocessorVars == <<text, line, stack, active, output>>

Directive == text[line].directive
Innermost == stack[Len(stack)]
Outer == SubSeq(stack, 1, Len(stack) - 1)

\* What a text starts with.
Begin(lines) ==
    /\ text = lines
    /\ line = 1
    /\ stack = <<>>
    /\ active = TRUE
    /\ output = {}

BeginNext(lines) ==
    /\ text' = lines
    /\ line' = 1
    /\ stack' = <<>>
    /\ active' = TRUE
    /\ output' = {}

IfLine ==
    /\ Directive = "if"
    /\ LET s == text[line].symbol
           known == s \in DOMAIN Symbols
       IN /\ active' = (active /\ (known => Symbols[s]))
          /\ stack' = Append(stack, [parent |-> active,
                                     else |-> active /\ (known => ~Symbols[s])])
    /\ UNCHANGED output

\* Fault: an inner #else is kept inside a branch that is not.
ElseLineAlone ==
    /\ Directive = "else"
    /\ stack # <<>>
    /\ active' = (Innermost.else \/ ~Innermost.parent)
    /\ UNCHANGED <<stack, output>>

ElseLine ==
    /\ Directive = "else"
    /\ stack # <<>>
    /\ active' = (Innermost.parent /\ Innermost.else)
    /\ UNCHANGED <<stack, output>>

EndifLine ==
    /\ Directive = "endif"
    /\ stack # <<>>
    /\ active' = Innermost.parent
    /\ stack' = Outer
    /\ UNCHANGED output

\* Any other line, an #else or #endif without #if among them.
OtherLine ==
    /\ Directive # "if"
    /\ Directive \in {"else", "endif"} => stack = <<>>
    /\ output' = IF active THEN output \cup {line} ELSE output
    /\ UNCHANGED <<stack, active>>

SelectLine ==
    /\ line <= Len(text)
    /\ IfLine \/ ElseLine \/ EndifLine \/ OtherLine
    /\ line' = line + 1
    /\ UNCHANGED text

------------------------------------------------------------------------------
(* What the pass is for, said without a stack: which lines of a text its    *)
(* conditionals select, however they are nested and wherever a stray #else  *)
(* or #endif stands.                                                        *)

CountOf(t, directive, from, to) ==
    Cardinality({k \in from..to : t[k].directive = directive})

\* How many conditionals opened after line i are open at line k; negative when
\* the one at line i is closed.
Level(t, i, k) == CountOf(t, "if", i + 1, k) - CountOf(t, "endif", i + 1, k)

\* The #if at line i is still open at line j, and its #else lies between.
Encloses(t, i, j) ==
    /\ t[i].directive = "if"
    /\ \A k \in (i + 1)..j : Level(t, i, k) >= 0
ElseBetween(t, i, j) ==
    \E k \in (i + 1)..(j - 1) : t[k].directive = "else" /\ Level(t, i, k) = 0

Selected(t, j) ==
    \A i \in 1..(j - 1) :
        Encloses(t, i, j) /\ t[i].symbol \in DOMAIN Symbols =>
            (Symbols[t[i].symbol] <=> ~ElseBetween(t, i, j))
==============================================================================
