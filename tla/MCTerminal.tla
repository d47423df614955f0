----------------------------- MODULE MCTerminal -----------------------------
(***************************************************************************)
(* The parts of the terminal for TLC.  They share no state here, so a      *)
(* behaviour exercises one of them, chosen at the start, while the others  *)
(* stay in their first state:                                              *)
(*   ring     the ring buffer under any sequence of reads and writes       *)
(*   input    keys against two readers of the tty and the keyboard device, *)
(*            in a system where one forked child has run                   *)
(*   output   characters and sequences on a screen of two rows             *)
(*   params   sequences with parameters beyond the word size and the limit *)
(***************************************************************************)
EXTENDS RingCalls, TtyInput

VARIABLES
    part,
    s, parser, seq, text            \* see TtyControl

InitialOrder == <<"r1", "r2">>

Out == INSTANCE TtyControl WITH
    Height <- 2, Width <- 2, MaxParams <- 2, Word <- 64, MaxSeq <- 3,
    Input <- {"x", "erase", "newline", "tab", "esc", "[", ";", "2", "H", "J"}

Params == INSTANCE TtyControl WITH
    Height <- 1, Width <- 1, MaxParams <- 2, Word <- 64, MaxSeq <- 5,
    Input <- {"x", "esc", "[", ";", "0", "1", "9", "?", "H", "m"}

outVars == <<s, parser, seq, text>>

TerminalInit ==
    /\ part \in {"ring", "input", "output", "params"}
    /\ RingInit
    /\ Init
    /\ IF part = "params" THEN Params!Init ELSE Out!Init

TerminalNext ==
    \/ part = "ring" /\ RingNext /\ UNCHANGED <<part, vars, outVars>>
    \/ part = "input" /\ Next /\ UNCHANGED <<part, ringVars, outVars>>
    \/ part = "output" /\ Out!Next /\ UNCHANGED <<part, ringVars, vars>>
    \/ part = "params" /\ Params!Next /\ UNCHANGED <<part, ringVars, vars>>

TerminalSpec == TerminalInit /\ [][TerminalNext]_<<part, ringVars, vars, outVars>>

-----------------------------------------------------------------------------
\* The screen shows the text that was written, but for the cell the caret
\* covers, and the numbers of an escape sequence are those of a closed form.
OutputExact ==
    /\ part = "output" => Out!TypeOK /\ Out!ShowsText /\ Out!CaretAtCursor
    /\ part = "params" => Params!ParamsExact
=============================================================================
