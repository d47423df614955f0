----------------------------- MODULE TtyControl -----------------------------
(***************************************************************************)
(* tty_control_write (src/kernel/drivers/tty_control.c): the parser for    *)
(* escape sequences, one character at a time, in front of the terminal.    *)
(* The parser is global: a sequence may be split over writes, and writers  *)
(* and the echo of keys share it, so that the characters of any mix of     *)
(* writers are one stream.                                                 *)
(*                                                                         *)
(* The terminal (the output side of src/kernel/drivers/tty.c) comes first, *)
(* as operators on the state of the screen, a grid of character cells:     *)
(* "ink" where a character other than the space is drawn, "blank" in the   *)
(* background's colour, "caret" where the caret's block covers the cell.   *)
(* The caret keeps what it covers in `under` (bits_under) and puts it      *)
(* back, or not, when it moves.                                            *)
(***************************************************************************)
EXTENDS Integers, Sequences, SequencesExt, FiniteSetsExt

CONSTANTS
    Height, Width,  \* tty.height and tty.width, in cells
    Input,      \* characters written, as strings of length one
    MaxParams,  \* TTY_CONTROL_MAX_PARAMS
    Word,       \* 2^64 in the code
    MaxSeq      \* bound: characters of one sequence

-----------------------------------------------------------------------------
(* The terminal. *)

Cell == (0..Height - 1) \X (0..Width - 1)

\* drawing through vga.c, which leaves out what is not on the screen
Draw(s, cells, content) ==
    [s EXCEPT !.screen = [x \in Cell |-> IF x \in cells THEN content ELSE @[x]]]

\* The cell under the caret is not put back.
BugTerminalCaretSetPos(s, row, col, back) ==
    LET b == [s EXCEPT !.caret.at = <<row, col>>, !.caret.under = s.screen[<<row, col>>]]
    IN  IF ~s.caret.enabled THEN s ELSE Draw(b, {<<row, col>>}, b.caret.colour)

TerminalCaretSetPos(s, row, col, putOldCharacterBack) ==
    LET a == IF putOldCharacterBack THEN Draw(s, {s.caret.at}, s.caret.under) ELSE s
        b == [a EXCEPT !.caret.at = <<row, col>>, !.caret.under = a.screen[<<row, col>>]]
    IN  IF ~s.caret.enabled THEN s ELSE Draw(b, {<<row, col>>}, b.caret.colour)

TerminalCaretEnable(s) ==
    [TerminalCaretSetPos(s, s.caret.at[1], s.caret.at[2], FALSE) EXCEPT !.caret.enabled = TRUE]

TerminalCaretReset(s) == IF s.caret.enabled THEN TerminalCaretEnable(s) ELSE s

TerminalInitialize ==
    TerminalCaretEnable(
        [row |-> 0, col |-> 0, screen |-> [x \in Cell |-> "blank"],
         caret |-> [at |-> <<0, 0>>, enabled |-> TRUE, colour |-> "caret", under |-> "blank"]])

\* The rows move up by one, unless there is only one.
Scroll(s) ==
    IF Height <= 1 THEN s
    ELSE [s EXCEPT !.screen = [x \in Cell |-> IF x[1] < Height - 1 THEN @[<<x[1] + 1, x[2]>>]
                                              ELSE "blank"]]

\* Past the last row: the caret is hidden while the screen scrolls.
ScrollAtEnd(s) ==
    LET hidden == TerminalCaretReset([s EXCEPT !.caret.colour = "blank"])
    IN  [Scroll(hidden) EXCEPT !.row = @ - 1, !.caret.colour = s.caret.colour]

\* The caret stays at the cell that is erased.
BugTerminalErase(s) ==
    LET a == IF s.col = 0 /\ s.row > 0 THEN [s EXCEPT !.col = Width, !.row = @ - 1] ELSE s
        b == Draw(a, {<<a.row, a.col - 1>>}, "blank")
    IN  IF a.col = 0 THEN b ELSE [b EXCEPT !.col = @ - 1]

\* terminal_erase: at the first cell the caret is left disabled.
TerminalErase(s) ==
    LET a == [s EXCEPT !.caret.enabled = FALSE]
        b == IF a.col = 0 /\ a.row > 0 THEN [a EXCEPT !.col = Width, !.row = @ - 1] ELSE a
        c == Draw(b, {<<b.row, b.col - 1>>}, "blank")
        d == TerminalCaretEnable(TerminalCaretReset([c EXCEPT !.col = @ - 1]))
    IN  IF c.col = 0 THEN c ELSE TerminalCaretSetPos(d, d.row, d.col, TRUE)

PutNewline(s) ==
    LET a == [s EXCEPT !.col = 0, !.row = @ + 1]
        b == IF a.row = Height THEN TerminalCaretReset(ScrollAtEnd(a)) ELSE a
    IN  TerminalCaretSetPos(b, b.row, b.col, TRUE)

PutGlyph(s, ink) ==
    LET a == [Draw(s, {<<s.row, s.col>>}, ink) EXCEPT !.col = @ + 1]
        b == IF a.col = Width THEN [a EXCEPT !.col = 0, !.row = @ + 1] ELSE a
        c == IF b.row = Height THEN ScrollAtEnd(b) ELSE b
    IN  TerminalCaretSetPos(c, c.row, c.col, FALSE)

\* A tab is one to four spaces, whatever lines they wrap to.
PutTab(s) ==
    FoldLeft(LAMBDA a, i : PutGlyph(a, "blank"), s, [i \in 1..4 - (s.col % 4) |-> i])

TerminalPutchar(s, c) ==
    CASE c = "erase" -> TerminalErase(s)
      [] c = "newline" -> PutNewline(s)
      [] c = "tab" -> PutTab(s)
      [] OTHER -> PutGlyph(s, IF c = " " THEN "blank" ELSE "ink")

AtMost(n, max) == IF n > max THEN max ELSE n

TerminalSetCursorPos(s, row, col) ==
    LET r == AtMost(row, Height - 1)
        c == AtMost(col, Width - 1)
    IN  TerminalCaretSetPos([s EXCEPT !.row = r, !.col = c], r, c, TRUE)

\* terminal_clear_cells, from one cell to another in reading order
Between(from, to) ==
    {x \in Cell : /\ from[1] < x[1] \/ (from[1] = x[1] /\ from[2] <= x[2])
                  /\ x[1] < to[1] \/ (x[1] = to[1] /\ x[2] <= to[2])}

TerminalClearDisplay(s, mode) ==
    LET here == <<s.row, s.col>>
        cells == CASE mode = 0 -> Between(here, <<Height - 1, Width - 1>>)
                   [] mode = 1 -> Between(<<0, 0>>, here)
                   [] mode = 2 -> Cell
    IN  TerminalCaretSetPos(Draw(s, cells, "blank"), s.row, s.col, FALSE)

-----------------------------------------------------------------------------
(* The parser. *)

ParamNone == Word - 1
Alpha == {"H", "J", "f", "m"}
DigitValue == ("0" :> 0) @@ ("1" :> 1) @@ ("2" :> 2) @@ ("9" :> 9)
IsDigit(c) == c \in DOMAIN DigitValue

VARIABLES
    s,      \* the terminal
    parser,
    seq,    \* history: the characters of the sequence since "esc ["
    text    \* history: the text and cursor of a screen without a caret

vars == <<s, parser, seq, text>>

TtyControlReset == [state |-> "TEXT", params |-> <<>>, cur |-> 0, has |-> FALSE, sep |-> FALSE]

TtyControlCsiBegin == [TtyControlReset EXCEPT !.state = "CSI"]

\* A digit that was read before counts for the next parameter too.
BugTtyControlParamPush(p) ==
    [p EXCEPT !.params = IF Len(@) < MaxParams THEN Append(@, IF p.has THEN p.cur ELSE ParamNone)
                         ELSE @,
              !.has = FALSE]

TtyControlParamPush(p) ==
    [p EXCEPT !.params = IF Len(@) < MaxParams THEN Append(@, IF p.has THEN p.cur ELSE ParamNone)
                         ELSE @,
              !.cur = 0, !.has = FALSE]

ParamOrDefault(params, i, default) ==
    IF i > Len(params) THEN default ELSE IF params[i] = ParamNone THEN default ELSE params[i]

\* The position asked for, counted from 1, limited to the screen.
HandleH(params) ==
    LET Limit(n, max) == AtMost(IF n = 0 THEN 1 ELSE n, max)
    IN  TerminalSetCursorPos(s, Limit(ParamOrDefault(params, 1, 1), Height) - 1,
                                Limit(ParamOrDefault(params, 2, 1), Width) - 1)

HandleJ(params) ==
    LET mode == ParamOrDefault(params, 1, 0)
    IN  IF mode \in 0..2 THEN TerminalClearDisplay(s, mode) ELSE s

Dispatch(command, params) ==
    CASE command \in {"H", "f"} -> HandleH(params)
      [] command = "J" -> HandleJ(params)
      [] OTHER -> s

-----------------------------------------------------------------------------
(* A screen without a caret: the text, and the cursor.  One cell is lost on *)
(* it as on the real one: that of the caret, when the screen scrolls.       *)

Up(u) ==
    LET cells == [u.cells EXCEPT ![u.at] = "blank"]
    IN  [x \in Cell |-> IF x[1] < Height - 1 THEN cells[<<x[1] + 1, x[2]>>]
                        ELSE IF Height = 1 THEN cells[x] ELSE "blank"]

Place(x) == x[1] * Width + x[2]

ShowGlyph(u, ink) ==
    IF u.at = <<Height - 1, Width - 1>> THEN [u EXCEPT !.at[2] = 0, !.cells = Up(u)]
    ELSE [u EXCEPT !.at = CHOOSE x \in Cell : Place(x) = Place(u.at) + 1, !.cells[u.at] = ink]

ShowChar(u, c) ==
    CASE c = "erase" ->
           IF u.at = <<0, 0>> THEN [u EXCEPT !.home = TRUE]
           ELSE LET x == CHOOSE x \in Cell : Place(x) = Place(u.at) - 1
                IN  [u EXCEPT !.at = x, !.cells[x] = "blank"]
      [] c = "newline" ->
           IF u.at[1] < Height - 1 THEN [u EXCEPT !.at = <<@[1] + 1, 0>>]
           ELSE [u EXCEPT !.at[2] = 0, !.cells = Up(u)]
      [] c = "tab" ->
           FoldLeft(LAMBDA a, i : ShowGlyph(a, "blank"), u, [i \in 1..4 - (u.at[2] % 4) |-> i])
      [] OTHER -> ShowGlyph(u, IF c = " " THEN "blank" ELSE "ink")

\* Nothing but the cursor, or the cells, may be changed by a sequence.
ShowDispatch(u, command, to, mode) ==
    CASE command \in {"H", "f"} -> [u EXCEPT !.at = to]
      [] command = "J" ->
           [u EXCEPT !.cells =
              [x \in Cell |-> IF \/ mode = 0 /\ Place(x) >= Place(u.at)
                                 \/ mode = 1 /\ Place(x) <= Place(u.at)
                                 \/ mode = 2
                              THEN "blank" ELSE @[x]]]
      [] OTHER -> u

-----------------------------------------------------------------------------
Init ==
    /\ s = TerminalInitialize
    /\ parser = TtyControlReset
    /\ seq = <<>>
    /\ text = [at |-> <<0, 0>>, cells |-> [x \in Cell |-> "blank"], home |-> FALSE]

Text(c) ==
    /\ parser.state = "TEXT"
    /\ IF c = "esc" THEN parser' = [parser EXCEPT !.state = "ESCAPE"] /\ UNCHANGED <<s, text>>
       ELSE s' = TerminalPutchar(s, c) /\ text' = ShowChar(text, c) /\ UNCHANGED parser
    /\ UNCHANGED seq

Escape(c) ==
    /\ parser.state = "ESCAPE"
    /\ parser' = IF c = "[" THEN TtyControlCsiBegin ELSE IF c = "esc" THEN parser
                 ELSE TtyControlReset
    /\ UNCHANGED <<s, seq, text>>

CsiParam(c) ==
    /\ parser.state = "CSI" /\ c \notin Alpha
    /\ Len(seq) < MaxSeq
    /\ parser' = IF IsDigit(c)
                 THEN [parser EXCEPT !.cur = (@ * 10 + DigitValue[c]) % Word, !.has = TRUE,
                                     !.sep = FALSE]
                 ELSE IF c = ";" THEN [TtyControlParamPush(parser) EXCEPT !.sep = TRUE]
                 ELSE parser
    /\ seq' = Append(seq, c)
    /\ UNCHANGED <<s, text>>

CsiCommand(c) ==
    LET p == IF parser.has \/ parser.sep THEN TtyControlParamPush(parser) ELSE parser
    IN  /\ parser.state = "CSI" /\ c \in Alpha
        /\ s' = Dispatch(c, p.params)
        /\ text' = ShowDispatch(text, c, <<s'.row, s'.col>>, ParamOrDefault(p.params, 1, 0))
        /\ parser' = TtyControlReset
        /\ seq' = <<>>

\* tty_control_write, for one character
Write(c) == Text(c) \/ Escape(c) \/ CsiParam(c) \/ CsiCommand(c)

Next == \E c \in Input : Write(c)

Spec == Init /\ [][Next]_vars

-----------------------------------------------------------------------------
\* Every variable keeps its type, and the cursor is on the screen: no sequence of
\* characters, wraps, tabs, erasures and positions moves it beyond.
TypeOK ==
    /\ <<s.row, s.col>> \in Cell /\ s.caret.at \in Cell
    /\ s.screen \in [Cell -> {"blank", "ink", "caret"}]
    /\ parser.state \in {"TEXT", "ESCAPE", "CSI"}
    /\ Len(parser.params) <= MaxParams /\ parser.cur \in 0..Word - 1

\* An enabled caret is where the next character goes and can be seen there.
CaretAtCursor ==
    s.caret.enabled => s.caret.at = <<s.row, s.col>> /\ s.screen[s.caret.at] = "caret"

\* But for the cell that the caret covers, and keeps, the screen shows the text:
\* moving the caret leaves no block behind and brings back no old character,
\* through scrolling, erasing, positioning and clearing.  (After an erase at the
\* first cell of the screen, where terminal_erase leaves the caret disabled and
\* drawn, this no longer holds.)
ShowsText ==
    ~text.home =>
        /\ s.caret.enabled
        /\ [s.screen EXCEPT ![s.caret.at] = s.caret.under] = text.cells
        /\ <<s.row, s.col>> = text.at

FieldOf(i) == Cardinality({j \in 1..i : seq[j] = ";"})
Digits(f) == {i \in DOMAIN seq : IsDigit(seq[i]) /\ FieldOf(i) = f}
FieldValue(f) ==
    MapThenSumSet(LAMBDA i : DigitValue[seq[i]] * 10 ^ Cardinality({j \in Digits(f) : j > i}),
                  Digits(f)) % Word

\* The parameters are the decimal numbers between the semicolons, modulo the word
\* size, with a mark for an empty one, and no more than there is room for.
ParamsExact ==
    parser.state = "CSI" =>
        LET n == FieldOf(Len(seq))
        IN  /\ parser.params = [i \in 1..AtMost(n, MaxParams) |->
                                   IF Digits(i - 1) = {} THEN ParamNone ELSE FieldValue(i - 1)]
            /\ parser.cur = FieldValue(n)
            /\ parser.has <=> Digits(n) # {}
            /\ parser.sep <=> n > 0 /\ Digits(n) = {}
=============================================================================
