------------------------------- MODULE FbCons -------------------------------
(* The text screen of fb_cons.c. Positions are in characters: boot.S asks for *)
(* 1024 x 768, whole numbers of the 8 x 16 font, so that pixels add nothing.  *)
(* A row is a function from columns to characters; Blank is the clear color.  *)
(* Next to the screen the module keeps the text as it was written, as lines   *)
(* of any number, to say what the screen should show of it.                   *)
EXTENDS Integers, Sequences

CONSTANTS
    Letters,        \* printable characters
    width, height,  \* of the screen, in characters
    TabStop,        \* columns of a tab (4)
    MaxChars        \* bound on characters written

ASSUME FbConsAssumption == width \in Nat \ {0} /\ height \in Nat \ {0} /\ TabStop \in Nat \ {0}

VARIABLES
    x_pos, y_pos,
    fb,             \* row -> column -> character; a row below the screen is memory behind it
    lines,          \* history: the lines that were written
    gap,            \* history: a tab was written since the last letter
    written         \* history: characters written

vars == <<x_pos, y_pos, fb, lines, gap, written>>

Blank == " "
BlankRow == [x \in 0..width-1 |-> Blank]
Chars == Letters \cup {"TAB", "BS", "NL", "CR", "ESC"}

\* fb_cons_init and fb_cons_clear.
Init ==
    /\ x_pos = 0 /\ y_pos = 0
    /\ fb = [y \in 0..height-1 |-> BlankRow]
    /\ lines = <<BlankRow>> /\ gap = FALSE /\ written = 0

\* The cursor when a character is about to be written: a full row is left first.
Wrapped == x_pos >= width
X == IF Wrapped THEN 0 ELSE x_pos
Y == IF Wrapped THEN y_pos + 1 ELSE y_pos
Lines == IF Wrapped /\ y_pos < height THEN Append(lines, BlankRow) ELSE lines

OnLast(ls, row) == [ls EXCEPT ![Len(ls)] = row]
LastOf(ls) == ls[Len(ls)]

Tab == /\ x_pos' = X + TabStop /\ y_pos' = Y /\ lines' = Lines /\ gap' = TRUE /\ UNCHANGED fb

\* The num cells before the cursor, as far as the row has them.
Erased(row, from, num) == [x \in 0..width-1 |-> IF from <= x /\ x < from + num THEN Blank ELSE row[x]]
fb_cons_clear_char(num) ==
    LET to == IF num > X THEN 0 ELSE X - num
    IN  /\ x_pos' = to /\ y_pos' = Y /\ UNCHANGED gap
        /\ fb' = IF Y < height THEN [fb EXCEPT ![Y] = Erased(fb[Y], to, X - to)] ELSE fb
        /\ lines' = OnLast(Lines, Erased(LastOf(Lines), to, X - to))

\* A line begun below the bottom is not counted twice: the next letter scrolls by one row only.
Newline == /\ x_pos' = 0 /\ y_pos' = Y + 1 /\ gap' = FALSE /\ UNCHANGED fb
           /\ lines' = IF Y < height THEN Append(Lines, BlankRow) ELSE Lines

\* The rows move up by one, whatever the distance of the cursor from the bottom is.
ScrolledBadKeep == [y \in 0..height-1 |-> IF y + 1 < height THEN fb[y+1] ELSE fb[y]]
Scrolled == [y \in 0..height-1 |-> IF y + 1 < height THEN fb[y+1] ELSE BlankRow]
Row == IF Y >= height THEN height - 1 ELSE Y
fb_draw_char(ch) ==
    LET screen == IF Y >= height THEN Scrolled ELSE fb
    IN  /\ y_pos' = Row
        /\ IF ch = "ESC" THEN x_pos' = X /\ fb' = screen /\ lines' = Lines /\ UNCHANGED gap
           ELSE /\ x_pos' = X + 1 /\ gap' = FALSE
                /\ fb' = [screen EXCEPT ![Row] = [screen[Row] EXCEPT ![X] = ch]]
                /\ lines' = OnLast(Lines, [LastOf(Lines) EXCEPT ![X] = ch])

fb_cons_putchar(ch) ==
    /\ written < MaxChars /\ written' = written + 1
    /\ CASE ch = "TAB" -> Tab
         [] ch = "BS" -> fb_cons_clear_char(1)
         [] ch \in {"NL", "CR"} -> Newline
         [] OTHER -> fb_draw_char(ch)

Next == \E ch \in Chars : fb_cons_putchar(ch)
Spec == Init /\ [][Next]_vars

\* fb_cons.c draws inside the framebuffer: the cursor is below the last row only at the start of a
\* line, where nothing is drawn or erased before the screen scrolls. Only a tab moves it along
\* such a row, and a backspace straight after that tab would erase behind the framebuffer.
CursorOnScreen ==
    /\ x_pos \in 0..width+TabStop-1 /\ y_pos \in Nat
    /\ y_pos >= height /\ x_pos > 0 => gap

\* Each row of the screen shows the line that belongs there: the rows end with the line the cursor
\* is on, or with the line before it while the cursor is below the bottom and the scroll is still
\* to come. So a scroll, a wrapped row, a tab or an erased character never loses or doubles a
\* line; only empty lines that are begun below the bottom collapse into one.
ScreenShowsText ==
    LET first == Len(lines) - (IF y_pos < height THEN y_pos ELSE height)
    IN  \A y \in 0..height-1 :
            fb[y] = IF first + y <= Len(lines) THEN lines[first + y] ELSE BlankRow
=============================================================================
