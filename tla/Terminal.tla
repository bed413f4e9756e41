------------------------------ MODULE Terminal ------------------------------
(* The kernel terminal on the text screen: what kterm_run prints goes through  *)
(* console_putstr to fb_cons_putchar, one character after the other.           *)
EXTENDS FbCons, Kterm

\* A typed line fits a row: fb_cons_clear_char does not go back over a wrapped one.
ASSUME LineFits == MaxKeys + 4 <= width

TerminalInit == Init /\ KtermInit

console_putstr ==
    /\ out # <<>> /\ out' = Tail(out)
    /\ fb_cons_putchar(Head(out))
    /\ UNCHANGED <<commands, typed, cmd_line, ran, late>>

TerminalNext == console_putstr \/ ((kterm_add_cmd \/ kterm_run) /\ UNCHANGED vars)
TerminalSpec == TerminalInit /\ [][TerminalNext]_<<vars, ktvars>>

\* Whenever kterm_run waits for keys, the row of the cursor ends with the prompt, the line that
\* return would run, and the cursor, unless a backspace came in one batch with a key before it:
\* the echo of that key comes after the erasing.
EchoShowsLine ==
    Len(commands) = Len(Names) /\ out = <<>> /\ ~late =>
        LET text == <<"#", " ">> \o cmd_line \o <<"_">>
        IN  /\ y_pos < height /\ x_pos >= Len(text)
            /\ \A k \in 1..Len(text) : fb[y_pos][x_pos - Len(text) + k - 1] = text[k]
=============================================================================
