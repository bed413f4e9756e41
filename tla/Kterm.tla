-------------------------------- MODULE Kterm --------------------------------
(* The kernel terminal, kterm.c: a thread that reads what kbd_read() has, in  *)
(* batches of whatever was typed since, edits a command line, echoes it and   *)
(* runs the command. A character is a one-letter string; a letter stands for  *)
(* a word of the real command set, and for the text a command prints. What is *)
(* typed is shorter than the line buffers (cmd_line 256, tmp 64, args 32),    *)
(* which the code does not check.                                             *)
EXTENDS Integers, Sequences, FiniteSets, SequencesExt

CONSTANTS
    Keys,               \* characters kbd_read returns
    Names,              \* the commands kterm_start adds, as sequences of characters
    MAX_KTERM_CMDS,
    BootTexts,          \* what the kernel may have printed while it booted
    MaxKeys,            \* bound on keys that are typed
    MaxBatch            \* bound on what one kbd_read returns (KBD_BUFSIZE)

ASSUME KtermAssumption == Len(Names) <= MAX_KTERM_CMDS /\ MaxBatch \in Nat \ {0}

VARIABLES
    commands,   \* the table of commands
    typed,      \* history: every key read so far
    cmd_line,   \* cmd_line up to cmd_pos
    out,        \* what has been printed and is still to be drawn
    ran,        \* history: [line, effect] of every kterm_exec
    late        \* history: a key of this line was erased before it was echoed

ktvars == <<commands, typed, cmd_line, out, ran, late>>

KtermInit ==
    /\ commands = <<>> /\ typed = <<>> /\ cmd_line = <<>> /\ ran = <<>> /\ late = FALSE
    /\ out \in BootTexts

\* kterm_start adds the commands; then its thread shows the first prompt.
Prompt == <<"#", " ", "_">>
kterm_add_cmd ==
    /\ Len(commands) < Len(Names) /\ Len(commands) < MAX_KTERM_CMDS
    /\ commands' = Append(commands, Names[Len(commands)+1])
    /\ out' = IF Len(commands') = Len(Names) THEN out \o <<"NL", "E", "NL">> \o Prompt ELSE out
    /\ UNCHANGED <<typed, cmd_line, ran, late>>

\* The first position from p on whose character is (not) a space.
FirstFrom(line, p, S) == CHOOSE q \in p..Len(line)+1 :
                             /\ q <= Len(line) => line[q] \in S
                             /\ \A r \in p..q-1 : line[r] \notin S
Visible == Keys \ {" ", "BS", "CR"}
Args(line) ==
    LET from[p \in 1..Len(line)+1] ==
            IF p > Len(line) THEN <<>>
            ELSE LET b == FirstFrom(line, p, Visible)
                     e == FirstFrom(line, b, {" "})
                 IN  <<SubSeq(line, b, e-1)>> \o from[e]
    IN  from[1]

\* ipi_test_cmd and vm_page_dump_cmd look at their first argument; the others have none.
ipi_test_cmd(argv) ==
    IF Len(argv) = 1 THEN "usage"
    ELSE CASE argv[2] = <<"s">> -> "self" [] argv[2] = <<"b">> -> "bcast"
           [] argv[2] = <<"a">> -> "all" [] OTHER -> "bad option"
vm_page_dump_cmd(argv) ==
    IF Len(argv) = 1 THEN "" ELSE CASE argv[2] = <<"r">> -> "ranges" [] argv[2] = <<"f">> -> "free" [] OTHER -> ""
cmd_fn(argv) == CASE argv[1] = <<"i">> -> ipi_test_cmd(argv) [] argv[1] = <<"v">> -> vm_page_dump_cmd(argv)
                  [] OTHER -> "shown"
kterm_exec(line) ==
    LET argv == Args(line)
    IN  IF \E i \in 1..Len(commands) : commands[i] = argv[1] THEN cmd_fn(argv) ELSE "unknown command"

\* The text of an effect; only "bad option" does not end its line.
Text(effect) ==
    CASE effect \in {"", "self", "bcast", "all"} -> <<>>
      [] effect = "bad option" -> <<"!">>
      [] OTHER -> <<"?", "NL">>

\* The branches of the loop over buf; st.tmp is what is still to be echoed, st.out what is printed.
ReturnKey(st) ==
    IF st.line = <<>>
    THEN [st EXCEPT !.out = @ \o <<"BS", "NL">> \o Prompt, !.tmp = <<>>, !.late = FALSE]
    ELSE LET effect == kterm_exec(st.line) IN
         [line |-> <<>>, tmp |-> <<>>, late |-> FALSE,
          out |-> st.out \o <<"BS", "NL">> \o Text(effect) \o Prompt,
          ran |-> Append(st.ran, [line |-> st.line, effect |-> effect])]
EraseKeyBadEcho(st) == IF st.line = <<>> THEN st ELSE [st EXCEPT !.line = Front(@)]
EraseKey(st) ==
    IF st.line = <<>> THEN st
    ELSE [st EXCEPT !.line = Front(@), !.out = @ \o <<"BS", "BS", "_">>, !.late = @ \/ st.tmp # <<>>]
Key(st, ch) == IF ch = "CR" THEN ReturnKey(st) ELSE IF ch = "BS" THEN EraseKey(st)
               ELSE [st EXCEPT !.tmp = Append(@, ch), !.line = Append(@, ch)]

\* One round of kterm_run: the keys of a kbd_read, then the echo of those that were not run.
\* The thread reads again when all that it printed is drawn.
Fresh == [line |-> cmd_line, tmp |-> <<>>, out |-> <<>>, ran |-> ran, late |-> late]
kterm_runBadBatch ==
    /\ Len(commands) = Len(Names) /\ out = <<>> /\ UNCHANGED commands
    /\ \E n \in 1..MaxBatch : \E buf \in [1..n -> Keys] :
        LET st == Key(Fresh, buf[1])
        IN  /\ Len(typed) + n <= MaxKeys /\ typed' = typed \o buf
            /\ cmd_line' = st.line /\ ran' = st.ran /\ late' = st.late
            /\ out' = st.out
kterm_run ==
    /\ Len(commands) = Len(Names) /\ out = <<>> /\ UNCHANGED commands
    /\ \E n \in 1..MaxBatch : \E buf \in [1..n -> Keys] :
        LET st == FoldLeft(Key, Fresh, buf)
        IN  /\ Len(typed) + n <= MaxKeys /\ typed' = typed \o buf
            /\ cmd_line' = st.line /\ ran' = st.ran /\ late' = st.late
            /\ out' = IF st.tmp = <<>> THEN st.out ELSE st.out \o <<"BS">> \o st.tmp \o <<"_">>

\* Of the keys up to k, those of the line being typed: after the last return, and not erased by
\* the backspaces that follow (a key is gone once more backspaces than letters follow it).
Count(i, j, S) == Cardinality({k \in i..j : typed[k] \in S})
Kept(k) == {i \in 1..k : /\ typed[i] \notin {"BS", "CR"} /\ \A j \in i..k : typed[j] # "CR"
                         /\ \A j \in i+1..k : Count(i+1, j, {"BS"}) <= Count(i+1, j, Keys \ {"BS", "CR"})}
Line(S) == [n \in 1..Cardinality(S) |-> typed[CHOOSE i \in S : Cardinality({j \in S : j <= i}) = n]]
Returns == {r \in 1..Len(typed) : typed[r] = "CR" /\ Kept(r-1) # {}}
\* The line kterm_run edits, and every line it runs, is what was typed with the erased keys taken
\* out, however the keys were split over the calls of kbd_read(): no key is lost, doubled or moved
\* to the next line.
LineAsTyped ==
    /\ cmd_line = Line(Kept(Len(typed)))
    /\ Len(ran) = Cardinality(Returns)
    /\ \A r \in Returns : ran[Cardinality({q \in Returns : q <= r})].line = Line(Kept(r-1))
==============================================================================
