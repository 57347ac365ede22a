------------------------------- MODULE Shell -------------------------------
(***************************************************************************)
(* The shell (kernel/shell/shell.c) with the string matcher it splits a    *)
(* line with (kernel/lib/strutil.c) and the option parser of its programs  *)
(* (kernel/lib/libc/unistd.c), whose position inside an argument is static *)
(* and outlives the command.  Keys are typed one by one; every allocation  *)
(* for argv may fail.  A program asks for its options until getopt says    *)
(* there are none left, as ls, cat, uname and runtest do, and then lists a *)
(* directory, as ls does.                                                  *)
(***************************************************************************)
EXTENDS Integers, Sequences, SequencesExt

CONSTANTS
    Lines,       \* sequences of keys typed before Enter
    MaxLine,     \* SHELL_MAX_CMDLINE_LEN
    Flags,       \* option letters of the program
    WithArg,     \* those that take an argument
    Programs,    \* names of programs, words
    MaxEntries,  \* entries of the directory that is listed
    MaxLost      \* bound on the number of blocks lost

ShellAssumption == MaxLine \in Nat \ {0} /\ WithArg \subseteq Flags
                   /\ {MaxEntries, MaxLost} \subseteq Nat

VARIABLES
    phase, keys,            \* what shell_repl does, the keys still to be typed
    typed,                  \* the keys of this line
    cmdline, currentindex,  \* the line, the position of the matcher
    argv,                   \* words copied so far
    blocks, lost,           \* blocks of the heap in use by argv, and lost ones
    optind, s_next_char_idx,
    options,                \* what getopt returned to the program
    entries, freed_twice    \* names that ls holds; some block was freed twice

line == <<keys, typed, cmdline>>
memory == <<blocks, lost>>
getopt_state == <<optind, s_next_char_idx>>
listing == <<entries, freed_twice>>
vars == <<phase, line, currentindex, argv, memory, getopt_state, options, listing>>

Init ==
    /\ phase = "prompt" /\ keys = <<>> /\ typed = <<>> /\ cmdline = <<>> /\ currentindex = 0
    /\ argv = <<>> /\ blocks = 0 /\ lost = 0
    /\ optind = 1 /\ s_next_char_idx = 1 /\ options = <<>>
    /\ entries = 0 /\ freed_twice = FALSE

(***************************************************************************)
(* shell_repl                                                              *)
(***************************************************************************)
Prompt ==
    /\ phase = "prompt" /\ phase' = "edit"
    /\ keys' \in Lines
    /\ UNCHANGED <<typed, cmdline, currentindex, argv, memory, getopt_state, options, listing>>

\* Fault: the last place of the line is used up, and so is the one for its end.
Insert_full(c) == IF Len(cmdline) < MaxLine THEN Append(cmdline, c) ELSE cmdline

Insert(c) == IF Len(cmdline) < MaxLine - 1 THEN Append(cmdline, c) ELSE cmdline

Key ==
    /\ phase = "edit" /\ keys # <<>>
    /\ keys' = Tail(keys) /\ typed' = Append(typed, Head(keys))
    /\ cmdline' = IF Head(keys) = "backspace"
                  THEN IF cmdline = <<>> THEN cmdline ELSE Front(cmdline)
                  ELSE Insert(Head(keys))
    /\ UNCHANGED <<phase, currentindex, argv, memory, getopt_state, options, listing>>

Enter ==
    /\ phase = "edit" /\ keys = <<>> /\ phase' = "parse"
    /\ UNCHANGED <<line, currentindex, argv, memory, getopt_state, options, listing>>

(***************************************************************************)
(* The string matcher.  An index is a number of characters consumed.       *)
(***************************************************************************)
isspace(c) == c = " "
CharAt(i) == cmdline[i + 1]

smatcher_skip_whitespaces(i) ==
    CHOOSE j \in i .. Len(cmdline) :
        /\ \A k \in i .. j - 1 : isspace(CharAt(k))
        /\ j < Len(cmdline) => ~isspace(CharAt(j))

smatcher_consume_str_if_match(i, str) ==
    Len(str) <= Len(cmdline) - i /\ SubSeq(cmdline, i + 1, i + Len(str)) = str

\* Fault: a separator ends a word.
WordEnd_separator(i) ==
    CHOOSE j \in i .. Len(cmdline) :
        /\ \A k \in i .. j - 1 : ~isspace(CharAt(k)) /\ CharAt(k) # ";"
        /\ j < Len(cmdline) => isspace(CharAt(j)) \/ CharAt(j) = ";"

\* smatcher_consume_word: the index after the word at i.
WordEnd(i) ==
    CHOOSE j \in i .. Len(cmdline) :
        /\ \A k \in i .. j - 1 : ~isspace(CharAt(k))
        /\ j < Len(cmdline) => isspace(CharAt(j))

(***************************************************************************)
(* parse_cmd and parse_cmd_runprogram: a word at a time.                   *)
(***************************************************************************)
\* Back to the prompt: the variables of the command are out of scope, and the
\* next command sets optind.
Finish ==
    /\ phase' = "prompt" /\ keys' = <<>> /\ typed' = <<>> /\ cmdline' = <<>>
    /\ currentindex' = 0 /\ argv' = <<>> /\ options' = <<>> /\ optind' = 1
    /\ UNCHANGED s_next_char_idx /\ entries' = 0

ParseEmpty ==
    /\ phase = "parse" /\ argv = <<>> /\ currentindex = 0
    /\ smatcher_skip_whitespaces(0) = Len(cmdline)
    /\ Finish /\ UNCHANGED <<memory, freed_twice>>

AtSeparator(i) == i = Len(cmdline) \/ smatcher_consume_str_if_match(i, <<";">>)

ParseWord(i) ==
    /\ phase = "parse" /\ i < Len(cmdline) /\ ~AtSeparator(i)
    /\ argv' = Append(argv, SubSeq(cmdline, i + 1, WordEnd(i)))
    /\ currentindex' = WordEnd(i)
    /\ blocks' = Len(argv) + 2
    /\ UNCHANGED <<phase, line, lost, getopt_state, options, listing>>

\* heap_realloc fails and argv, overwritten with its result, is lost with the
\* words it holds.
ReallocFails(i) ==
    /\ phase = "parse" /\ i < Len(cmdline) /\ ~AtSeparator(i)
    /\ lost + blocks <= MaxLost
    /\ lost' = lost + blocks /\ blocks' = 0 /\ UNCHANGED freed_twice
    /\ Finish

\* No memory for the word: argv and its words are freed.
AllocFails(i) ==
    /\ phase = "parse" /\ i < Len(cmdline) /\ ~AtSeparator(i)
    /\ blocks' = 0 /\ UNCHANGED <<lost, freed_twice>>
    /\ Finish

\* cmd_exec: unknown names are reported and the command destroyed.
ParseDone(i) ==
    /\ phase = "parse" /\ AtSeparator(i) /\ (argv # <<>> \/ i < Len(cmdline))
    /\ \/ /\ argv = <<>> /\ phase' = "assertion"
          /\ UNCHANGED <<line, currentindex, argv, memory, getopt_state, options, listing>>
       \/ /\ argv # <<>> /\ Head(argv) \in Programs /\ phase' = "program" /\ optind' = 1
          /\ UNCHANGED <<line, currentindex, argv, memory, s_next_char_idx, options, listing>>
       \/ argv # <<>> /\ Head(argv) \notin Programs /\ blocks' = 0 /\ UNCHANGED <<lost, freed_twice>> /\ Finish

Here == smatcher_skip_whitespaces(currentindex)
Parse == ParseEmpty \/ ParseWord(Here) \/ ReallocFails(Here) \/ AllocFails(Here) \/ ParseDone(Here)

(***************************************************************************)
(* getopt                                                                  *)
(***************************************************************************)
Arg == argv[optind + 1]

\* Fault: the next argument is read from where this one ended.
getopt_nextarg_stay(n) == optind' = optind + n /\ UNCHANGED s_next_char_idx

getopt_nextarg(n) == optind' = optind + n /\ s_next_char_idx' = 1

NextLetter ==
    IF s_next_char_idx + 2 > Len(Arg) THEN getopt_nextarg(1)
    ELSE s_next_char_idx' = s_next_char_idx + 1 /\ UNCHANGED optind

\* An argument follows in the same word or is the next one.
getopt_get_arg(c) ==
    IF s_next_char_idx + 1 < Len(Arg)
    THEN /\ getopt_nextarg(1)
         /\ options' = Append(options, <<c, SubSeq(Arg, s_next_char_idx + 2, Len(Arg))>>)
    ELSE IF Len(argv) - optind < 2
         THEN getopt_nextarg(1) /\ options' = Append(options, <<"?", <<c>>>>)
         ELSE getopt_nextarg(2) /\ options' = Append(options, <<c, argv[optind + 2]>>)

IsOption == optind < Len(argv) /\ Head(Arg) = "-" /\ Arg # <<"-">>

\* One call that returns an option, or reports one it does not know.  At the
\* terminator of an argument the letter is unknown too.
getopt ==
    /\ phase = "program" /\ IsOption /\ Arg # <<"-", "-">>
    /\ LET c == IF s_next_char_idx < Len(Arg) THEN Arg[s_next_char_idx + 1] ELSE "nul"
       IN  \/ c \in WithArg /\ getopt_get_arg(c)
           \/ c \in Flags \ WithArg /\ NextLetter /\ options' = Append(options, <<c, <<>>>>)
           \/ c \notin Flags /\ NextLetter /\ options' = Append(options, <<"?", <<c>>>>)
    /\ UNCHANGED <<phase, line, currentindex, argv, memory, listing>>

\* The call that returns -1.
GetoptEnd ==
    /\ phase = "program" /\ (IsOption => Arg = <<"-", "-">>)
    /\ IF IsOption THEN getopt_nextarg(1) ELSE UNCHANGED getopt_state
    /\ phase' = "main"
    /\ UNCHANGED <<line, currentindex, argv, memory, options, listing>>

(***************************************************************************)
(* ls: collect_entries and show_dir.                                       *)
(***************************************************************************)
ReadEntry ==
    /\ phase = "main" /\ entries < MaxEntries /\ entries' = entries + 1
    /\ UNCHANGED <<phase, line, currentindex, argv, memory, getopt_state, options, freed_twice>>

\* The program returns and cmd_destroy frees the command.
Destroy ==
    /\ phase = "main" /\ blocks' = 0 /\ UNCHANGED <<lost, freed_twice>> /\ Finish

\* No memory for an entry: collect_entries frees the names, and show_dir, which
\* gets them all the same, frees them again.
ListFails ==
    /\ phase = "main" /\ entries < MaxEntries /\ freed_twice' = (freed_twice \/ entries > 0)
    /\ blocks' = 0 /\ UNCHANGED lost /\ Finish

Next ==
    \/ Prompt \/ Key \/ Enter \/ Parse \/ getopt \/ GetoptEnd \/ ReadEntry \/ Destroy \/ ListFails

Spec == Init /\ [][Next]_vars

----------------------------------------------------------------------------
(***************************************************************************)
(* What a line means.                                                      *)
(***************************************************************************)
Edited ==
    FoldLeft(LAMBDA text, k : IF k = "backspace" THEN SubSeq(text, 1, Len(text) - 1)
                              ELSE SubSeq(Append(text, k), 1, IF Len(text) < MaxLine - 1 THEN Len(text) + 1
                                                              ELSE MaxLine - 1),
             <<>>, typed)

\* The maximal runs of characters other than spaces, up to one that starts with ";".
RunsOf(text) ==
    SelectSeq(FoldLeft(LAMBDA words, c : IF isspace(c) THEN Append(words, <<>>)
                                         ELSE Append(Front(words), Append(Last(words), c)),
                       <<<<>>>>, text),
              LAMBDA w : w # <<>>)
WordsOf(text) ==
    LET runs == RunsOf(text)
        n == CHOOSE n \in 0 .. Len(runs) :
                /\ \A i \in 1 .. n : Head(runs[i]) # ";"
                /\ n < Len(runs) => Head(runs[n + 1]) = ";"
    IN  SubSeq(runs, 1, n)

\* POSIX: the options from the letter j of the word k on, and the index of the
\* first operand.
Meaning(words) ==
    LET n == Len(words)
        then(first, r) == [r EXCEPT !.options = <<first>> \o @]
        m[k \in 1 .. n + 2, j \in 2 .. MaxLine + 1] ==
            IF k > n THEN [options |-> <<>>, operands |-> k]
            ELSE LET w == words[k] IN
                 CASE Head(w) # "-" \/ w = <<"-">> -> [options |-> <<>>, operands |-> k]
                   [] w = <<"-", "-">> -> [options |-> <<>>, operands |-> k + 1]
                   [] OTHER ->
                        IF j > Len(w) THEN m[k + 1, 2]
                        ELSE IF w[j] \notin Flags THEN then(<<"?", <<w[j]>>>>, m[k, j + 1])
                        ELSE IF w[j] \notin WithArg THEN then(<<w[j], <<>>>>, m[k, j + 1])
                        ELSE IF j < Len(w) THEN then(<<w[j], SubSeq(w, j + 1, Len(w))>>, m[k + 1, 2])
                        ELSE IF k < n THEN then(<<w[j], words[k + 1]>>, m[k + 2, 2])
                        ELSE then(<<"?", <<w[j]>>>>, m[k + 1, 2])
    IN  m[2, 2]

\* A program runs with the words of the line as it was edited, gets from getopt
\* the options POSIX says they hold whatever commands ran before, and starts its
\* operands where the options end (parse_cmd_runprogram, getopt); between
\* commands no block is in use.
CommandExact ==
    /\ phase = "main" =>
          /\ argv = WordsOf(Edited)
          /\ LET meaning == Meaning(argv)
             IN  options = meaning.options /\ optind + 1 = meaning.operands
    /\ phase = "prompt" => blocks = 0 /\ s_next_char_idx = 1
    /\ Len(cmdline) < MaxLine

\* assert(cmd->runprogram.argc != 0): a command that runs has a name.  A line that
\* starts with a separator has none (shell.c:142).
CommandHasName == phase # "assertion"

\* A failed allocation loses nothing.  It does: argv is overwritten with the
\* result of heap_realloc (shell.c:65).
NothingLost == lost = 0

\* A name that ls holds is freed once.  It is freed twice when memory runs out
\* (program_ls.c:132 and 169).
FreedOnce == ~freed_twice
============================================================================
