------------------------------ MODULE Generator ------------------------------
(***************************************************************************)
(* The build tool that turns a list of a DLL's functions into the stubs    *)
(* and the export table of libsmp.dll (libsmp/generator.c).                *)
(*                                                                         *)
(* The list is read character by character: a line that starts with a      *)
(* blank is a function with flags, any other names the library.  Here a    *)
(* word is one symbol, with what the tool looks for in it.                 *)
(***************************************************************************)
EXTENDS Naturals, Sequences, SequencesExt

CONSTANTS
    Word,     \* words of a list
    Args,     \* the number after the "@" of a word, 0 if there is none
    FlagsIn,  \* the flags whose name is part of a word
    HasDot,   \* a word with a "."
    MaxText   \* bound: symbols of a list

Blank   == " "
NewLine == "\n"
CarriageReturn == "\r"
Flag    == {"IGNORE", "HASBODY", "STUB", "DATA", "REDIRECT", "NOCRT"}
Symbol  == Word \cup {Blank, NewLine, CarriageReturn}

ASSUME GeneratorAssumption ==
    /\ Word \cap {Blank, NewLine, CarriageReturn} = {}
    /\ Args \in [Word -> Nat] /\ FlagsIn \in [Word -> SUBSET Flag] /\ HasDot \in [Word -> BOOLEAN]
    /\ MaxText \in Nat

VARIABLES
    text,   \* history: what was read
    fsm, buf, bufParam,
    libs,   \* the libraries, newest first, and their functions, newest first
    asm,    \* the labels of the source written, with what is at each
    def,    \* the exports written, with what each stands for
    written \* main is over

genVars == <<text, fsm, buf, bufParam, libs, asm, def, written>>

GenInit ==
    /\ text = <<>> /\ fsm = "FSM_LIB" /\ buf = <<>> /\ bufParam = <<>>
    /\ libs = <<>> /\ asm = {} /\ def = {}
    /\ written = FALSE

\* parse_flags.
WordsOf(s)    == ToSet(s) \cap Word
ParseFlags(s) == UNION {FlagsIn[w] : w \in WordsOf(s)}

\* atoi behind the first "@".
ArgsOf(s) ==
    LET at == {i \in 1..Len(s) : s[i] \in Word /\ Args[s[i]] # 0} IN
    IF at = {} THEN 0 ELSE Args[s[Min(at)]]

\* base is left as malloc gave it when the name has no dot.
Library(s)  == [file |-> s, base |-> \E w \in WordsOf(s) : HasDot[w], func |-> <<>>]
Function(s, flags) == [name |-> s, params |-> ArgsOf(s), flags |-> flags]
AddTo(ls, f) == IF ls = <<>> THEN ls ELSE [ls EXCEPT ![1].func = <<f>> \o @]

-----------------------------------------------------------------------------
(* parse_list: one symbol.                                                 *)

\* The end of a line, what it added.
LineRead ==
    LET flags == ParseFlags(bufParam) IN
    CASE buf = <<>> -> libs
      [] buf # <<>> /\ fsm = "FSM_LIB" -> <<Library(buf)>> \o libs
      [] OTHER -> IF "IGNORE" \in flags THEN libs ELSE AddTo(libs, Function(buf, flags))

\* Mutant of ReadNewLine: the parameters of the last line stay.
ReadNewLineStale ==
    /\ libs' = LineRead
    /\ fsm' = "FSM_LIB" /\ buf' = <<>> /\ UNCHANGED bufParam

ReadNewLine ==
    /\ libs' = LineRead
    /\ fsm' = "FSM_LIB" /\ buf' = <<>> /\ bufParam' = <<>>

ReadBlank ==
    /\ UNCHANGED libs
    /\ \/ buf = <<>> /\ fsm' = "FSM_FUNC" /\ UNCHANGED <<buf, bufParam>>
       \/ /\ buf # <<>>
          /\ fsm' = IF fsm = "FSM_FUNC" THEN "FSM_FUNC_PARAM" ELSE fsm
          /\ buf' = IF fsm = "FSM_LIB" THEN Append(buf, Blank) ELSE buf
          /\ bufParam' = IF fsm = "FSM_FUNC_PARAM" THEN Append(bufParam, Blank) ELSE bufParam

ReadWord(w) ==
    /\ IF fsm = "FSM_FUNC_PARAM"
       THEN bufParam' = Append(bufParam, w) /\ UNCHANGED buf
       ELSE buf' = Append(buf, w) /\ UNCHANGED bufParam
    /\ UNCHANGED <<libs, fsm>>

ReadSymbol(c) ==
    /\ ~written /\ Len(text) < MaxText
    /\ text' = Append(text, c)
    /\ \/ c = NewLine /\ ReadNewLine
       \/ c = CarriageReturn /\ UNCHANGED <<libs, fsm, buf, bufParam>>
       \/ c = Blank /\ ReadBlank
       \/ c \in Word /\ ReadWord(c)
    /\ UNCHANGED <<asm, def, written>>

-----------------------------------------------------------------------------
(* main: the two files, after the end of the list.                         *)

NoHook == {"HASBODY", "REDIRECT", "DATA", "NOCRT"}

\* Mutant of AsmLines: a stub is a plain ret.
AsmLinesRet(f) ==
    IF "STUB" \in f.flags THEN {[public |-> f.name, body |-> "ret", pops |-> 0]}
    ELSE IF f.flags \cap NoHook = {} THEN {[public |-> f.name, body |-> "jmp", pops |-> 0]}
    ELSE {}

\* write_stub and write_fn.
AsmLines(f) ==
    IF "STUB" \in f.flags THEN {[public |-> f.name, body |-> "ret", pops |-> f.params]}
    ELSE IF f.flags \cap NoHook = {} THEN {[public |-> f.name, body |-> "jmp", pops |-> 0]}
    ELSE {}

Export(f, kind, base) == {[name |-> f.name, is |-> kind, base |-> base]}

DefLines(lib, f) ==
    IF f.flags \cap NoHook = {} THEN Export(f, "hook", FALSE)
    ELSE IF {"DATA", "REDIRECT"} \subseteq f.flags THEN Export(f, "data", lib.base)
    ELSE IF "NOCRT" \in f.flags THEN Export(f, "nocrt", FALSE)
    ELSE IF "REDIRECT" \in f.flags THEN Export(f, "forward", lib.base)
    ELSE {}

EndOfFile ==
    /\ ~written /\ written' = TRUE
    /\ libs' = LineRead
    /\ fsm' = "FSM_LIB" /\ buf' = <<>> /\ bufParam' = <<>>
    /\ asm' = UNION {AsmLines(f) : f \in UNION {ToSet(l.func) : l \in ToSet(libs')}}
    /\ def' = UNION {UNION {DefLines(l, f) : f \in ToSet(l.func)} : l \in ToSet(libs')}
    /\ UNCHANGED text

GenNext == EndOfFile \/ \E c \in Symbol : ReadSymbol(c)

GenSpec == GenInit /\ [][GenNext]_genVars

-----------------------------------------------------------------------------
(* Properties.                                                             *)

GenTypeOK ==
    /\ text \in Seq(Symbol) /\ Len(text) <= MaxText
    /\ fsm \in {"FSM_LIB", "FSM_FUNC", "FSM_FUNC_PARAM"}
    /\ buf \in Seq(Word \cup {Blank}) /\ bufParam \in Seq(Word \cup {Blank})
    /\ written \in BOOLEAN

\* The format of a list, by the positions of its symbols: line (i, j) is between two
\* ends of lines.
Clean ==
    LET kept[n \in 0..Len(text)] ==
            IF n = 0 THEN <<>>
            ELSE IF text[n] = CarriageReturn THEN kept[n - 1] ELSE Append(kept[n - 1], text[n])
    IN  kept[Len(text)]
Ends(s)          == {0, Len(s) + 1} \cup {i \in 1..Len(s) : s[i] = NewLine}
LineSpans(s)     == {l \in Ends(s) \X Ends(s) : l[1] < l[2] /\ \A e \in Ends(s) : e <= l[1] \/ e >= l[2]}
WordsAt(s, i, j) == {p \in i + 1..j - 1 : s[p] \in Word}
LibLines(s)      == {l \in LineSpans(s) : l[2] > l[1] + 1 /\ s[l[1] + 1] # Blank}
FuncLines(s)     == {l \in LineSpans(s) : WordsAt(s, l[1], l[2]) # {} /\ s[l[1] + 1] = Blank}
LibsBefore(s, i) == {k \in LibLines(s) : k[1] < i}

\* The function of a line: its first word, the flags in the others, and the library
\* named last before it.
Listed(s, i, j) ==
    LET from == Min(WordsAt(s, i, j))
        to   == Min({p \in i + 1..j : p >= from /\ (p = j \/ s[p] = Blank)})
        name == SubSeq(s, from, to - 1)
        lib  == CHOOSE l \in LibsBefore(s, i) : \A k \in LibsBefore(s, i) : k[1] <= l[1]
    IN [file |-> SubSeq(s, lib[1] + 1, lib[2] - 1), name |-> name, params |-> ArgsOf(name),
        flags |-> ParseFlags(SubSeq(s, to, j - 1))]

AllListed ==
    LET s == Clean
    IN  {Listed(s, l[1], l[2]) : l \in {k \in FuncLines(s) : LibsBefore(s, k[1]) # {}}}

\* The state machine finds what the format says, of every list: no flag of one line
\* is taken for the next, wherever blanks, empty lines and carriage returns are.
ParsesFormat ==
    written =>
        UNION {{[file |-> l.file, name |-> f.name, params |-> f.params, flags |-> f.flags] :
                    f \in ToSet(l.func)} : l \in ToSet(libs)}
            = {f \in AllListed : "IGNORE" \notin f.flags}

\* The two files fit: what libsmp.def exports as a hook, the source defines.
HooksDefined ==
    written => \A e \in def : e.is = "hook" => \E a \in asm : a.public = e.name

\* A stub takes its arguments off the stack, as many as its list says.
StubsPopArgs ==
    written => \A f \in AllListed :
        {"STUB", "IGNORE"} \cap f.flags = {"STUB"} =>
            [public |-> f.name, body |-> "ret", pops |-> f.params] \in asm

\* A program linked with the library finds what it was built against.
ExportsSound == HooksDefined /\ StubsPopArgs

=============================================================================
