--------------------------- MODULE CommandParsing -----------------------------
(***************************************************************************)
(* How POST exec-stream decides whether to run a command: ExecStream trims *)
(* it, ParseAndValidateRequest checks its limits, and ParseCommand splits  *)
(* it into arguments, one rune per step.                                   *)
(*                                                                         *)
(* A command is written mark by mark: a rune with the role its author      *)
(* means it to play.  What the arguments should be is said of the marks;   *)
(* the parser sees the runes only.  Every sequence of runes can be written *)
(* (CommandParsingProofs, EveryCommand).                                   *)
(***************************************************************************)
EXTENDS Integers, FiniteSets, SequencesExt

CONSTANTS
    MaxRunes,    \* bound: runes of a command
    MaxLength,   \* config.MaxCommandLength
    MaxArgs      \* config.MaxArgsCount

ASSUME ParsingAssumption == MaxRunes \in Nat /\ MaxLength \in Nat /\ MaxArgs \in Nat \ {0}

Blank == {"space", "tab"}
White == Blank \cup {"newline"}
Quote == {"double", "single"}
Rune == {"letter", "backslash"} \cup White \cup Quote

-----------------------------------------------------------------------------
(* Marks.                                                                  *)

\* mode is what the rune leaves the command in: the quotes it opens or
\* stands in, or none.
Mark ==
    [rune : Rune, role : {"text", "gap", "quote", "escape"}, mode : Quote \cup {"bare"}]

M(c, r, m) == [rune |-> c, role |-> r, mode |-> m]

Bare ==
    {M(c, "text", "bare") : c \in {"letter", "newline"}}
        \cup {M(b, "gap", "bare") : b \in Blank} \cup {M(q, "quote", q) : q \in Quote}

Inside(q) ==
    {M(c, "text", q) : c \in Rune \ {q, "backslash"}} \cup {M(q, "quote", "bare")}

\* What can be written after a mark.
After(e) ==
    IF e.role = "escape" THEN {M(c, "text", e.mode) : c \in Rune}
    ELSE {M("backslash", "escape", e.mode)} \cup (IF e.mode = "bare" THEN Bare ELSE Inside(e.mode))

Begin == M("space", "gap", "bare")

-----------------------------------------------------------------------------

VARIABLES
    command,    \* the command, as marks
    given,      \* the number of args beside it
    stage,      \* how far ExecStream is
    todo,       \* runes of the command not read yet
    args, current, state, quoteChar, isEscaped   \* ParseCommand's variables

Parser == <<args, current, state, quoteChar, isEscaped>>
vars == <<command, given, stage, todo, Parser>>

TypeOK ==
    /\ command \in Seq(Mark) /\ given \in Nat
    /\ stage \in {"writing", "arrived", "limits", "parsing", "parsed", "accepted", "refused"}
    /\ todo \in Seq(Rune) /\ current \in Seq(Rune)
    /\ args \in Seq(Seq(Rune) \ {<<>>})
    /\ state \in {"start", "quotes"} /\ quoteChar \in Quote /\ isEscaped \in BOOLEAN

Init ==
    /\ stage = "writing" /\ command = <<>> /\ given = 0
    /\ todo = <<>> /\ args = <<>> /\ current = <<>>
    /\ state = "start" /\ quoteChar = "double" /\ isEscaped = FALSE

\* The client writes one more rune.
Write ==
    /\ stage = "writing" /\ Len(command) < MaxRunes
    /\ \E e \in After(IF command = <<>> THEN Begin ELSE Last(command)) :
          command' = Append(command, e)
    /\ UNCHANGED <<given, stage, todo, Parser>>

\* The client sends its request.
Send ==
    /\ stage = "writing"
    /\ given' \in 0..(MaxArgs + 1)
    /\ todo' = [i \in DOMAIN command |-> command[i].rune]
    /\ stage' = "arrived"
    /\ UNCHANGED <<command, Parser>>

TrimSpace(s) ==
    LET kept == {i \in DOMAIN s : s[i] \notin White}
    IN  IF kept = {} THEN <<>> ELSE SubSeq(s, Min(kept), Max(kept))

\* ExecStream, before it calls the service.
Trim ==
    /\ stage = "arrived"
    /\ todo' = TrimSpace(todo)
    /\ stage' = IF todo' = <<>> \/ Len(todo') > MaxLength THEN "refused" ELSE "limits"
    /\ UNCHANGED <<command, given, Parser>>

\* A request with args is not parsed: its command is the name.
Limits ==
    /\ stage = "limits"
    /\ stage' = IF given > MaxArgs THEN "refused"
                ELSE IF given = 0 THEN "parsing" ELSE "parsed"
    /\ args' = IF stage' = "parsed" THEN <<todo>> ELSE args
    /\ UNCHANGED <<command, given, todo, current, state, quoteChar, isEscaped>>

-----------------------------------------------------------------------------
(* ParseCommand, with one action for each branch of its loop.               *)

next == Head(todo)

Read ==
    /\ stage = "parsing" /\ todo # <<>>
    /\ todo' = Tail(todo)
    /\ UNCHANGED <<command, given, stage>>

\* Not escaped, and not the begin of an escape.
ReadBare == Read /\ ~isEscaped /\ next # "backslash" /\ isEscaped' = FALSE

ReadEscaped ==
    /\ Read /\ isEscaped
    /\ current' = Append(current, next) /\ isEscaped' = FALSE
    /\ UNCHANGED <<args, state, quoteChar>>

ReadBackslash ==
    /\ Read /\ ~isEscaped /\ next = "backslash"
    /\ isEscaped' = TRUE
    /\ UNCHANGED <<args, current, state, quoteChar>>

\* Mutant: any quote ends a quote.
ReadInAnyQuotes ==
    /\ ReadBare /\ state = "quotes"
    /\ IF next \in Quote THEN state' = "start" /\ UNCHANGED current
       ELSE current' = Append(current, next) /\ UNCHANGED state
    /\ UNCHANGED <<args, quoteChar>>

ReadInQuotes ==
    /\ ReadBare /\ state = "quotes"
    /\ IF next = quoteChar THEN state' = "start" /\ UNCHANGED current
       ELSE current' = Append(current, next) /\ UNCHANGED state
    /\ UNCHANGED <<args, quoteChar>>

ReadQuote ==
    /\ ReadBare /\ state = "start" /\ next \in Quote
    /\ state' = "quotes" /\ quoteChar' = next
    /\ UNCHANGED <<args, current>>

\* Mutant: every blank ends an argument.
ReadEveryBlank ==
    /\ ReadBare /\ state = "start" /\ next \in Blank
    /\ args' = Append(args, current) /\ current' = <<>>
    /\ UNCHANGED <<state, quoteChar>>

ReadBlank ==
    /\ ReadBare /\ state = "start" /\ next \in Blank
    /\ args' = IF current # <<>> THEN Append(args, current) ELSE args
    /\ current' = <<>>
    /\ UNCHANGED <<state, quoteChar>>

ReadPlain ==
    /\ ReadBare /\ state = "start" /\ next \notin Quote \cup Blank
    /\ current' = Append(current, next)
    /\ UNCHANGED <<args, state, quoteChar>>

Finish ==
    /\ stage = "parsing" /\ todo = <<>>
    /\ IF state = "quotes" THEN stage' = "refused" /\ UNCHANGED args
       ELSE /\ stage' = "parsed"
            /\ args' = IF current # <<>> THEN Append(args, current) ELSE args
    /\ UNCHANGED <<command, given, todo, current, state, quoteChar, isEscaped>>

ParseCommand ==
    \/ ReadEscaped \/ ReadBackslash \/ ReadInQuotes \/ ReadQuote \/ ReadBlank \/ ReadPlain
    \/ Finish

-----------------------------------------------------------------------------
(* The end of ParseAndValidateRequest.                                     *)

\* Mutant: a name of blanks passes.
DecideByCount ==
    /\ stage = "parsed"
    /\ stage' = IF Len(args) \in 1..MaxArgs THEN "accepted" ELSE "refused"
    /\ UNCHANGED <<command, given, todo, Parser>>

Decide ==
    /\ stage = "parsed"
    /\ stage' = IF Len(args) \in 1..MaxArgs /\ TrimSpace(args[1]) # <<>>
                THEN "accepted" ELSE "refused"
    /\ UNCHANGED <<command, given, todo, Parser>>

Next == Write \/ Send \/ Trim \/ Limits \/ ParseCommand \/ Decide

Spec == Init /\ [][Next]_vars

-----------------------------------------------------------------------------
(* What the marks mean.  TrimSpace takes whatever stands outside the       *)
(* outermost runes that are not white, an escaped blank at the end too.    *)

Solid == {i \in DOMAIN command : command[i].rune \notin White}
Texts ==
    {i \in DOMAIN command : /\ command[i].role = "text"
                            /\ \E a, b \in Solid : a <= i /\ i <= b}

Apart(i, j) == \E k \in i..j : command[k].role = "gap"

\* The runes an argument begins with.
Heads == {i \in Texts : \A j \in Texts : j < i => Apart(j, i)}

Word(i) == Cardinality({h \in Heads : h <= i})
Place(i) == Cardinality({j \in Texts : j <= i /\ ~Apart(j, i)})

\* as holds the text, in order, divided at the gaps and nowhere else.
Meant(as) ==
    /\ Len(as) = Cardinality(Heads)
    /\ \A k \in DOMAIN as : Len(as[k]) = Cardinality({i \in Texts : Word(i) = k})
    /\ \A i \in Texts : as[Word(i)][Place(i)] = command[i].rune

-----------------------------------------------------------------------------
(* Properties.                                                             *)

\* Whatever quotes, escapes and blanks a command is written with, ParseCommand
\* finds the arguments that are meant (parser.go:11-66).
ParsedAsMeant == stage \in {"parsed", "accepted"} /\ given = 0 => Meant(args)

Closed == command # <<>> => Last(command).mode = "bare"

Usable ==
    /\ Solid # {} /\ \A a, b \in Solid : b - a < MaxLength
    /\ IF given > 0 THEN given <= MaxArgs
       ELSE /\ Closed
            /\ Cardinality(Heads) \in 1..MaxArgs
            /\ \E i \in Texts : Word(i) = 1 /\ command[i].rune \notin White

\* A request is accepted exactly when its command is within the limits, closes
\* its quotes and names a program (service/exec.go:47-89).
AcceptedIffUsable ==
    stage \in {"accepted", "refused"} => (stage = "accepted" <=> Usable)
=============================================================================
