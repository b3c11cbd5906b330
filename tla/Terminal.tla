------------------------------ MODULE Terminal ------------------------------
(***************************************************************************)
(* NodeTerminal (apps/cli/src/wizard/terminal.ts): lines that are typed,   *)
(* or piped in, faster than the wizard asks for them; the end of input,    *)
(* Ctrl-C and a line that is too long, at any moment; and the prompts      *)
(* choose, text and multiline that read them.  The event of a line         *)
(* resolves the promise of a prompt that waits, whose continuation runs    *)
(* later, when more has happened.                                          *)
(*                                                                         *)
(* A line is its number and what the prompts tell apart: an answer that a  *)
(* choice accepts, another text, the dot that ends a text, and :back.       *)
(* Left out: :empty and .., which only change what a text says.            *)
(***************************************************************************)
EXTENDS Naturals, Sequences

CONSTANTS
  MaxLines,   \* bound: lines that are typed
  None

TerminalAssumption ==
  /\ MaxLines \in Nat
  /\ None \notin {"eof", "interrupt", "too long", "choose", "text", "multiline"}

VARIABLES
  typed,      \* history: every line the input has given
  lines,      \* #lines, the queue
  end,        \* #end
  waiting,    \* #waiting: a prompt has asked for a line and there was none
  handed,     \* the line that resolved the promise, before its prompt goes on
  prompt,     \* the prompt the wizard is in
  gathered,   \* the lines of the text so far
  read,       \* history: the numbers of the lines the prompts were given
  outcome     \* how the last prompt ended

tvars == <<typed, lines, end, waiting, handed, prompt, gathered, read, outcome>>

Kinds  == {"answer", "other", "dot", "back"}
Line   == [n : 1 .. MaxLines, what : Kinds]
IsLast == end \in {"interrupt", "too long"}

-----------------------------------------------------------------------------
(* #finish: the end of input leaves what is queued and yields to an        *)
(* earlier end; an interrupt and an error drop it and are final.  A prompt *)
(* that waits fails.                                                       *)
Finish(why) ==
  /\ end' = IF why = "eof" /\ end # None THEN end ELSE why
  /\ lines' = IF why = "eof" THEN lines ELSE <<>>
  /\ waiting' = FALSE
  /\ IF waiting THEN prompt' = None /\ outcome' = end' ELSE UNCHANGED <<prompt, outcome>>

(* The line event.  readline gives the last line before it closes, and may *)
(* give one after.                                                         *)
LineEvent ==
  /\ Len(typed) < MaxLines
  /\ \E what \in Kinds :
       LET line == [n |-> Len(typed) + 1, what |-> what]
       IN /\ typed' = Append(typed, line)
          /\ CASE IsLast -> UNCHANGED <<lines, waiting, handed>>
               [] ~IsLast /\ waiting -> handed' = <<line>> /\ waiting' = FALSE /\ UNCHANGED lines
               [] ~IsLast /\ ~waiting -> lines' = Append(lines, line) /\ UNCHANGED <<waiting, handed>>
  /\ UNCHANGED <<end, prompt, gathered, read, outcome>>

(* A line or the queue over its limit.                                     *)
TooLong ==
  /\ ~IsLast /\ Finish("too long")
  /\ UNCHANGED <<typed, handed, gathered, read>>

InputCloses == Finish("eof") /\ UNCHANGED <<typed, handed, gathered, read>>

Interrupt == Finish("interrupt") /\ UNCHANGED <<typed, handed, gathered, read>>

-----------------------------------------------------------------------------
(* The prompts                                                             *)

Ask(kind) ==
  /\ prompt = None /\ outcome \notin {"eof", "interrupt", "too long"}
  /\ prompt' = kind /\ gathered' = <<>> /\ outcome' = None
  /\ UNCHANGED <<typed, lines, end, waiting, handed, read>>

(* What a prompt does with a line: choose asks again until it knows the    *)
(* answer, and each of them is left by :back.                              *)
Takes(line) ==
  /\ read' = Append(read, line.n)
  /\ CASE line.what = "back" ->
            prompt' = None /\ outcome' = "back" /\ UNCHANGED gathered
       [] line.what # "back" /\ prompt = "choose" ->
            /\ prompt' = IF line.what = "answer" THEN None ELSE prompt
            /\ outcome' = IF line.what = "answer" THEN "chosen" ELSE outcome
            /\ UNCHANGED gathered
       [] line.what # "back" /\ prompt = "text" ->
            /\ prompt' = None /\ outcome' = "entered"
            /\ UNCHANGED gathered
       [] line.what # "back" /\ prompt = "multiline" ->
            IF line.what = "dot"
              THEN /\ prompt' = None /\ outcome' = "entered"
                   /\ UNCHANGED gathered
              ELSE gathered' = Append(gathered, line.n) /\ UNCHANGED <<prompt, outcome>>

(* #line: the queue first, then the end, then a promise.                   *)
Read ==
  /\ prompt # None /\ ~waiting /\ handed = <<>>
  /\ CASE lines # <<>> -> /\ Takes(Head(lines)) /\ lines' = Tail(lines) /\ UNCHANGED waiting
       [] lines = <<>> /\ end # None ->
            /\ prompt' = None /\ outcome' = end
            /\ UNCHANGED <<lines, waiting, gathered, read>>
       [] lines = <<>> /\ end = None ->
            /\ waiting' = TRUE /\ UNCHANGED <<lines, prompt, gathered, read, outcome>>
  /\ UNCHANGED <<typed, end, handed>>

(* The continuation of a promise that a line resolved.                     *)
Resume ==
  /\ handed # <<>> /\ Takes(handed[1]) /\ handed' = <<>>
  /\ UNCHANGED <<typed, lines, end, waiting>>

Init ==
  /\ typed = <<>> /\ lines = <<>> /\ end = None /\ waiting = FALSE /\ handed = <<>>
  /\ prompt = None /\ gathered = <<>> /\ read = <<>> /\ outcome = None

Next ==
  \/ LineEvent \/ TooLong \/ InputCloses \/ Interrupt
  \/ \E kind \in {"choose", "text", "multiline"} : Ask(kind)
  \/ Read \/ Resume

Spec == Init /\ [][Next]_tvars
-----------------------------------------------------------------------------
TypeOK ==
  /\ typed \in Seq(Line) /\ lines \in Seq(Line) /\ handed \in Seq(Line) /\ Len(handed) <= 1
  /\ end \in {None, "eof", "interrupt", "too long"} /\ waiting \in BOOLEAN
  /\ prompt \in {None, "choose", "text", "multiline"}
  /\ outcome \in {None, "eof", "interrupt", "too long", "back", "chosen", "entered"}

Numbers(s) == [i \in DOMAIN s |-> s[i].n]

(* The prompts are given the lines in the order they were typed, each once *)
(* and none left out: all of them up to the end of input, those before it  *)
(* up to an interrupt.  No prompt waits when a line is queued or the input *)
(* has ended, and a text of several lines has every line since its prompt. *)
LinesReachPrompts ==
  LET known == read \o Numbers(handed) \o Numbers(lines)
  IN /\ known = [i \in 1 .. Len(known) |-> i]
     /\ ~IsLast => Len(known) = Len(typed)
     /\ waiting => lines = <<>> /\ handed = <<>> /\ end = None /\ prompt # None
     /\ prompt = "multiline" =>
          \A i \in DOMAIN gathered : gathered[i] = read[Len(read) - Len(gathered) + i]
-----------------------------------------------------------------------------
(* The inductive invariant behind it: where each line is, by its number.   *)
InPlace ==
  /\ \A i \in DOMAIN read : read[i] = i
  /\ \A i \in DOMAIN handed : handed[i].n = Len(read) + i
  /\ \A i \in DOMAIN lines : lines[i].n = Len(read) + Len(handed) + i
  /\ ~IsLast => Len(read) + Len(handed) + Len(lines) = Len(typed)

TerminalInv ==
  /\ TypeOK
  /\ read \in Seq(Nat) /\ gathered \in Seq(Nat) /\ Len(typed) <= MaxLines
  /\ InPlace
  /\ waiting => lines = <<>> /\ handed = <<>> /\ end = None /\ prompt # None
  /\ handed # <<>> => prompt # None
  /\ IsLast => lines = <<>>
  /\ prompt = "multiline" =>
       /\ Len(gathered) <= Len(read)
       /\ \A i \in DOMAIN gathered : gathered[i] = read[Len(read) - Len(gathered) + i]
=============================================================================
