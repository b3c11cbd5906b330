---------------------------- MODULE EntryProofs -----------------------------
(***************************************************************************)
(* Proofs about what a person enters, and about the components of module   *)
(* MCServices they enter it through: the terminal and its prompts, the     *)
(* dialogs of the browser and the wizard; and about what migration and     *)
(* restoration keep of the projects that were entered.  The last theorem   *)
(* joins them with the services of ServicesProofs.  As in MCServices, v1,  *)
(* v2, ... are the variables of the component in the order in which its    *)
(* module declares them.                                                   *)
(***************************************************************************)
EXTENDS ServicesProofs

-----------------------------------------------------------------------------
(* Terminal: v1 typed, v2 lines, v3 end, v4 waiting, v5 handed, v6 prompt, *)
(* v7 gathered, v8 read, v9 outcome.                                       *)

LEMMA TerminalLimit == MaxLines \in Nat
BY ServicesAssumption DEF T!TerminalAssumption

LEMMA NoneIsNoEnd == None # "eof" /\ None # "interrupt" /\ None # "too long"
BY ServicesAssumption DEF T!TerminalAssumption

LEMMA NoneIsNoPrompt == None # "choose" /\ None # "text" /\ None # "multiline"
BY ServicesAssumption DEF T!TerminalAssumption

(* A queue, and what taking its head or appending to it does.              *)
LEMMA QueueFacts ==
  ASSUME NEW S, NEW q \in Seq(S)
  PROVE  /\ Len(q) \in Nat /\ DOMAIN q = 1..Len(q)
         /\ q = <<>> <=> Len(q) = 0
         /\ \A i \in DOMAIN q : q[i] \in S
         /\ q # <<>> => /\ Head(q) = q[1] /\ Tail(q) \in Seq(S) /\ Len(Tail(q)) = Len(q) - 1
                        /\ DOMAIN Tail(q) = 1..(Len(q) - 1)
                        /\ \A i \in DOMAIN Tail(q) : Tail(q)[i] = q[i + 1]
         /\ \A x \in S : /\ Append(q, x) \in Seq(S) /\ Len(Append(q, x)) = Len(q) + 1
                         /\ DOMAIN Append(q, x) = 1..(Len(q) + 1)
                         /\ \A i \in 1..Len(q) : Append(q, x)[i] = q[i]
                         /\ Append(q, x)[Len(q) + 1] = x
<1>1. /\ Len(q) \in Nat /\ DOMAIN q = 1..Len(q)
      /\ q = <<>> <=> Len(q) = 0
      /\ \A i \in DOMAIN q : q[i] \in S
  BY EmptySeq, ElementOfSeq, LenProperties
<1>2. ASSUME q # <<>>
      PROVE  /\ Head(q) = q[1] /\ Tail(q) \in Seq(S) /\ Len(Tail(q)) = Len(q) - 1
             /\ DOMAIN Tail(q) = 1..(Len(q) - 1)
             /\ \A i \in DOMAIN Tail(q) : Tail(q)[i] = q[i + 1]
  <2>1. /\ Head(q) = q[1] /\ Tail(q) \in Seq(S) /\ Len(Tail(q)) = Len(q) - 1
        /\ \A i \in 1..Len(Tail(q)) : Tail(q)[i] = q[i + 1]
    BY <1>2, HeadTailProperties
  <2>2. DOMAIN Tail(q) = 1..Len(Tail(q))
    BY <2>1, LenProperties
  <2> QED
    BY <2>1, <2>2
<1>3. ASSUME NEW x \in S
      PROVE  /\ Append(q, x) \in Seq(S) /\ Len(Append(q, x)) = Len(q) + 1
             /\ DOMAIN Append(q, x) = 1..(Len(q) + 1)
             /\ \A i \in 1..Len(q) : Append(q, x)[i] = q[i]
             /\ Append(q, x)[Len(q) + 1] = x
  <2>1. /\ Append(q, x) \in Seq(S) /\ Len(Append(q, x)) = Len(q) + 1
        /\ \A i \in 1..Len(q) : Append(q, x)[i] = q[i]
        /\ Append(q, x)[Len(q) + 1] = x
    BY AppendProperties
  <2>2. DOMAIN Append(q, x) = 1..Len(Append(q, x))
    BY <2>1, LenProperties
  <2> QED
    BY <2>1, <2>2
<1> QED
  BY <1>1, <1>2, <1>3

LEMMA EmptyQueue == <<>> \in Seq(T!Line) /\ DOMAIN <<>> = {}
OBVIOUS

LEMMA TerminalStarts == T!Init => T!TerminalInv
<1> SUFFICES ASSUME T!Init PROVE T!TerminalInv
  OBVIOUS
<1>1. <<>> \in Seq(T!Line) /\ <<>> \in Seq(Nat) /\ Len(<<>>) = 0 /\ DOMAIN <<>> = {}
  OBVIOUS
<1>2. T!TypeOK
  <2>1. v1 = <<>> /\ v2 = <<>> /\ v5 = <<>>
    BY DEF T!Init
  <2>2. v1 \in Seq(T!Line) /\ v2 \in Seq(T!Line) /\ v5 \in Seq(T!Line) /\ Len(v5) <= 1
    BY <1>1, <2>1
  <2> QED
    BY <2>2, Zenon DEF T!Init, T!TypeOK
<1>3. T!InPlace
  BY <1>1 DEF T!Init, T!InPlace
<1>5. v8 \in Seq(Nat) /\ v7 \in Seq(Nat) /\ Len(v1) <= MaxLines
  BY <1>1, TerminalLimit DEF T!Init
<1>6. v4 = FALSE /\ v5 = <<>> /\ v7 = <<>> /\ v8 = <<>> /\ ~T!IsLast
  BY NoneIsNoEnd DEF T!Init, T!IsLast
<1>7. Len(v7) <= Len(v8) /\ DOMAIN v7 = {}
  BY <1>1, <1>6
<1> QED
  BY <1>2, <1>3, <1>5, <1>6, <1>7 DEF T!TerminalInv

(* A prompt takes the next line in order.                                  *)
LEMMA TakesNext ==
  ASSUME T!TerminalInv, NEW line \in T!Line, line.n = Len(v8) + 1, v6 # None, T!Takes(line)
  PROVE  /\ v8' \in Seq(Nat) /\ Len(v8') = Len(v8) + 1 /\ \A i \in DOMAIN v8' : v8'[i] = i
         /\ v6' \in {None, v6} /\ v7' \in Seq(Nat)
         /\ v9' \in {None, "eof", "interrupt", "too long", "back", "chosen", "entered"}
         /\ v6' = "multiline" =>
              /\ Len(v7') <= Len(v8')
              /\ \A i \in DOMAIN v7' : v7'[i] = v8'[Len(v8') - Len(v7') + i]
<1>1. v8 \in Seq(Nat) /\ v7 \in Seq(Nat) /\ line.n \in Nat
  <2>1. line.n \in 1..MaxLines
    BY DEF T!Line
  <2>2. v8 \in Seq(Nat) /\ v7 \in Seq(Nat)
    BY DEF T!TerminalInv
  <2> QED
    BY <2>1, <2>2, TerminalLimit
<1>2. v8' = Append(v8, line.n)
  BY DEF T!Takes
<1>3. /\ v8' \in Seq(Nat) /\ Len(v8') = Len(v8) + 1 /\ DOMAIN v8' = 1..(Len(v8) + 1)
      /\ \A i \in 1..Len(v8) : v8'[i] = v8[i]
      /\ v8'[Len(v8) + 1] = line.n
  BY <1>1, <1>2, QueueFacts
<1>4. Len(v8) \in Nat /\ Len(v7) \in Nat /\ DOMAIN v7 = 1..Len(v7)
      /\ \A i \in 1..Len(v8) : v8[i] = i
  BY <1>1, QueueFacts DEF T!TerminalInv, T!InPlace
<1>5. \A i \in DOMAIN v8' : v8'[i] = i
  BY <1>3, <1>4
<1>6. /\ v6 \in {"choose", "text", "multiline"}
      /\ v9 \in {None, "eof", "interrupt", "too long", "back", "chosen", "entered"}
  BY DEF T!TerminalInv, T!TypeOK
<1>7. \/ v6' = None /\ v7' = v7 /\ v9' \in {"back", "chosen", "entered"}
      \/ v6' = v6 /\ v6 = "choose" /\ v7' = v7 /\ v9' = v9
      \/ v6' = v6 /\ v6 = "multiline" /\ v7' = Append(v7, line.n) /\ v9' = v9
  BY <1>6 DEF T!Takes
<1>8. v7' \in Seq(Nat)
  <2>1. Append(v7, line.n) \in Seq(Nat)
    BY <1>1, QueueFacts
  <2> QED
    BY <1>1, <1>7, <2>1
<1>9. CASE \/ v6' = None /\ v7' = v7 /\ v9' \in {"back", "chosen", "entered"}
           \/ v6' = v6 /\ v6 = "choose" /\ v7' = v7 /\ v9' = v9
  <2>1. v6' # "multiline" /\ v6' \in {None, v6}
        /\ v9' \in {None, "eof", "interrupt", "too long", "back", "chosen", "entered"}
    BY <1>6, <1>9, NoneIsNoPrompt, Zenon
  <2> QED
    BY <1>3, <1>5, <1>8, <2>1, Zenon
<1>10. CASE v6' = v6 /\ v6 = "multiline" /\ v7' = Append(v7, line.n) /\ v9' = v9
  <2>1. /\ Len(v7') = Len(v7) + 1 /\ DOMAIN v7' = 1..(Len(v7) + 1)
        /\ \A i \in 1..Len(v7) : v7'[i] = v7[i]
        /\ v7'[Len(v7) + 1] = line.n
    BY <1>1, <1>10, QueueFacts
  <2>2. Len(v7) <= Len(v8) /\ \A i \in 1..Len(v7) : v7[i] = v8[Len(v8) - Len(v7) + i]
    BY <1>4, <1>10 DEF T!TerminalInv
  <2>3. ASSUME NEW i \in DOMAIN v7'
        PROVE  v7'[i] = v8'[Len(v8') - Len(v7') + i]
    <3>1. Len(v8') - Len(v7') + i = Len(v8) - Len(v7) + i
      BY <1>3, <1>4, <2>1
    <3>2. CASE i \in 1..Len(v7)
      <4>1. Len(v8) - Len(v7) + i \in 1..Len(v8)
        BY <1>4, <2>2, <3>2
      <4> QED
        BY <3>1, <3>2, <4>1, <2>1, <2>2, <1>3
    <3>3. CASE i = Len(v7) + 1
      <4>1. Len(v8) - Len(v7) + i = Len(v8) + 1
        BY <1>4, <3>3
      <4> QED
        BY <3>1, <3>3, <4>1, <2>1, <1>3
    <3> QED
      BY <2>1, <3>2, <3>3, <1>4
  <2>4. Len(v7') <= Len(v8')
    BY <2>1, <2>2, <1>3, <1>4
  <2> QED
    BY <1>3, <1>5, <1>6, <1>8, <1>10, <2>3, <2>4
<1> QED
  BY <1>7, <1>9, <1>10

(* Where the lines are before a step.                                      *)
LEMMA TerminalFacts ==
  ASSUME T!TerminalInv
  PROVE  /\ v1 \in Seq(T!Line) /\ Len(v1) \in Nat /\ Len(v1) <= MaxLines
         /\ v2 \in Seq(T!Line) /\ Len(v2) \in Nat /\ DOMAIN v2 = 1..Len(v2)
         /\ v5 \in Seq(T!Line) /\ Len(v5) \in Nat /\ Len(v5) <= 1 /\ DOMAIN v5 = 1..Len(v5)
         /\ v7 \in Seq(Nat) /\ Len(v7) \in Nat /\ DOMAIN v7 = 1..Len(v7)
         /\ v8 \in Seq(Nat) /\ Len(v8) \in Nat /\ DOMAIN v8 = 1..Len(v8)
<1>1. /\ v1 \in Seq(T!Line) /\ v2 \in Seq(T!Line) /\ v5 \in Seq(T!Line) /\ Len(v5) <= 1
      /\ v7 \in Seq(Nat) /\ v8 \in Seq(Nat) /\ Len(v1) <= MaxLines
  BY Zenon DEF T!TerminalInv, T!TypeOK
<1>2. /\ Len(v2) \in Nat /\ DOMAIN v2 = 1..Len(v2) /\ Len(v5) \in Nat /\ DOMAIN v5 = 1..Len(v5)
      /\ Len(v1) \in Nat
  BY <1>1, QueueFacts
<1>3. /\ Len(v7) \in Nat /\ DOMAIN v7 = 1..Len(v7) /\ Len(v8) \in Nat /\ DOMAIN v8 = 1..Len(v8)
  BY <1>1, QueueFacts
<1> QED
  BY <1>1, <1>2, <1>3

(* The line event, whether a prompt waits or not.                          *)
LEMMA LineKept ==
  ASSUME T!TerminalInv, T!LineEvent
  PROVE  T!TerminalInv'
<1>1. PICK line \in T!Line :
        /\ line.n = Len(v1) + 1 /\ v1' = Append(v1, line) /\ Len(v1) < MaxLines
        /\ \/ T!IsLast /\ UNCHANGED <<v2, v4, v5>>
           \/ ~T!IsLast /\ v4 /\ v5' = <<line>> /\ v4' = FALSE /\ v2' = v2
           \/ ~T!IsLast /\ ~v4 /\ v2' = Append(v2, line) /\ UNCHANGED <<v4, v5>>
  <2>1. PICK what \in T!Kinds :
          LET line == [n |-> Len(v1) + 1, what |-> what]
          IN  /\ v1' = Append(v1, line)
              /\ CASE T!IsLast -> UNCHANGED <<v2, v4, v5>>
                   [] ~T!IsLast /\ v4 -> v5' = <<line>> /\ v4' = FALSE /\ UNCHANGED v2
                   [] ~T!IsLast /\ ~v4 -> v2' = Append(v2, line) /\ UNCHANGED <<v4, v5>>
    BY Zenon DEF T!LineEvent
  <2> DEFINE line == [n |-> Len(v1) + 1, what |-> what]
  <2>2. Len(v1) < MaxLines
    BY DEF T!LineEvent
  <2>3. Len(v1) + 1 \in 1..MaxLines
    BY <2>2, TerminalFacts, TerminalLimit
  <2>4. line \in T!Line /\ line.n = Len(v1) + 1
    BY <2>3 DEF T!Line
  <2>5. \/ T!IsLast /\ UNCHANGED <<v2, v4, v5>>
        \/ ~T!IsLast /\ v4 /\ v5' = <<line>> /\ v4' = FALSE /\ v2' = v2
        \/ ~T!IsLast /\ ~v4 /\ v2' = Append(v2, line) /\ UNCHANGED <<v4, v5>>
    <3>1. v4 \in BOOLEAN
      BY Zenon DEF T!TerminalInv, T!TypeOK
    <3> QED
      BY <2>1, <3>1
  <2> QED
    BY <2>1, <2>2, <2>4, <2>5
<1>2. v3' = v3 /\ v6' = v6 /\ v7' = v7 /\ v8' = v8 /\ v9' = v9
  BY Zenon DEF T!LineEvent
<1>3. v1' \in Seq(T!Line) /\ Len(v1') = Len(v1) + 1 /\ Len(v1') <= MaxLines
  BY <1>1, TerminalFacts, TerminalLimit, QueueFacts
<1>4. (T!IsLast)' <=> T!IsLast
  BY <1>2, Zenon DEF T!IsLast
<1>5. /\ v2' \in Seq(T!Line) /\ v5' \in Seq(T!Line) /\ Len(v5') <= 1 /\ v4' \in BOOLEAN
      /\ T!InPlace'
      /\ v4' => v2' = <<>> /\ v5' = <<>> /\ v3' = None /\ v6' # None
      /\ v5' # <<>> => v6' # None
      /\ (T!IsLast)' => v2' = <<>>
  <2>1. /\ v4 \in BOOLEAN /\ (v4 => v2 = <<>> /\ v5 = <<>> /\ v3 = None /\ v6 # None)
        /\ (v5 # <<>> => v6 # None) /\ (T!IsLast => v2 = <<>>)
    BY Zenon DEF T!TerminalInv, T!TypeOK
  <2>2. /\ \A i \in DOMAIN v8 : v8[i] = i
        /\ \A i \in DOMAIN v5 : v5[i].n = Len(v8) + i
        /\ \A i \in DOMAIN v2 : v2[i].n = Len(v8) + Len(v5) + i
        /\ ~T!IsLast => Len(v8) + Len(v5) + Len(v2) = Len(v1)
    BY Zenon DEF T!TerminalInv, T!InPlace
  <2>3. CASE T!IsLast /\ UNCHANGED <<v2, v4, v5>>
    <3>1. v2' = v2 /\ v4' = v4 /\ v5' = v5
      BY <2>3
    <3>2. T!InPlace'
      BY <1>2, <1>4, <2>2, <2>3, <3>1 DEF T!InPlace
    <3>3. v2' \in Seq(T!Line) /\ v5' \in Seq(T!Line) /\ Len(v5') <= 1
      BY <3>1, TerminalFacts, Zenon
    <3> QED
      BY <1>2, <1>4, <2>1, <3>1, <3>2, <3>3, Zenon
  <2>4. CASE ~T!IsLast /\ v4 /\ v5' = <<line>> /\ v4' = FALSE /\ v2' = v2
    <3>1. v2 = <<>> /\ v5 = <<>> /\ Len(v2) = 0 /\ Len(v5) = 0 /\ DOMAIN v2' = {}
      BY <2>1, <2>4
    <3>2. /\ v5' \in Seq(T!Line) /\ Len(v5') = 1 /\ DOMAIN v5' = 1..1 /\ v5'[1] = line
      BY <1>1, <2>4
    <3>3. T!InPlace'
      BY <1>1, <1>2, <1>3, <2>2, <2>4, <3>1, <3>2, TerminalFacts DEF T!InPlace
    <3>4. v2' \in Seq(T!Line) /\ v5' \in Seq(T!Line) /\ Len(v5') <= 1
      BY <2>4, <3>2, TerminalFacts
    <3>5. v2' = <<>> /\ v6' # None /\ v4' = FALSE
      BY <1>2, <2>1, <2>4, <3>1, Zenon
    <3> QED
      BY <3>3, <3>4, <3>5, Zenon
  <2>5. CASE ~T!IsLast /\ ~v4 /\ v2' = Append(v2, line) /\ UNCHANGED <<v4, v5>>
    <3>1. v2' = Append(v2, line) /\ v4' = v4 /\ v5' = v5 /\ ~v4 /\ ~(T!IsLast)'
      BY <1>4, <2>5, Zenon
    <3>2. /\ v2' \in Seq(T!Line) /\ Len(v2') = Len(v2) + 1 /\ DOMAIN v2' = 1..(Len(v2) + 1)
          /\ \A i \in 1..Len(v2) : v2'[i] = v2[i]
          /\ v2'[Len(v2) + 1] = line
      <4>1. v2 \in Seq(T!Line) /\ line \in T!Line
        BY TerminalFacts
      <4> QED
        BY <3>1, <4>1, QueueFacts
    <3>3. Len(v8) + Len(v5) + Len(v2) = Len(v1) /\ line.n = Len(v1) + 1
      BY <1>1, <2>2, <2>5
    <3>4. \A i \in DOMAIN v2' : v2'[i].n = Len(v8) + Len(v5) + i
      <4> SUFFICES ASSUME NEW i \in DOMAIN v2' PROVE v2'[i].n = Len(v8) + Len(v5) + i
        OBVIOUS
      <4>1. CASE i \in 1..Len(v2)
        BY <2>2, <3>2, <4>1, TerminalFacts
      <4>2. CASE i = Len(v2) + 1
        <5>1. v2'[i] = line /\ line.n = Len(v1) + 1
          BY <3>2, <3>3, <4>2
        <5>2. Len(v8) \in Nat /\ Len(v5) \in Nat /\ Len(v2) \in Nat
          BY TerminalFacts, Zenon
        <5> QED
          BY <3>3, <4>2, <5>1, <5>2
      <4> QED
        BY <3>2, <4>1, <4>2, TerminalFacts
    <3>5. Len(v8) + Len(v5) + Len(v2') = Len(v1')
      <4>1. Len(v8) \in Nat /\ Len(v5) \in Nat /\ Len(v2) \in Nat
        BY TerminalFacts, Zenon
      <4>2. Len(v2') = Len(v2) + 1 /\ Len(v1') = Len(v1) + 1
        BY <1>3, <3>2
      <4> QED
        BY <3>3, <4>1, <4>2
    <3>6. T!InPlace'
      <4>1. v8' = v8 /\ v5' = v5
        BY <1>2, <3>1
      <4> QED
        BY <2>2, <3>4, <3>5, <4>1, Zenon DEF T!InPlace
    <3>7. v2' \in Seq(T!Line) /\ v5' \in Seq(T!Line) /\ Len(v5') <= 1
      BY <3>1, <3>2, TerminalFacts, Zenon
    <3> QED
      BY <1>2, <2>1, <3>1, <3>6, <3>7, Zenon
  <2> QED
    BY <1>1, <2>3, <2>4, <2>5
<1>6. T!TypeOK'
  BY <1>2, <1>3, <1>5, Zenon DEF T!TerminalInv, T!TypeOK
<1>7. v8' \in Seq(Nat) /\ v7' \in Seq(Nat)
      /\ (v6' = "multiline" =>
           /\ Len(v7') <= Len(v8')
           /\ \A i \in DOMAIN v7' : v7'[i] = v8'[Len(v8') - Len(v7') + i])
  BY <1>2, Zenon DEF T!TerminalInv
<1> QED
  BY <1>3, <1>5, <1>6, <1>7, Zenon DEF T!TerminalInv

(* The end of input, an interrupt and a line that is too long.             *)
LEMMA FinishKept ==
  ASSUME T!TerminalInv, NEW why \in {"eof", "interrupt", "too long"}, T!Finish(why),
         UNCHANGED <<v1, v5, v7, v8>>
  PROVE  T!TerminalInv'
<1>1. v1' = v1 /\ v5' = v5 /\ v7' = v7 /\ v8' = v8 /\ v4' = FALSE
  BY DEF T!Finish
<1>2. /\ v3 \in {None, "eof", "interrupt", "too long"} /\ v4 \in BOOLEAN
      /\ v6 \in {None, "choose", "text", "multiline"}
      /\ v9 \in {None, "eof", "interrupt", "too long", "back", "chosen", "entered"}
      /\ (v4 => v5 = <<>>) /\ (v5 # <<>> => v6 # None) /\ (T!IsLast => v2 = <<>>)
  BY Zenon DEF T!TerminalInv, T!TypeOK
<1>3. v3' \in {"eof", "interrupt", "too long"}
  BY <1>2, Zenon DEF T!Finish
<1>4. \/ ~v4 /\ v6' = v6 /\ v9' = v9
      \/ v4 /\ v6' = None /\ v9' = v3'
  BY <1>2, Zenon DEF T!Finish
<1>5. \/ v2' = v2 /\ ((T!IsLast)' <=> T!IsLast)
      \/ v2' = <<>> /\ (T!IsLast)'
  <2>1. CASE why = "eof"
    <3>1. /\ v2' = v2
          /\ v3 # None => v3' = v3
          /\ v3 = None => v3' = "eof"
      BY <2>1 DEF T!Finish
    <3> QED
      BY <3>1, NoneIsNoEnd, Zenon DEF T!IsLast
  <2>2. CASE why # "eof"
    <3>1. v2' = <<>> /\ v3' = why
      BY <2>2 DEF T!Finish
    <3> QED
      BY <2>2, <3>1, Zenon DEF T!IsLast
  <2> QED
    BY <2>1, <2>2
<1>6. v2' \in Seq(T!Line) /\ DOMAIN <<>> = {}
  BY <1>5, EmptyQueue, TerminalFacts, Zenon
<1>7. T!InPlace'
  <2>1. /\ \A i \in DOMAIN v8 : v8[i] = i
        /\ \A i \in DOMAIN v5 : v5[i].n = Len(v8) + i
        /\ \A i \in DOMAIN v2 : v2[i].n = Len(v8) + Len(v5) + i
        /\ ~T!IsLast => Len(v8) + Len(v5) + Len(v2) = Len(v1)
    BY Zenon DEF T!TerminalInv, T!InPlace
  <2>2. \A i \in DOMAIN v2' : v2'[i].n = Len(v8) + Len(v5) + i
    BY <1>5, <1>6, <2>1, Zenon
  <2>3. ~(T!IsLast)' => Len(v8) + Len(v5) + Len(v2') = Len(v1)
    BY <1>5, <2>1, Zenon
  <2> QED
    BY <1>1, <2>1, <2>2, <2>3, Zenon DEF T!InPlace
<1>8. T!TypeOK'
  <2>1. /\ v6' \in {None, "choose", "text", "multiline"}
        /\ v9' \in {None, "eof", "interrupt", "too long", "back", "chosen", "entered"}
        /\ v3' \in {None, "eof", "interrupt", "too long"} /\ v4' \in BOOLEAN
    BY <1>1, <1>2, <1>3, <1>4, Zenon
  <2> QED
    BY <1>1, <1>6, <2>1, TerminalFacts, Zenon DEF T!TypeOK
<1>9. /\ v4' => v2' = <<>> /\ v5' = <<>> /\ v3' = None /\ v6' # None
      /\ v5' # <<>> => v6' # None
      /\ (T!IsLast)' => v2' = <<>>
  BY <1>1, <1>2, <1>4, <1>5, Zenon
<1>10. v6' = "multiline" =>
         /\ Len(v7') <= Len(v8')
         /\ \A i \in DOMAIN v7' : v7'[i] = v8'[Len(v8') - Len(v7') + i]
  <2>1. v6' = "multiline" => v6 = "multiline"
    BY <1>4, NoneIsNoPrompt, Zenon
  <2> QED
    BY <1>1, <2>1, Zenon DEF T!TerminalInv
<1>11. v8' \in Seq(Nat) /\ v7' \in Seq(Nat) /\ Len(v1') <= MaxLines
  BY <1>1, TerminalFacts, Zenon
<1> QED
  BY <1>7, <1>8, <1>9, <1>10, <1>11, Zenon DEF T!TerminalInv

LEMMA EndsKept ==
  ASSUME T!TerminalInv, T!TooLong \/ T!InputCloses \/ T!Interrupt
  PROVE  T!TerminalInv'
<1>1. CASE T!TooLong
  BY <1>1, FinishKept DEF T!TooLong
<1>2. CASE T!InputCloses
  BY <1>2, FinishKept DEF T!InputCloses
<1>3. CASE T!Interrupt
  BY <1>3, FinishKept DEF T!Interrupt
<1> QED
  BY <1>1, <1>2, <1>3

(* A prompt begins.                                                        *)
LEMMA AskKept ==
  ASSUME T!TerminalInv, NEW kind \in {"choose", "text", "multiline"}, T!Ask(kind)
  PROVE  T!TerminalInv'
<1>1. /\ v6 = None /\ v6' = kind /\ v7' = <<>> /\ v9' = None
      /\ v1' = v1 /\ v2' = v2 /\ v3' = v3 /\ v4' = v4 /\ v5' = v5 /\ v8' = v8
  BY Zenon DEF T!Ask
<1>2. (T!IsLast)' <=> T!IsLast
  BY <1>1, Zenon DEF T!IsLast
<1>3. T!TypeOK'
  <2>1. v6' \in {None, "choose", "text", "multiline"}
    BY <1>1, Zenon
  <2> QED
    BY <1>1, <2>1, Zenon DEF T!TerminalInv, T!TypeOK
<1>4. T!InPlace'
  BY <1>1, <1>2, Zenon DEF T!TerminalInv, T!InPlace
<1>5. v7' \in Seq(Nat) /\ DOMAIN v7' = {} /\ Len(v7') = 0
  BY <1>1
<1>6. /\ Len(v7') <= Len(v8')
      /\ \A i \in DOMAIN v7' : v7'[i] = v8'[Len(v8') - Len(v7') + i]
  BY <1>1, <1>5, TerminalFacts
<1>7. ~v4 /\ v5 = <<>>
  BY <1>1, Zenon DEF T!TerminalInv
<1> QED
  BY <1>1, <1>2, <1>3, <1>4, <1>5, <1>6, <1>7, Zenon DEF T!TerminalInv

(* A line is taken from the queue.                                         *)
LEMMA HeadKept ==
  ASSUME T!TerminalInv, v6 # None, ~v4, v5 = <<>>, v2 # <<>>, T!Takes(Head(v2)), v2' = Tail(v2),
         UNCHANGED <<v1, v3, v4, v5>>
  PROVE  T!TerminalInv'
<1>1. v1' = v1 /\ v3' = v3 /\ v4' = v4 /\ v5' = <<>> /\ v5 = <<>>
  OBVIOUS
<1>2. Head(v2) \in T!Line /\ Head(v2) = v2[1] /\ 1 \in DOMAIN v2 /\ Len(v2) # 0
  <2>1. v2 \in Seq(T!Line) /\ Len(v2) \in Nat /\ DOMAIN v2 = 1..Len(v2)
    BY TerminalFacts, Zenon
  <2>2. Len(v2) # 0 /\ Head(v2) = v2[1]
    BY <2>1, QueueFacts
  <2>3. 1 \in DOMAIN v2
    BY <2>1, <2>2
  <2> QED
    BY <2>1, <2>2, <2>3, QueueFacts
<1>3. /\ v2' \in Seq(T!Line) /\ Len(v2') = Len(v2) - 1 /\ DOMAIN v2' = 1..(Len(v2) - 1)
      /\ \A i \in DOMAIN v2' : v2'[i] = v2[i + 1]
  <2>1. v2 \in Seq(T!Line) /\ v2 # <<>> /\ v2' = Tail(v2)
    BY TerminalFacts, Zenon
  <2> QED
    BY <2>1, QueueFacts
<1>4. /\ \A i \in DOMAIN v2 : v2[i].n = Len(v8) + Len(v5) + i
      /\ ~T!IsLast => Len(v8) + Len(v5) + Len(v2) = Len(v1)
      /\ T!IsLast => v2 = <<>>
  BY Zenon DEF T!TerminalInv, T!InPlace
<1>5. Len(v5) = 0 /\ Len(v8) \in Nat /\ Len(v2) \in Nat /\ DOMAIN v2 = 1..Len(v2)
  <2>1. Len(v8) \in Nat /\ Len(v2) \in Nat /\ DOMAIN v2 = 1..Len(v2)
    BY TerminalFacts, Zenon
  <2> QED
    BY <1>1, <2>1
<1>6. Head(v2).n = Len(v8) + 1
  BY <1>2, <1>4, <1>5
<1>7. /\ v8' \in Seq(Nat) /\ Len(v8') = Len(v8) + 1 /\ \A i \in DOMAIN v8' : v8'[i] = i
      /\ v6' \in {None, v6} /\ v7' \in Seq(Nat)
      /\ v9' \in {None, "eof", "interrupt", "too long", "back", "chosen", "entered"}
      /\ v6' = "multiline" =>
           /\ Len(v7') <= Len(v8')
           /\ \A i \in DOMAIN v7' : v7'[i] = v8'[Len(v8') - Len(v7') + i]
  BY <1>2, <1>6, TakesNext
<1>8. ~(T!IsLast)' /\ ~T!IsLast
  BY <1>1, <1>4, Zenon DEF T!IsLast
<1>9. \A i \in DOMAIN v2' : v2'[i].n = Len(v8') + Len(v5') + i
  <2> SUFFICES ASSUME NEW i \in DOMAIN v2' PROVE v2'[i].n = Len(v8') + Len(v5') + i
    OBVIOUS
  <2>1. i + 1 \in DOMAIN v2 /\ i \in Nat
    BY <1>3, <1>5
  <2>2. v2'[i].n = Len(v8) + 0 + (i + 1)
    BY <1>3, <1>4, <1>5, <2>1
  <2>3. Len(v8') = Len(v8) + 1 /\ Len(v5') = 0
    BY <1>1, <1>7
  <2> QED
    BY <1>5, <2>1, <2>2, <2>3
<1>10. Len(v8') + Len(v5') + Len(v2') = Len(v1')
  <2>1. Len(v8') = Len(v8) + 1 /\ Len(v5') = 0 /\ Len(v2') = Len(v2) - 1 /\ v1' = v1
    BY <1>1, <1>3, <1>7
  <2>2. Len(v8) + 0 + Len(v2) = Len(v1)
    BY <1>4, <1>5, <1>8
  <2> QED
    BY <1>5, <2>1, <2>2
<1>11. T!InPlace'
  <2>1. DOMAIN v5' = {}
    BY <1>1
  <2> QED
    BY <1>7, <1>9, <1>10, <2>1, Zenon DEF T!InPlace
<1>12. T!TypeOK'
  <2>1. v6 \in {None, "choose", "text", "multiline"} /\ v3 \in {None, "eof", "interrupt", "too long"}
        /\ v4 \in BOOLEAN /\ Len(v5) <= 1 /\ v5 \in Seq(T!Line) /\ v1 \in Seq(T!Line)
    BY Zenon DEF T!TerminalInv, T!TypeOK
  <2>2. v6' \in {None, "choose", "text", "multiline"}
    BY <1>7, <2>1, Zenon
  <2> QED
    BY <1>1, <1>3, <1>7, <2>1, <2>2, Zenon DEF T!TypeOK
<1>13. Len(v1') <= MaxLines
  BY <1>1, TerminalFacts, Zenon
<1>14. /\ v4' => v2' = <<>> /\ v5' = <<>> /\ v3' = None /\ v6' # None
       /\ v5' # <<>> => v6' # None
       /\ (T!IsLast)' => v2' = <<>>
  <2>1. ~v4'
    BY <1>1
  <2> QED
    BY <1>1, <1>8, <2>1, Zenon
<1> QED
  BY <1>7, <1>11, <1>12, <1>13, <1>14, Zenon DEF T!TerminalInv

(* #line, with a line, at the end of input, and with neither.              *)
LEMMA ReadKept ==
  ASSUME T!TerminalInv, T!Read
  PROVE  T!TerminalInv'
<1>1. v6 # None /\ ~v4 /\ v5 = <<>> /\ v1' = v1 /\ v3' = v3 /\ v5' = v5
  BY Zenon DEF T!Read
<1>2. \/ v2 # <<>> /\ T!Takes(Head(v2)) /\ v2' = Tail(v2) /\ v4' = v4
      \/ v3 # None /\ v6' = None /\ v9' = v3 /\ v2' = v2 /\ v4' = v4 /\ v7' = v7 /\ v8' = v8
      \/ /\ v2 = <<>> /\ v3 = None /\ v4' = TRUE
         /\ v2' = v2 /\ v6' = v6 /\ v7' = v7 /\ v8' = v8 /\ v9' = v9
  BY DEF T!Read
<1>3. CASE v2 # <<>> /\ T!Takes(Head(v2)) /\ v2' = Tail(v2) /\ v4' = v4
  BY <1>1, <1>3, HeadKept
<1>4. (T!IsLast)' <=> T!IsLast
  BY <1>1, Zenon DEF T!IsLast
<1>5. CASE v3 # None /\ v6' = None /\ v9' = v3 /\ v2' = v2 /\ v4' = v4 /\ v7' = v7 /\ v8' = v8
  <2>1. T!InPlace'
    BY <1>1, <1>4, <1>5, Zenon DEF T!TerminalInv, T!InPlace
  <2>2. T!TypeOK'
    BY <1>1, <1>5, Zenon DEF T!TerminalInv, T!TypeOK
  <2>3. v6' # "multiline"
    BY <1>5, NoneIsNoPrompt, Zenon
  <2> QED
    BY <1>1, <1>4, <1>5, <2>1, <2>2, <2>3, Zenon DEF T!TerminalInv
<1>6. CASE /\ v2 = <<>> /\ v3 = None /\ v4' = TRUE
           /\ v2' = v2 /\ v6' = v6 /\ v7' = v7 /\ v8' = v8 /\ v9' = v9
  <2>1. T!InPlace'
    BY <1>1, <1>4, <1>6, Zenon DEF T!TerminalInv, T!InPlace
  <2>2. T!TypeOK'
    BY <1>1, <1>6, Zenon DEF T!TerminalInv, T!TypeOK
  <2> QED
    BY <1>1, <1>4, <1>6, <2>1, <2>2, Zenon DEF T!TerminalInv
<1> QED
  BY <1>2, <1>3, <1>5, <1>6

(* The continuation of a prompt that a line was handed to.                 *)
LEMMA ResumeKept ==
  ASSUME T!TerminalInv, T!Resume
  PROVE  T!TerminalInv'
<1>1. v5 # <<>> /\ T!Takes(v5[1]) /\ v5' = <<>> /\ v1' = v1 /\ v2' = v2 /\ v3' = v3 /\ v4' = v4
  BY Zenon DEF T!Resume
<1>2. v6 # None /\ ~v4
  BY <1>1, Zenon DEF T!TerminalInv
<1>3. Len(v5) = 1 /\ v5[1] \in T!Line /\ 1 \in DOMAIN v5
  <2>1. v5 \in Seq(T!Line) /\ Len(v5) \in Nat /\ Len(v5) <= 1 /\ DOMAIN v5 = 1..Len(v5)
    BY TerminalFacts, Zenon
  <2>2. Len(v5) # 0
    BY <1>1, <2>1, QueueFacts
  <2>3. Len(v5) = 1
    BY <2>1, <2>2
  <2>4. 1 \in DOMAIN v5
    BY <2>1, <2>3
  <2> QED
    BY <2>1, <2>3, <2>4, QueueFacts
<1>4. /\ \A i \in DOMAIN v5 : v5[i].n = Len(v8) + i
      /\ \A i \in DOMAIN v2 : v2[i].n = Len(v8) + Len(v5) + i
      /\ ~T!IsLast => Len(v8) + Len(v5) + Len(v2) = Len(v1)
      /\ T!IsLast => v2 = <<>>
  BY Zenon DEF T!TerminalInv, T!InPlace
<1>5. Len(v8) \in Nat /\ Len(v2) \in Nat /\ DOMAIN v2 = 1..Len(v2)
  BY TerminalFacts, Zenon
<1>6. v5[1].n = Len(v8) + 1
  BY <1>3, <1>4
<1>7. /\ v8' \in Seq(Nat) /\ Len(v8') = Len(v8) + 1 /\ \A i \in DOMAIN v8' : v8'[i] = i
      /\ v6' \in {None, v6} /\ v7' \in Seq(Nat)
      /\ v9' \in {None, "eof", "interrupt", "too long", "back", "chosen", "entered"}
      /\ v6' = "multiline" =>
           /\ Len(v7') <= Len(v8')
           /\ \A i \in DOMAIN v7' : v7'[i] = v8'[Len(v8') - Len(v7') + i]
  BY <1>1, <1>2, <1>3, <1>6, TakesNext
<1>8. (T!IsLast)' <=> T!IsLast
  BY <1>1, Zenon DEF T!IsLast
<1>9. Len(v5') = 0 /\ DOMAIN v5' = {} /\ v5' \in Seq(T!Line) /\ Len(v5') <= 1
  <2>1. Len(v5') = 0 /\ DOMAIN v5' = {}
    BY <1>1
  <2> QED
    BY <1>1, <2>1, EmptyQueue
<1>10. \A i \in DOMAIN v2' : v2'[i].n = Len(v8') + Len(v5') + i
  <2> SUFFICES ASSUME NEW i \in DOMAIN v2 PROVE v2[i].n = Len(v8') + Len(v5') + i
    BY <1>1, Zenon
  <2>1. i \in Nat /\ v2[i].n = Len(v8) + Len(v5) + i
    BY <1>4, <1>5
  <2>2. Len(v8') = Len(v8) + 1
    BY <1>7, Zenon
  <2> QED
    BY <1>3, <1>5, <1>9, <2>1, <2>2
<1>11. Len(v8') + Len(v5') + Len(v2') = Len(v8) + Len(v5) + Len(v2)
  <2>1. Len(v8') = Len(v8) + 1 /\ v2' = v2
    BY <1>1, <1>7, Zenon
  <2> QED
    BY <1>3, <1>5, <1>9, <2>1
<1>12. T!InPlace'
  BY <1>1, <1>4, <1>7, <1>8, <1>9, <1>10, <1>11, Zenon DEF T!InPlace
<1>13. T!TypeOK'
  <2>1. v6 \in {None, "choose", "text", "multiline"} /\ v3 \in {None, "eof", "interrupt", "too long"}
        /\ v4 \in BOOLEAN /\ v1 \in Seq(T!Line) /\ v2 \in Seq(T!Line)
    BY Zenon DEF T!TerminalInv, T!TypeOK
  <2>2. v6' \in {None, "choose", "text", "multiline"}
    BY <1>7, <2>1, Zenon
  <2> QED
    BY <1>1, <1>7, <1>9, <2>1, <2>2, Zenon DEF T!TypeOK
<1>14. Len(v1') <= MaxLines
  BY <1>1, TerminalFacts, Zenon
<1> QED
  BY <1>1, <1>2, <1>4, <1>7, <1>8, <1>12, <1>13, <1>14, Zenon DEF T!TerminalInv

LEMMA TerminalKept ==
  ASSUME T!TerminalInv, T!Next \/ UNCHANGED T!tvars
  PROVE  T!TerminalInv'
<1>1. ASSUME T!Next PROVE T!TerminalInv'
  BY <1>1, LineKept, EndsKept, AskKept, ReadKept, ResumeKept DEF T!Next
<1>2. ASSUME UNCHANGED T!tvars PROVE T!TerminalInv'
  <2>1. /\ v1' = v1 /\ v2' = v2 /\ v3' = v3 /\ v4' = v4 /\ v5' = v5 /\ v6' = v6 /\ v7' = v7
        /\ v8' = v8 /\ v9' = v9
    BY <1>2 DEF T!tvars
  <2> QED
    BY <2>1, Zenon DEF T!TerminalInv, T!TypeOK, T!InPlace, T!IsLast
<1> QED
  BY <1>1, <1>2

(* What the prompts were given, what is handed over and what is queued are *)
(* together the lines in order.                                            *)
LEMMA LinesAreInOrder ==
  ASSUME T!TerminalInv
  PROVE  T!LinesReachPrompts
<1> DEFINE taken == T!Numbers(v5)
           queued == T!Numbers(v2)
           known == v8 \o taken \o queued
<1>1. /\ \A i \in DOMAIN v8 : v8[i] = i
      /\ \A i \in DOMAIN v5 : v5[i].n = Len(v8) + i
      /\ \A i \in DOMAIN v2 : v2[i].n = Len(v8) + Len(v5) + i
      /\ ~T!IsLast => Len(v8) + Len(v5) + Len(v2) = Len(v1)
  BY Zenon DEF T!TerminalInv, T!InPlace
<1>2. /\ v8 \in Seq(Nat) /\ Len(v8) \in Nat /\ DOMAIN v8 = 1..Len(v8)
      /\ Len(v5) \in Nat /\ DOMAIN v5 = 1..Len(v5)
      /\ Len(v2) \in Nat /\ DOMAIN v2 = 1..Len(v2)
      /\ v5 \in Seq(T!Line) /\ v2 \in Seq(T!Line)
  BY TerminalFacts, Zenon
<1>3. ASSUME NEW s \in Seq(T!Line)
      PROVE  /\ T!Numbers(s) \in Seq(Nat) /\ Len(T!Numbers(s)) = Len(s)
             /\ \A i \in 1..Len(s) : T!Numbers(s)[i] = s[i].n
  <2>1. Len(s) \in Nat /\ DOMAIN s = 1..Len(s) /\ \A i \in DOMAIN s : s[i] \in T!Line
    BY QueueFacts
  <2>2. \A line \in T!Line : line.n \in Nat
    BY TerminalLimit DEF T!Line
  <2>3. T!Numbers(s) = [i \in 1..Len(s) |-> s[i].n]
    BY <2>1 DEF T!Numbers
  <2>4. \A i \in 1..Len(s) : s[i].n \in Nat
    BY <2>1, <2>2
  <2> QED
    BY <2>1, <2>3, <2>4
<1>4. /\ taken \in Seq(Nat) /\ Len(taken) = Len(v5) /\ \A i \in 1..Len(v5) : taken[i] = Len(v8) + i
      /\ queued \in Seq(Nat) /\ Len(queued) = Len(v2)
      /\ \A i \in 1..Len(v2) : queued[i] = Len(v8) + Len(v5) + i
  <2>1. /\ taken \in Seq(Nat) /\ Len(taken) = Len(v5) /\ \A i \in 1..Len(v5) : taken[i] = v5[i].n
    BY <1>2, <1>3
  <2>2. /\ queued \in Seq(Nat) /\ Len(queued) = Len(v2) /\ \A i \in 1..Len(v2) : queued[i] = v2[i].n
    BY <1>2, <1>3
  <2> QED
    BY <1>1, <1>2, <2>1, <2>2
<1> HIDE DEF taken, queued
<1>5. /\ v8 \o taken \in Seq(Nat) /\ Len(v8 \o taken) = Len(v8) + Len(v5)
      /\ \A i \in 1..(Len(v8) + Len(v5)) : (v8 \o taken)[i] = i
  <2>1. /\ v8 \o taken \in Seq(Nat) /\ Len(v8 \o taken) = Len(v8) + Len(taken)
        /\ \A i \in 1..(Len(v8) + Len(taken)) :
             (v8 \o taken)[i] = IF i <= Len(v8) THEN v8[i] ELSE taken[i - Len(v8)]
    <3>1. v8 \in Seq(Nat) /\ taken \in Seq(Nat)
      BY <1>2, <1>4, Zenon
    <3> QED
      BY <3>1, ConcatProperties
  <2>2. \A i \in 1..(Len(v8) + Len(v5)) : (v8 \o taken)[i] = i
    <3> SUFFICES ASSUME NEW i \in 1..(Len(v8) + Len(v5)) PROVE (v8 \o taken)[i] = i
      OBVIOUS
    <3>1. CASE i <= Len(v8)
      <4>1. i \in DOMAIN v8
        BY <1>2, <3>1
      <4>2. (v8 \o taken)[i] = v8[i]
        BY <1>4, <2>1, <3>1
      <4> QED
        BY <1>1, <4>1, <4>2
    <3>2. CASE ~(i <= Len(v8))
      <4>1. i - Len(v8) \in 1..Len(v5)
        BY <1>2, <3>2
      <4>2. (v8 \o taken)[i] = taken[i - Len(v8)]
        BY <1>4, <2>1, <3>2
      <4> QED
        BY <1>2, <1>4, <4>1, <4>2
    <3> QED
      BY <3>1, <3>2
  <2> QED
    BY <1>4, <2>1, <2>2
<1>6. /\ known \in Seq(Nat) /\ Len(known) = Len(v8) + Len(v5) + Len(v2)
      /\ \A i \in 1..Len(known) : known[i] = i
  <2> DEFINE first == v8 \o taken
  <2>1. /\ first \in Seq(Nat) /\ Len(first) = Len(v8) + Len(v5) /\ Len(first) \in Nat
        /\ \A i \in 1..Len(first) : first[i] = i
    BY <1>2, <1>5
  <2> HIDE DEF first
  <2>2. /\ first \o queued \in Seq(Nat) /\ Len(first \o queued) = Len(first) + Len(queued)
        /\ \A i \in 1..(Len(first) + Len(queued)) :
             (first \o queued)[i] = IF i <= Len(first) THEN first[i] ELSE queued[i - Len(first)]
    BY <1>4, <2>1, ConcatProperties
  <2>3. \A i \in 1..(Len(first) + Len(v2)) : (first \o queued)[i] = i
    <3> SUFFICES ASSUME NEW i \in 1..(Len(first) + Len(v2)) PROVE (first \o queued)[i] = i
      OBVIOUS
    <3>1. CASE i <= Len(first)
      BY <1>2, <1>4, <2>1, <2>2, <3>1
    <3>2. CASE ~(i <= Len(first))
      <4>1. i - Len(first) \in 1..Len(v2)
        BY <1>2, <2>1, <3>2
      <4>2. (first \o queued)[i] = queued[i - Len(first)]
        BY <1>4, <2>2, <3>2
      <4> QED
        BY <1>2, <1>4, <2>1, <4>1, <4>2
    <3> QED
      BY <3>1, <3>2
  <2>4. known = first \o queued
    BY DEF first
  <2> QED
    BY <1>2, <1>4, <2>1, <2>2, <2>3, <2>4
<1> HIDE DEF known
<1>7. known = [i \in 1..Len(known) |-> i]
  <2>1. known = [i \in 1..Len(known) |-> known[i]]
    BY <1>6
  <2> QED
    BY <1>6, <2>1
<1>8. ~T!IsLast => Len(known) = Len(v1)
  BY <1>1, <1>6, Zenon
<1>9. /\ v4 => v2 = <<>> /\ v5 = <<>> /\ v3 = None /\ v6 # None
      /\ v6 = "multiline" => \A i \in DOMAIN v7 : v7[i] = v8[Len(v8) - Len(v7) + i]
  BY Zenon DEF T!TerminalInv
<1> QED
  BY <1>7, <1>8, <1>9, Zenon DEF T!LinesReachPrompts, known, taken, queued

-----------------------------------------------------------------------------
(* Dialogs: v1 kind, v2 mode, v3 revision, v4 receipts, v5 wire, v6        *)
(* commands, v7 snapshot, v8 told, v9 pending, v10 call, v11 upload, v12  *)
(* open, v13 losses, v14 refused.                                          *)

LEMMA DialogLimits ==
  /\ MaxCommands \in Nat /\ MaxLosses \in Nat
  /\ DialogRevisions \in Nat \ {0}
BY ServicesAssumption DEF D!DialogsAssumption

LEMMA DialogTypes ==
  ASSUME D!DialogsInv
  PROVE  /\ v3 \in Nat /\ v7 \in Nat /\ v9 \in Nat
         /\ v4 \in [1..MaxCommands -> {"none", "committed", "proposed"}]
         /\ v6 \in Seq(Nat) /\ Len(v6) \in Nat /\ DOMAIN v6 = 1..Len(v6)
         /\ Len(v6) <= MaxCommands /\ v9 <= Len(v6)
         /\ \A i \in 1..Len(v6) : v6[i] \in Nat
<1>1. /\ v3 \in 1..DialogRevisions /\ v7 \in 1..DialogRevisions
      /\ v6 \in Seq(Nat) /\ Len(v6) <= MaxCommands
      /\ v4 \in [1..MaxCommands -> {"none", "committed", "proposed"}]
      /\ v9 \in 0..Len(v6)
  BY DEF D!DialogsInv, D!TypeOK, D!Ids
<1>2. Len(v6) \in Nat /\ DOMAIN v6 = 1..Len(v6)
  BY <1>1
<1>3. v3 \in Nat /\ v7 \in Nat /\ v9 \in Nat /\ v9 <= Len(v6)
  BY <1>1, <1>2, DialogLimits
<1>4. \A i \in 1..Len(v6) : v6[i] \in Nat
  BY <1>1, ElementOfSeq
<1> QED
  BY <1>1, <1>2, <1>3, <1>4

LEMMA DialogsStart == D!Init => D!DialogsInv
<1> SUFFICES ASSUME D!Init PROVE D!DialogsInv
  OBVIOUS
<1>1. v6 = <<>> /\ Len(v6) = 0 /\ v6 \in Seq(Nat) /\ DOMAIN v6 = {}
  BY DEF D!Init
<1>2. D!TypeOK
  <2>1. 1 \in 1..DialogRevisions /\ Len(v6) <= MaxCommands /\ 0 \in 0..Len(v6)
    BY <1>1, DialogLimits
  <2> QED
    BY <1>1, <2>1 DEF D!Init, D!TypeOK, D!Ids, D!NoCall
<1>3. D!Answered
  BY <1>1 DEF D!Init, D!Answered, D!NoCall
<1>4. D!Receipted /\ D!Bound /\ D!Known
  BY <1>1 DEF D!Init, D!Receipted, D!Bound, D!Known
<1> QED
  BY <1>1, <1>2, <1>3, <1>4 DEF D!Init, D!DialogsInv

(* The server handles a command: a receipt is made once and stays, and one *)
(* whose base has passed never gets it.                                    *)
LEMMA ServeFacts ==
  ASSUME D!DialogsInv, NEW id \in D!Ids, D!Serve(id)
  PROVE  /\ id \in 1..Len(v6) /\ v3' \in {v3, v3 + 1} /\ v3' \in 1..DialogRevisions
         /\ v4' = [v4 EXCEPT ![id] = v4'[id]] /\ v4'[id] \in {"none", "committed", "proposed"}
         /\ v4[id] # "none" => v4'[id] = v4[id] /\ v3' = v3
         /\ v4[id] = "none" /\ v6[id] < v3 => v4'[id] = "none" /\ v3' = v3
         /\ v4'[id] = "none" => v6[id] < v3
         /\ v4'[id] = "proposed" => v2 = "review-each-change"
         /\ v4'[id] = "committed" => v2 = "autonomous"
         /\ \/ v10' = v10
            \/ /\ v10.step = "sent" /\ v9 = id
               /\ \/ v4'[id] = "none" /\ v10' = [v10 EXCEPT !.answer = "conflict"]
                  \/ v4'[id] # "none" /\ v10' = [v10 EXCEPT !.answer = v4'[id]]
<1> DEFINE is == D!Verdict(id)
<1>1. /\ id \in v5 /\ id \in 1..Len(v6) /\ v4[id] \in {"none", "committed", "proposed"}
      /\ v6[id] \in Nat /\ v6[id] <= v3 /\ v3 \in 1..DialogRevisions
      /\ v2 \in {"autonomous", "review-each-change"}
  BY DialogTypes DEF D!Serve, D!DialogsInv, D!TypeOK, D!Receipted, D!Ids
<1>2. /\ v4' = [v4 EXCEPT ![id] = IF is = "conflict" THEN v4[id] ELSE is]
      /\ IF is = "committed" /\ v4[id] # "committed"
           THEN v3 < DialogRevisions /\ v3' = v3 + 1
           ELSE v3' = v3
      /\ v10' = IF v10.step = "sent" /\ v10.answer = "none" /\ v9 = id
                  THEN [v10 EXCEPT !.answer = is] ELSE v10
  BY DEF D!Serve
<1>3. /\ v4[id] # "none" => is = v4[id]
      /\ v4[id] = "none" /\ v6[id] # v3 => is = "conflict"
      /\ v4[id] = "none" /\ v6[id] = v3 =>
           is = IF v2 = "autonomous" THEN "committed" ELSE "proposed"
  BY <1>1 DEF D!Verdict
<1> HIDE DEF is
<1>4. v4'[id] = IF is = "conflict" THEN v4[id] ELSE is
  BY <1>2, DialogTypes DEF D!Ids
<1>5. /\ v4[id] = "committed" => v2 = "autonomous"
      /\ v4[id] = "proposed" => v2 = "review-each-change"
  BY <1>1 DEF D!DialogsInv, D!Receipted
<1>6. v3' \in {v3, v3 + 1} /\ v3' \in 1..DialogRevisions
  BY <1>1, <1>2, DialogLimits
<1>7. v4' = [v4 EXCEPT ![id] = v4'[id]]
  BY <1>2, <1>4
<1>8. /\ v4[id] # "none" => v4'[id] = v4[id] /\ v3' = v3
      /\ v4[id] = "none" /\ v6[id] < v3 => v4'[id] = "none" /\ v3' = v3
      /\ v4'[id] = "none" => v6[id] < v3
      /\ v4'[id] = "proposed" => v2 = "review-each-change"
      /\ v4'[id] = "committed" => v2 = "autonomous"
      /\ v4'[id] \in {"none", "committed", "proposed"}
  BY <1>1, <1>2, <1>3, <1>4, <1>5
<1>9. \/ v10' = v10
      \/ /\ v10.step = "sent" /\ v9 = id
         /\ \/ v4'[id] = "none" /\ v10' = [v10 EXCEPT !.answer = "conflict"]
            \/ v4'[id] # "none" /\ v10' = [v10 EXCEPT !.answer = v4'[id]]
  BY <1>1, <1>2, <1>3, <1>4
<1> QED
  BY <1>1, <1>6, <1>7, <1>8, <1>9

(* Steps that neither make a command nor a receipt.                        *)
LEMMA QuietKeeps ==
  ASSUME D!DialogsInv, v1' = v1, v2' = v2, v4' = v4, v6' = v6,
         v5' \subseteq v5 \/ v5' \subseteq 1..Len(v6), v3' \in Nat, v3' >= v3, v7' \in Nat,
         v7' <= v3', v8 \subseteq v8', \A i \in v8' : v4[i] = "committed",
         v12' = "recorded" => v8' # {}, v14 => v14',
         \/ v9' = v9
         \/ v9' = 0 /\ v1 = "decision" /\ \A i \in 1..Len(v6) : i = v9 /\ ~v14' => D!Settled(i)'
  PROVE  D!Receipted' /\ D!Bound' /\ D!Known'
<1>0. /\ v3 \in Nat /\ v7 \in Nat /\ Len(v6) \in Nat
      /\ \A i \in 1..Len(v6) : v6[i] \in Nat
  BY DialogTypes
<1>1. D!Receipted'
  <2>1. D!Receipted
    BY DEF D!DialogsInv
  <2>2. v5' \subseteq 1..Len(v6')
    BY <2>1 DEF D!Receipted
  <2>3. \A i \in 1..Len(v6') : v6'[i] <= v3'
    BY <1>0, <2>1 DEF D!Receipted
  <2> QED
    BY <2>1, <2>2, <2>3 DEF D!Receipted
<1>2. D!Bound'
  BY DialogTypes DEF D!DialogsInv, D!Bound
<1>3. ASSUME NEW i \in 1..Len(v6), D!Settled(i) PROVE D!Settled(i)'
  <2>1. CASE v4[i] = "proposed"
    BY <2>1 DEF D!Settled
  <2>2. CASE i \in v8
    BY <2>2 DEF D!Settled
  <2>3. CASE D!Dead(i)
    <3>1. v6[i] < v3 => v6[i] < v3'
      BY <1>0
    <3>2. D!Dead(i)'
      BY <2>3, <3>1 DEF D!Dead
    <3> QED
      BY <3>2 DEF D!Settled
  <2> QED
    BY <1>3, <2>1, <2>2, <2>3 DEF D!Settled
<1>4. D!Known'
  <2> SUFFICES ASSUME v1 = "decision", ~v14'
               PROVE  \A i \in 1 .. Len(v6) : i # v9' => D!Settled(i)'
    BY DEF D!Known
  <2>1. \A i \in 1 .. Len(v6) : i # v9 => D!Settled(i)
    BY DEF D!DialogsInv, D!Known
  <2>2. ASSUME NEW i \in 1 .. Len(v6), i # v9' PROVE D!Settled(i)'
    <3>1. CASE i # v9
      BY <1>3, <2>1, <3>1
    <3>2. CASE i = v9
      BY <2>2, <3>2
    <3> QED
      BY <3>1, <3>2
  <2> QED
    BY <2>2
<1> QED
  BY <1>1, <1>2, <1>4

(* The request of the dialog stays what it is.                             *)
LEMMA AnswerStays ==
  ASSUME D!DialogsInv, v4' = v4, v6' = v6, v9' = v9, v10' = v10, v3' \in Nat, v3' >= v3,
         v14 => v14'
  PROVE  D!Answered'
<1>1. D!Answered /\ v9 \in Nat /\ v3 \in Nat /\ v9 <= Len(v6) /\ Len(v6) \in Nat
  BY DialogTypes DEF D!DialogsInv
<1>2. v10.answer = "conflict" => D!Dead(v9)'
  <2> SUFFICES ASSUME v10.answer = "conflict" PROVE v4[v9] = "none" /\ v6[v9] < v3'
    BY DEF D!Dead
  <2>1. D!Dead(v9) /\ v10.step = "sent" /\ v9 # 0
    BY <1>1 DEF D!Answered
  <2>2. v6[v9] \in Nat
    BY <1>1, <2>1, DialogTypes
  <2> QED
    BY <1>1, <2>1, <2>2 DEF D!Dead
<1> QED
  BY <1>1, <1>2 DEF D!Answered

LEMMA NoAnswer == D!NoCall.step = "idle" /\ D!NoCall.answer = "none"
BY DEF D!NoCall

LEMMA CallIsOver == v10' = D!NoCall => D!Answered'
<1> SUFFICES ASSUME v10' = D!NoCall PROVE D!Answered'
  OBVIOUS
<1>1. v10'.step = "idle" /\ v10'.answer = "none"
  BY NoAnswer
<1> QED
  BY <1>1 DEF D!Answered

LEMMA CallTyped ==
  D!NoCall \in [step : {"idle", "sent"},
                answer : {"none", "committed", "proposed", "conflict", "refused", "unknown"}]
BY DEF D!NoCall

(* The answer of a request: refused or lost.                               *)
LEMMA AnswerKept ==
  ASSUME D!DialogsInv, D!Refuse \/ D!Lose
  PROVE  D!DialogsInv'
<1>1. /\ v1' = v1 /\ v2' = v2 /\ v3' = v3 /\ v4' = v4 /\ v6' = v6 /\ v7' = v7 /\ v8' = v8
      /\ v9' = v9 /\ v11' = v11 /\ v12' = v12
  BY DEF D!Refuse, D!Lose, D!server
<1>2. /\ v3 \in Nat /\ v7 \in Nat /\ v7 <= v3
      /\ (\A i \in v8 : v4[i] = "committed") /\ (v12 = "recorded" => v8 # {})
  BY DialogTypes DEF D!DialogsInv, D!Receipted
<1>3. /\ v5' \subseteq v5 /\ v10.step = "sent"
      /\ \/ v10' = [v10 EXCEPT !.answer = "refused"] /\ v14' = TRUE
         \/ v10' = [v10 EXCEPT !.answer = "unknown"] /\ v14' = v14
  <2>1. CASE D!Refuse
    <3>1. v10.step = "sent"
      BY <2>1 DEF D!Refuse
    <3>2. v5' \subseteq v5
      BY <2>1 DEF D!Refuse
    <3>3. v10' = [v10 EXCEPT !.answer = "refused"] /\ v14' = TRUE
      BY <2>1 DEF D!Refuse
    <3> QED
      BY <3>1, <3>2, <3>3
  <2>2. CASE D!Lose
    <3>1. v5' \subseteq v5 /\ v10.step = "sent"
      BY <2>2 DEF D!Lose
    <3>2. v10' = [v10 EXCEPT !.answer = "unknown"] /\ v14' = v14
      BY <2>2 DEF D!Lose
    <3> QED
      BY <3>1, <3>2
  <2> QED
    BY <2>1, <2>2
<1>7. D!Receipted' /\ D!Bound' /\ D!Known'
  <2>1. v14 => v14'
    BY <1>3
  <2>2. v3' \in Nat /\ v3' >= v3 /\ v7' \in Nat /\ v7' <= v3'
    BY <1>1, <1>2
  <2> QED
    BY <1>1, <1>2, <1>3, <2>1, <2>2, QuietKeeps
<1>4. D!TypeOK'
  BY <1>1, <1>3 DEF D!DialogsInv, D!TypeOK, D!Ids
<1>5. v10'.step = v10.step /\ v10'.answer \in {"refused", "unknown"} /\ (v10'.answer = "refused" => v14')
  BY <1>3 DEF D!DialogsInv, D!TypeOK
<1>6. D!Answered'
  BY <1>1, <1>3, <1>5 DEF D!DialogsInv, D!Answered
<1> QED
  BY <1>1, <1>4, <1>6, <1>7 DEF D!DialogsInv

(* Another process commits, the page shows the current source, the dialog  *)
(* is closed.                                                              *)
LEMMA AroundKept ==
  ASSUME D!DialogsInv, D!CommitOther \/ D!Refresh \/ D!Close
  PROVE  D!DialogsInv'
<1>1. /\ v1' = v1 /\ v2' = v2 /\ v4' = v4 /\ v5' = v5 /\ v6' = v6 /\ v9' = v9 /\ v10' = v10
      /\ v11' = v11 /\ v14' = v14 /\ v8' = v8
      /\ \/ v3' = v3 + 1 /\ v3 < DialogRevisions /\ v7' = v7 /\ v12' = v12
         \/ v3' = v3 /\ v7' = v3 /\ v12' = v12
         \/ v3' = v3 /\ v7' = v7 /\ v12 = "open" /\ v12' = "left"
  BY DEF D!CommitOther, D!Refresh, D!Close, D!server, D!IsOpen
<1>2. /\ v3 \in 1..DialogRevisions /\ v7 \in 1..DialogRevisions /\ v7 <= v3
      /\ v12 \in {"open", "recorded", "left"}
      /\ (\A i \in v8 : v4[i] = "committed") /\ (v12 = "recorded" => v8 # {})
  BY DEF D!DialogsInv, D!Receipted, D!TypeOK
<1>3. /\ v3' \in 1..DialogRevisions /\ v7' \in 1..DialogRevisions
      /\ v3' >= v3 /\ v7' <= v3' /\ v3' \in Nat /\ v7' \in Nat
  BY <1>1, <1>2, DialogLimits
<1>4. v12' \in {"open", "recorded", "left"} /\ (v12' = "recorded" => v8' # {})
  BY <1>1, <1>2
<1>5. D!Receipted' /\ D!Bound' /\ D!Known'
  BY <1>1, <1>2, <1>3, <1>4, QuietKeeps
<1>6. D!Answered'
  BY <1>1, <1>3, AnswerStays
<1>7. D!TypeOK'
  BY <1>1, <1>3, <1>4 DEF D!DialogsInv, D!TypeOK, D!Ids
<1> QED
  BY <1>1, <1>4, <1>5, <1>6, <1>7 DEF D!DialogsInv

(* The answer of a decision: what the dialog no longer keeps it was told   *)
(* of, is proposed, or is past.                                            *)
LEMMA DecisionKept ==
  ASSUME D!DialogsInv, D!DecisionEnds
  PROVE  D!DialogsInv'
<1>1. /\ v1 = "decision" /\ v12 = "open" /\ v10.answer # "none" /\ v10' = D!NoCall
      /\ v9' = IF v10.answer = "unknown" THEN v9 ELSE 0
      /\ v1' = v1 /\ v2' = v2 /\ v3' = v3 /\ v4' = v4 /\ v5' = v5 /\ v6' = v6 /\ v11' = v11
      /\ v14' = v14 /\ v7' \in {v7, v3} /\ v12' \in {"open", "recorded"}
      /\ v8' = IF v10.answer = "committed" THEN v8 \cup {v9} ELSE v8
      /\ v12' = "recorded" => v10.answer = "committed"
  BY DEF D!DecisionEnds, D!Recorded, D!server, D!IsOpen
<1>2. /\ v3 \in 1..DialogRevisions /\ v7 \in 1..DialogRevisions /\ v8 \subseteq 1..MaxCommands /\ v7 <= v3
      /\ v9 \in 0..Len(v6) /\ Len(v6) \in Nat /\ Len(v6) <= MaxCommands
      /\ v10.answer \in {"none", "committed", "proposed", "conflict", "refused", "unknown"}
      /\ v14 \in BOOLEAN /\ \A i \in v8 : v4[i] = "committed"
  BY DialogTypes DEF D!DialogsInv, D!Receipted, D!TypeOK, D!Ids
<1>3. /\ v7' \in 1..DialogRevisions /\ v9' \in 0..Len(v6)
      /\ v7' <= v3' /\ v3' \in Nat /\ v7' \in Nat /\ v3' >= v3
  BY <1>1, <1>2, DialogLimits
<1>4. D!Answered /\ v9 \in 1..Len(v6)
  BY <1>1, <1>2 DEF D!DialogsInv, D!Answered
<1>11. /\ v8 \subseteq v8' /\ v8' \subseteq 1..MaxCommands /\ (\A i \in v8' : v4[i] = "committed")
       /\ (v12' = "recorded" => v8' # {}) /\ (v10.answer = "committed" => v9 \in v8')
  <2>1. v9 \in 1..MaxCommands
    BY <1>2, <1>4, DialogLimits
  <2>2. v10.answer = "committed" => v4[v9] = "committed"
    BY <1>4 DEF D!Answered
  <2> QED
    BY <1>1, <1>2, <2>1, <2>2
<1>5. ASSUME NEW i \in 1..Len(v6), i = v9, v10.answer # "unknown", ~v14' PROVE D!Settled(i)'
  <2>1. CASE v10.answer = "committed"
    BY <1>5, <1>11, <2>1 DEF D!Settled
  <2>2. CASE v10.answer = "proposed"
    BY <1>1, <1>4, <1>5, <2>2 DEF D!Answered, D!Settled
  <2>3. CASE v10.answer = "conflict"
    <3>1. D!Dead(i)
      BY <1>4, <1>5, <2>3 DEF D!Answered
    <3> QED
      BY <1>1, <3>1 DEF D!Dead, D!Settled
  <2>4. v10.answer # "refused"
    BY <1>1, <1>4, <1>5 DEF D!Answered
  <2> QED
    BY <1>1, <1>2, <1>5, <2>1, <2>2, <2>3, <2>4
<1>6. \/ v9' = v9
      \/ v9' = 0 /\ v1 = "decision" /\ \A i \in 1..Len(v6) : i = v9 /\ ~v14' => D!Settled(i)'
  <2>1. CASE v10.answer = "unknown"
    BY <1>1, <2>1
  <2>2. CASE v10.answer # "unknown"
    BY <1>1, <1>5, <2>2
  <2> QED
    BY <2>1, <2>2
<1>7. D!Receipted' /\ D!Bound' /\ D!Known'
  BY <1>1, <1>3, <1>6, <1>11, QuietKeeps
<1>8. D!Answered'
  BY <1>1, CallIsOver
<1>9. D!TypeOK'
  BY <1>1, <1>2, <1>3, <1>11, CallTyped DEF D!DialogsInv, D!TypeOK, D!Ids
<1> QED
  BY <1>7, <1>8, <1>9 DEF D!DialogsInv

(* The answer of an upload, and the question for its receipt.              *)
LEMMA UploadKept ==
  ASSUME D!DialogsInv, D!UploadEnds \/ D!checkReceipt
  PROVE  D!DialogsInv'
<1>1. /\ v1' = v1 /\ v2' = v2 /\ v3' = v3 /\ v4' = v4 /\ v5' = v5 /\ v6' = v6
      /\ v9' = v9 /\ v14' = v14 /\ v12 = "open"
      /\ v10' \in {v10, D!NoCall}
  BY DEF D!UploadEnds, D!checkReceipt, D!server, D!IsOpen, D!Free
<1>2. /\ v3 \in 1..DialogRevisions /\ v7 \in 1..DialogRevisions /\ v8 \subseteq 1..MaxCommands /\ v7 <= v3
      /\ v9 \in 0..Len(v6) /\ Len(v6) \in Nat /\ v11 \in [retry : BOOLEAN, known : BOOLEAN]
      /\ v14 \in BOOLEAN /\ Len(v6) <= MaxCommands /\ \A i \in v8 : v4[i] = "committed"
  BY DialogTypes DEF D!DialogsInv, D!Receipted, D!TypeOK, D!Ids
<1>3. /\ v7' \in {v7, v3} /\ v12' \in {"open", "recorded"} /\ v9 # 0
      /\ \/ v8' = v8 /\ v12' = "open"
         \/ v8' = v8 \cup {v9} /\ v4[v9] = "committed"
  <2>1. ASSUME D!UploadEnds
        PROVE  /\ v7' \in {v7, v3} /\ v12' \in {"open", "recorded"} /\ v9 # 0
               /\ \/ v8' = v8 /\ v12' = "open"
                  \/ v8' = v8 \cup {v9} /\ v4[v9] = "committed"
    BY <1>1, <2>1 DEF D!UploadEnds, D!Recorded, D!DialogsInv, D!Answered
  <2>2. ASSUME D!checkReceipt
        PROVE  /\ v7' \in {v7, v3} /\ v12' \in {"open", "recorded"} /\ v9 # 0
               /\ \/ v8' = v8 /\ v12' = "open"
                  \/ v8' = v8 \cup {v9} /\ v4[v9] = "committed"
    <3>1. v9 # 0
      BY <2>2 DEF D!checkReceipt
    <3>2. v4[v9] \in {"none", "committed", "proposed"}
      <4>1. v9 \in 1..MaxCommands
        BY <1>2, <3>1, DialogTypes, DialogLimits
      <4> QED
        BY <4>1, DialogTypes
    <3> QED
      BY <1>1, <2>2, <3>1, <3>2 DEF D!checkReceipt, D!Recorded
  <2> QED
    BY <2>1, <2>2
<1>11. /\ v8 \subseteq v8' /\ v8' \subseteq 1..MaxCommands /\ (\A i \in v8' : v4[i] = "committed")
       /\ (v12' = "recorded" => v8' # {})
  <2>1. v9 \in 1..MaxCommands
    BY <1>2, <1>3, DialogLimits
  <2> QED
    BY <1>2, <1>3, <2>1
<1>4. v11' \in [retry : BOOLEAN, known : BOOLEAN]
  <2>1. ASSUME D!UploadEnds PROVE v11' \in [retry : BOOLEAN, known : BOOLEAN]
    BY <1>2, <2>1 DEF D!UploadEnds
  <2>2. ASSUME D!checkReceipt PROVE v11' \in [retry : BOOLEAN, known : BOOLEAN]
    <3>1. v4[v9] \in {"none", "committed", "proposed"}
      <4>1. v9 # 0
        BY <2>2 DEF D!checkReceipt
      <4>2. v9 \in 1..MaxCommands
        BY <1>2, <4>1, DialogTypes, DialogLimits
      <4> QED
        BY <4>2, DialogTypes
    <3>2. v11' \in {v11, [v11 EXCEPT !.known = TRUE], [v11 EXCEPT !.retry = TRUE]}
      BY <2>2, <3>1 DEF D!checkReceipt
    <3> QED
      BY <1>2, <3>2
  <2> QED
    BY <2>1, <2>2
<1>5. /\ v7' \in 1..DialogRevisions /\ v7' <= v3' /\ v7' \in Nat /\ v3' \in Nat /\ v3' >= v3
  BY <1>1, <1>2, <1>3, DialogLimits
<1>6. D!Receipted' /\ D!Bound' /\ D!Known'
  BY <1>1, <1>5, <1>11, QuietKeeps
<1>7. D!Answered'
  BY <1>1, <1>5, CallIsOver, AnswerStays
<1>8. v10' \in [step : {"idle", "sent"},
                answer : {"none", "committed", "proposed", "conflict", "refused", "unknown"}]
  BY <1>1, CallTyped DEF D!DialogsInv, D!TypeOK
<1>9. D!TypeOK'
  BY <1>1, <1>3, <1>4, <1>5, <1>8, <1>11 DEF D!DialogsInv, D!TypeOK, D!Ids
<1> QED
  BY <1>6, <1>7, <1>9 DEF D!DialogsInv

LEMMA ServeKept ==
  ASSUME D!DialogsInv, NEW id \in D!Ids, D!Serve(id)
  PROVE  D!DialogsInv'
<1>1. /\ v1' = v1 /\ v2' = v2 /\ v6' = v6 /\ v7' = v7 /\ v8' = v8 /\ v9' = v9 /\ v11' = v11
      /\ v12' = v12 /\ v14' = v14 /\ v5' = v5 \ {id}
  BY DEF D!Serve
<1>2. /\ v3 \in Nat /\ v7 \in Nat /\ v7 <= v3 /\ Len(v6) \in Nat /\ Len(v6) <= MaxCommands /\ v9 \in Nat
      /\ v9 <= Len(v6) /\ \A i \in 1..Len(v6) : v6[i] \in Nat /\ v6[i] <= v3
  BY DialogTypes DEF D!DialogsInv, D!Receipted
<1>3. /\ id \in 1..Len(v6) /\ v3' \in 1..DialogRevisions
      /\ v4[id] # "none" => v4'[id] = v4[id] /\ v3' = v3
      /\ v4[id] = "none" /\ v6[id] < v3 => v4'[id] = "none" /\ v3' = v3
      /\ v4'[id] = "none" => v6[id] < v3
      /\ v4'[id] = "proposed" => v2 = "review-each-change"
      /\ v4'[id] = "committed" => v2 = "autonomous"
  BY ServeFacts
<1>4. v3' \in Nat /\ v3' >= v3
  <2>1. v3' \in {v3, v3 + 1}
    BY ServeFacts
  <2> QED
    BY <1>2, <2>1
<1>5. /\ v4' \in [1..MaxCommands -> {"none", "committed", "proposed"}]
      /\ \A i \in 1..MaxCommands : i # id => v4'[i] = v4[i]
      /\ v4'[id] \in {"none", "committed", "proposed"}
  <2>1. v4' = [v4 EXCEPT ![id] = v4'[id]] /\ v4'[id] \in {"none", "committed", "proposed"}
    BY ServeFacts
  <2> QED
    BY <2>1, DialogTypes
<1>16. \A i \in 1..Len(v6) : i \in 1..MaxCommands
  BY <1>2, DialogLimits
<1>6. D!Receipted'
  <2>1. D!Receipted
    BY DEF D!DialogsInv
  <2>2. v5' \subseteq 1..Len(v6') /\ v7' <= v3'
    <3>1. v5' \subseteq 1..Len(v6)
      BY <1>1, <2>1 DEF D!Receipted
    <3>2. v7' <= v3'
      BY <1>1, <1>2, <1>4
    <3> QED
      BY <1>1, <3>1, <3>2
  <2>3. \A i \in 1..Len(v6') : v6'[i] <= v3'
    BY <1>1, <1>2, <1>4, <2>1 DEF D!Receipted
  <2>4. \A i \in D!Ids : i > Len(v6') => v4'[i] = "none"
    BY <1>1, <1>2, <1>3, <1>5, <2>1 DEF D!Receipted, D!Ids
  <2>5. \A i \in D!Ids : v4'[i] = "proposed" => v2' = "review-each-change"
    BY <1>1, <1>3, <1>5, <2>1 DEF D!Receipted, D!Ids
  <2>6. \A i \in D!Ids : v4'[i] = "committed" => v2' = "autonomous"
    BY <1>1, <1>3, <1>5, <2>1 DEF D!Receipted, D!Ids
  <2>7. (\A i \in v8' : v4'[i] = "committed") /\ (v12' = "recorded" => v8' # {})
    <3>1. ASSUME NEW i \in v8 PROVE v4'[i] = "committed"
      <4>1. v4[i] = "committed" /\ i \in 1..MaxCommands
        BY <2>1 DEF D!Receipted, D!DialogsInv, D!TypeOK, D!Ids
      <4> QED
        BY <1>3, <1>5, <4>1
    <3> QED
      BY <1>1, <2>1, <3>1 DEF D!Receipted
  <2> QED
    BY <2>2, <2>3, <2>4, <2>5, <2>6, <2>7 DEF D!Receipted
<1>7. D!Bound'
  BY <1>1 DEF D!DialogsInv, D!Bound
<1>8. ASSUME NEW i \in 1..Len(v6), v4[i] # "none" PROVE v4'[i] = v4[i]
  BY <1>3, <1>5, <1>8, <1>16
<1>9. ASSUME NEW i \in 1..Len(v6), D!Dead(i) PROVE D!Dead(i)'
  <2>1. v4[i] = "none" /\ v6[i] < v3
    BY <1>9 DEF D!Dead
  <2>2. v4'[i] = "none"
    BY <1>3, <1>5, <1>16, <2>1
  <2>3. v6'[i] < v3'
    BY <1>1, <1>2, <1>4, <2>1
  <2> QED
    BY <2>2, <2>3 DEF D!Dead
<1>10. ASSUME NEW i \in 1..Len(v6), D!Settled(i) PROVE D!Settled(i)'
  <2>1. CASE D!Dead(i)
    BY <1>9, <2>1 DEF D!Settled
  <2>2. CASE v4[i] = "proposed"
    BY <1>8, <2>2 DEF D!Settled
  <2>3. CASE i \in v8
    BY <1>1, <2>3 DEF D!Settled
  <2> QED
    BY <1>10, <2>1, <2>2, <2>3 DEF D!Settled
<1>11. D!Known'
  BY <1>1, <1>10 DEF D!DialogsInv, D!Known
<1>12. D!Answered'
  <2>1. D!Answered /\ (v10.step = "sent" => v9 \in 1..Len(v6))
    BY <1>2 DEF D!DialogsInv, D!Answered
  <2>2. CASE v10' = v10
    <3>1. v10.answer \in {"committed", "proposed"} => v4'[v9] = v10.answer
      BY <1>8, <2>1 DEF D!Answered
    <3>2. v10.answer = "conflict" => D!Dead(v9)'
      <4> SUFFICES ASSUME v10.answer = "conflict" PROVE D!Dead(v9)'
        OBVIOUS
      <4>1. v9 \in 1..Len(v6) /\ D!Dead(v9)
        BY <2>1 DEF D!Answered
      <4>2. PICK i \in 1..Len(v6) : i = v9 /\ D!Dead(i)
        BY <4>1
      <4>3. v4'[i] = "none" /\ v6'[i] < v3' /\ v9' = i
        BY <1>1, <1>9, <4>2 DEF D!Dead
      <4> QED
        BY <4>3 DEF D!Dead
    <3> QED
      BY <1>1, <2>1, <2>2, <3>1, <3>2 DEF D!Answered
  <2>3. CASE /\ v10.step = "sent" /\ v9 = id
             /\ v4'[id] = "none" /\ v10' = [v10 EXCEPT !.answer = "conflict"]
    <3>1. v10'.step = "sent" /\ v10'.answer = "conflict"
      BY <2>3 DEF D!DialogsInv, D!TypeOK
    <3>2. v6'[id] < v3' /\ v4'[id] = "none" /\ v9' = id
      BY <1>1, <1>2, <1>3, <1>4, <2>3
    <3>3. D!Dead(v9)'
      BY <3>2 DEF D!Dead
    <3>4. v9' # 0
      BY <1>2, <1>3, <3>2
    <3> QED
      BY <3>1, <3>3, <3>4 DEF D!Answered
  <2>4. CASE /\ v10.step = "sent" /\ v9 = id
             /\ v4'[id] # "none" /\ v10' = [v10 EXCEPT !.answer = v4'[id]]
    <3>1. v10'.step = "sent" /\ v10'.answer = v4'[id]
      BY <2>4 DEF D!DialogsInv, D!TypeOK
    <3>2. v9' = id /\ v9' # 0
      BY <1>1, <1>2, <1>3, <2>4
    <3>3. v4'[id] \in {"committed", "proposed"}
      BY <1>5, <2>4
    <3> QED
      BY <3>1, <3>2, <3>3 DEF D!Answered
  <2> QED
    BY <2>2, <2>3, <2>4, ServeFacts
<1>13. v10' \in [step : {"idle", "sent"},
                 answer : {"none", "committed", "proposed", "conflict", "refused", "unknown"}]
  <2>1. v10 \in [step : {"idle", "sent"},
                 answer : {"none", "committed", "proposed", "conflict", "refused", "unknown"}]
    BY DEF D!DialogsInv, D!TypeOK
  <2>2. v10' = v10 \/ \E a \in {"none", "committed", "proposed", "conflict"} : v10' = [v10 EXCEPT !.answer = a]
    BY <1>5, ServeFacts
  <2> QED
    BY <2>1, <2>2
<1>14. D!TypeOK'
  BY <1>1, <1>3, <1>5, <1>13 DEF D!DialogsInv, D!TypeOK, D!Ids
<1> QED
  BY <1>6, <1>7, <1>11, <1>12, <1>14 DEF D!DialogsInv

(* The button: the command is kept, or a new one is made.                  *)
LEMMA submitKept ==
  ASSUME D!DialogsInv, D!submit
  PROVE  D!DialogsInv'
<1>1. /\ v1' = v1 /\ v2' = v2 /\ v3' = v3 /\ v4' = v4 /\ v7' = v7 /\ v8' = v8 /\ v12' = v12
      /\ v14' = v14 /\ v12 = "open" /\ v10' = [step |-> "sent", answer |-> "none"]
      /\ v5' = v5 \cup {v9'} /\ v9' <= MaxCommands
      /\ v11' = [v11 EXCEPT !.retry = v1 = "decision"]
  BY DEF D!submit, D!server, D!Pressable, D!Free, D!IsOpen
<1>2. \/ v9 # 0 /\ v9' = v9 /\ v6' = v6
      \/ v9 = 0 /\ v9' = Len(v6) + 1 /\ v6' = Append(v6, v7)
  BY DEF D!submit, D!Command
<1>3. /\ v3 \in 1..DialogRevisions /\ v7 \in 1..DialogRevisions /\ v7 <= v3
      /\ (\A i \in v8 : v4[i] = "committed") /\ (v12 = "recorded" => v8 # {})
      /\ v9 \in 0..Len(v6) /\ v11 \in [retry : BOOLEAN, known : BOOLEAN] /\ v5 \subseteq 1..Len(v6)
      /\ v12 \in {"open", "recorded", "left"}
  BY DEF D!DialogsInv, D!Receipted, D!TypeOK
<1>4. /\ v3 \in Nat /\ v7 \in Nat /\ Len(v6) \in Nat /\ Len(v6) <= MaxCommands
      /\ v6 \in Seq(Nat)
      /\ \A i \in 1..Len(v6) : v6[i] \in Nat
  BY DialogTypes
<1>5. v11' \in [retry : BOOLEAN, known : BOOLEAN]
  BY <1>1, <1>3
<1>6. v10'.step = "sent" /\ v10'.answer = "none"
      /\ v10' \in [step : {"idle", "sent"},
                   answer : {"none", "committed", "proposed", "conflict", "refused", "unknown"}]
  BY <1>1
<1>7. CASE v9 # 0 /\ v9' = v9 /\ v6' = v6
  <2>1. v5' \subseteq 1..Len(v6) /\ v9 \in 1..Len(v6)
    BY <1>1, <1>3, <1>4, <1>7
  <2>2. D!Receipted' /\ D!Bound' /\ D!Known'
    BY <1>1, <1>3, <1>4, <1>7, <2>1, QuietKeeps
  <2>3. D!Answered'
    BY <1>6, <1>7 DEF D!Answered
  <2>4. v5' \subseteq D!Ids
    BY <1>4, <2>1, DialogLimits DEF D!Ids
  <2>5. D!TypeOK'
    BY <1>1, <1>5, <1>6, <1>7, <2>4 DEF D!DialogsInv, D!TypeOK
  <2> QED
    BY <1>1, <1>7, <2>2, <2>3, <2>5 DEF D!DialogsInv
<1>8. CASE v9 = 0 /\ v9' = Len(v6) + 1 /\ v6' = Append(v6, v7)
  <2>1. /\ v6' \in Seq(Nat) /\ Len(v6') = Len(v6) + 1
        /\ \A i \in 1..Len(v6) : v6'[i] = v6[i]
        /\ v6'[Len(v6) + 1] = v7
    BY <1>4, <1>8, AppendProperties
  <2>3. D!Receipted /\ D!Bound /\ D!Known
    BY DEF D!DialogsInv
  <2>4. v5' \subseteq 1..Len(v6')
    BY <1>1, <1>3, <1>4, <1>8, <2>1
  <2>5. D!Receipted'
    <3>1. \A i \in 1..Len(v6') : v6'[i] <= v3'
      <4> SUFFICES ASSUME NEW i \in 1..Len(v6') PROVE v6'[i] <= v3
        BY <1>1
      <4>1. CASE i \in 1..Len(v6)
        BY <2>1, <2>3, <4>1 DEF D!Receipted
      <4>2. CASE i = Len(v6) + 1
        BY <1>3, <1>4, <2>1, <4>2
      <4> QED
        BY <1>4, <2>1, <4>1, <4>2
    <3>2. \A i \in D!Ids : i > Len(v6') => v4'[i] = "none"
      BY <1>1, <1>4, <2>1, <2>3 DEF D!Receipted, D!Ids
    <3> QED
      BY <1>1, <1>3, <2>3, <2>4, <3>1, <3>2 DEF D!Receipted
  <2>6. D!Bound'
    BY <1>1, <1>4, <1>8, <2>1, <2>3 DEF D!Bound
  <2>7. D!Answered'
    BY <1>4, <1>6, <1>8 DEF D!Answered
  <2>8. D!Known'
    <3> SUFFICES ASSUME v1 = "decision", ~v14, NEW i \in 1 .. Len(v6'), i # v9'
                 PROVE  D!Settled(i)'
      BY <1>1 DEF D!Known
    <3>1. i \in 1..Len(v6)
      BY <1>4, <1>8, <2>1
    <3>2. D!Settled(i) /\ v6'[i] = v6[i]
      BY <1>4, <1>8, <2>1, <2>3, <3>1 DEF D!Known
    <3> QED
      BY <1>1, <3>2 DEF D!Settled, D!Dead
  <2>9. D!TypeOK'
    <3>1. Len(v6') <= MaxCommands /\ v9' \in 0..Len(v6') /\ v5' \subseteq D!Ids
      BY <1>1, <1>4, <1>8, <2>1, <2>4, DialogLimits DEF D!Ids
    <3> QED
      BY <1>1, <1>5, <1>6, <2>1, <3>1 DEF D!DialogsInv, D!TypeOK
  <2> QED
    BY <1>1, <2>5, <2>6, <2>7, <2>8, <2>9 DEF D!DialogsInv
<1> QED
  BY <1>2, <1>7, <1>8

LEMMA DialogsKept ==
  ASSUME D!DialogsInv, D!Next \/ UNCHANGED D!gvars
  PROVE  D!DialogsInv'
<1>1. ASSUME D!Next PROVE D!DialogsInv'
  BY <1>1, ServeKept, AnswerKept, AroundKept, DecisionKept, UploadKept, submitKept DEF D!Next
<1>2. ASSUME UNCHANGED D!gvars PROVE D!DialogsInv'
  BY <1>2 DEF D!gvars, D!DialogsInv, D!TypeOK, D!Receipted, D!Bound, D!Answered, D!Known, D!Settled, D!Dead, D!Ids
<1> QED
  BY <1>1, <1>2

(* Only the last command can be recorded without the dialog knowing it.    *)
LEMMA RecordingIsKnown ==
  ASSUME D!DialogsInv
  PROVE  D!RecordedKnowingly
<1>1. \A i \in D!Committed : i \in 1..Len(v6) /\ v4[i] = "committed"
  BY DialogTypes DEF D!Committed
<1>2. Len(v6) \in Nat /\ v9 \in Nat /\ v9 <= Len(v6)
  BY DialogTypes
<1>3. ASSUME v1 = "decision", ~v14, NEW i \in D!Committed PROVE i \in v8 \/ i = v9
  <2>1. ~D!Dead(i) /\ v4[i] # "proposed"
    BY <1>1 DEF D!Dead
  <2> QED
    BY <1>1, <1>3, <2>1 DEF D!DialogsInv, D!Known, D!Settled
<1>4. ASSUME v1 = "decision", ~v14, NEW i \in D!Committed, NEW j \in D!Committed, i < j
      PROVE  i \in v8
  <2>1. i \in 1..Len(v6) /\ j \in 1..Len(v6) /\ (v9 # 0 => v9 = Len(v6))
    BY <1>1 DEF D!DialogsInv, D!Bound
  <2>2. i # v9
    BY <1>1, <1>2, <1>4, <2>1
  <2> QED
    BY <1>3, <1>4, <2>2
<1>5. ASSUME v1 = "upload", NEW i \in D!Committed, NEW j \in D!Committed PROVE i = j
  <2>1. Len(v6) <= 1 /\ i \in 1..Len(v6) /\ j \in 1..Len(v6)
    BY <1>1, <1>5 DEF D!DialogsInv, D!Bound
  <2> QED
    BY <1>2, <2>1
<1>6. v8 \subseteq D!Committed /\ (v12 = "recorded" => v8 # {})
  <2>1. ASSUME NEW i \in v8 PROVE i \in D!Committed
    <3>1. i \in 1..MaxCommands /\ v4[i] = "committed"
      BY DEF D!DialogsInv, D!TypeOK, D!Receipted, D!Ids
    <3>2. i \in 1..Len(v6)
      BY <1>2, <3>1, DialogLimits DEF D!DialogsInv, D!Receipted, D!Ids
    <3> QED
      BY <3>1, <3>2, DialogTypes DEF D!Committed
  <2> QED
    BY <2>1 DEF D!DialogsInv, D!Receipted
<1> QED
  BY <1>3, <1>4, <1>5, <1>6 DEF D!RecordedKnowingly

-----------------------------------------------------------------------------
(* Wizard: v1 source, v2 store, v3 applied, v4 mode, v5 draft, v6 intent,  *)
(* v7 tools, v8 drawn, v9 saved, v10 told, v11 report, v12 mishaps, v13    *)
(* kept.                                                                   *)

LEMMA WizardLimits ==
  /\ MaxIds \in Nat /\ MaxFaults \in Nat
  /\ Person \cap Foreign = {}
BY ServicesAssumption DEF W!WizardAssumption

LEMMA WizardTypes ==
  ASSUME W!WizardInv
  PROVE  /\ v1 \in W!Source /\ v1.rev \in Nat /\ v1.content \in W!Contents
         /\ v5 \in W!Draft /\ v5.base \in W!Source /\ v5.value \in W!Contents
         /\ v5.persisted \in W!Contents /\ v5.proposal \in Nat
         /\ v8 \in Nat /\ v8 <= MaxIds /\ v13 \subseteq Person
         /\ DOMAIN v2 \subseteq 1..v8 /\ DOMAIN v3 \subseteq 1..v8
<1>1. v1 \in W!Source /\ v5 \in W!Draft /\ v8 \in 0..MaxIds /\ v13 \subseteq Person
      /\ DOMAIN v2 \cup DOMAIN v3 \subseteq 1..v8
  BY DEF W!WizardInv, W!TypeOK
<1>2. v1.rev \in Nat /\ v1.content \in W!Contents
  BY <1>1 DEF W!Source
<1>3. /\ v5.base \in W!Source /\ v5.value \in W!Contents
      /\ v5.persisted \in W!Contents /\ v5.proposal \in Nat
  BY <1>1 DEF W!Draft
<1>4. v8 \in Nat /\ v8 <= MaxIds
  BY <1>1, WizardLimits
<1> QED
  BY <1>1, <1>2, <1>3, <1>4

(* What is stored: in a commit of the wizard or in a proposal.             *)
LEMMA InStored ==
  /\ \A e : e \in W!Stored <=> \/ \E i \in DOMAIN v3 : e \in v3[i].content
                               \/ \E i \in DOMAIN v2 : e \in v2[i].content
  /\ \A e : e \in W!Stored' <=> \/ \E i \in DOMAIN v3' : e \in v3'[i].content
                                \/ \E i \in DOMAIN v2' : e \in v2'[i].content
BY DEF W!Stored

LEMMA StoredGrows ==
  ASSUME \A i \in DOMAIN v3 : i \in DOMAIN v3' /\ v3'[i].content = v3[i].content,
         \A i \in DOMAIN v2 : i \in DOMAIN v2' /\ v2'[i].content = v2[i].content
  PROVE  W!Stored \subseteq W!Stored'
BY InStored

(* Of a clean draft, everything that was entered is stored.                *)
LEMMA CleanIsStored ==
  ASSUME W!WizardInv, NEW e \in v13, e \notin v5.value \ v5.persisted
  PROVE  e \in W!Stored
<1>1. e \in Person
  BY WizardTypes
<1>2. v13 \subseteq v5.value \cup W!Stored /\ v5.persisted \cap Person \subseteq W!Stored
  BY DEF W!WizardInv, W!EnteredIsKept, W!Made
<1> QED
  BY <1>1, <1>2

LEMMA WizardStarts == W!Init => W!WizardInv
<1> SUFFICES ASSUME W!Init PROVE W!WizardInv
  OBVIOUS
<1>1. /\ v1 = [rev |-> 0, content |-> {}] /\ v2 = <<>> /\ v3 = <<>> /\ v5 = W!Adopted(v1) /\ v6 = None
      /\ v7 = {} /\ v8 = 0 /\ v11 = None /\ v12 = 0 /\ v13 = {}
      /\ v4 \in {"autonomous", "review-each-change"}
  BY DEF W!Init
<1>2. DOMAIN v2 = {} /\ DOMAIN v3 = {}
  BY <1>1
<1>3. {} \in W!Contents /\ v1 \in W!Source /\ v1.content = {}
  BY <1>1 DEF W!Contents, W!Source
<1>4. v5 \in W!Draft /\ v5.value = {} /\ v5.persisted = {} /\ v5.proposal = 0
  BY <1>1, <1>3 DEF W!Adopted, W!Draft
<1>5. W!TypeOK
  <2>1. 0 \in 0..MaxIds /\ 0 \in 0..MaxFaults
    BY WizardLimits
  <2> QED
    BY <1>1, <1>2, <1>3, <1>4, <2>1 DEF W!TypeOK
<1>6. W!StoreTyped /\ W!IntentHolds /\ W!Made(v1.content) /\ W!Made(v5.persisted) /\ W!EnteredIsKept
  BY <1>1, <1>2, <1>3, <1>4 DEF W!StoreTyped, W!IntentHolds, W!Made, W!EnteredIsKept
<1> QED
  BY <1>1, <1>2, <1>5, <1>6 DEF W!WizardInv

(* The identity of a save: a new one, or that of the same draft.           *)
LEMMA IntendsFacts ==
  ASSUME W!WizardInv, NEW id \in W!Ids, W!Intends(id)
  PROVE  /\ id \in Nat /\ id >= 1 /\ id <= MaxIds /\ v11 = None /\ W!dirty
         /\ v8' \in Nat /\ v8' >= v8 /\ v8' <= MaxIds /\ id \in 1..v8' /\ v8' \in 0..MaxIds
         /\ id \in DOMAIN v3 => v3[id].content = v5.value
         /\ id \in DOMAIN v2 => v2[id].content = v5.value
<1>1. /\ id \in 1..MaxIds /\ v11 = None /\ W!dirty /\ id = W!intentId
      /\ v8' = IF id > v8 THEN id ELSE v8
  BY DEF W!Intends, W!Ids, W!Running
<1>2. v8 \in Nat /\ v8 <= MaxIds /\ DOMAIN v2 \subseteq 1..v8 /\ DOMAIN v3 \subseteq 1..v8
  BY WizardTypes
<1>3. id \in Nat /\ id >= 1 /\ id <= MaxIds
  BY <1>1, WizardLimits
<1>4. /\ v8' \in Nat /\ v8' >= v8 /\ v8' <= MaxIds /\ id \in 1..v8' /\ v8' \in 0..MaxIds
  BY <1>1, <1>2, <1>3, WizardLimits
<1>5. /\ id \in DOMAIN v3 => v3[id].content = v5.value
      /\ id \in DOMAIN v2 => v2[id].content = v5.value
  <2>1. CASE W!Fresh
    <3>1. id = v8 + 1
      BY <1>1, <2>1 DEF W!intentId
    <3>2. id \notin 1..v8
      BY <1>2, <3>1
    <3> QED
      BY <1>2, <3>2
  <2>2. CASE ~W!Fresh
    <3>1. v6 # None /\ v6.value = v5.value /\ id = v6.id
      BY <1>1, <2>2 DEF W!intentId, W!Fresh
    <3> QED
      BY <3>1 DEF W!WizardInv, W!IntentHolds
  <2> QED
    BY <2>1, <2>2
<1> QED
  BY <1>1, <1>3, <1>4, <1>5

(* What a commit under an identity without a receipt does.                 *)
LEMMA CommitFacts ==
  ASSUME W!WizardInv, NEW id, id \notin DOMAIN v3, NEW content \in W!Contents, W!Commit(id, content)
  PROVE  /\ v1' \in W!Source /\ v1'.content = content
         /\ DOMAIN v3' = DOMAIN v3 \cup {id} /\ v3'[id] = v1'
         /\ \A i \in DOMAIN v3 : v3'[i] = v3[i]
         /\ \A i \in DOMAIN v3' : v3'[i] \in W!Source
<1>1. /\ v1' = [rev |-> v1.rev + 1, content |-> content]
      /\ v3' = [i \in DOMAIN v3 \cup {id} |-> IF i = id THEN [rev |-> v1.rev + 1, content |-> content]
                                                        ELSE v3[i]]
  BY DEF W!Commit
<1>2. v1' \in W!Source /\ v1'.content = content
  BY <1>1, WizardTypes DEF W!Source
<1>3. /\ DOMAIN v3' = DOMAIN v3 \cup {id} /\ v3'[id] = v1'
      /\ \A i \in DOMAIN v3 : v3'[i] = v3[i]
  BY <1>1
<1>4. \A i \in DOMAIN v3 : v3[i] \in W!Source
  BY DEF W!WizardInv, W!TypeOK
<1> QED
  BY <1>2, <1>3, <1>4

(* What storing a proposal does.                                           *)
LEMMA ProposeFacts ==
  ASSUME NEW id, NEW p, v2' = [i \in DOMAIN v2 \cup {id} |-> IF i = id THEN p ELSE v2[i]]
  PROVE  /\ DOMAIN v2' = DOMAIN v2 \cup {id} /\ v2'[id] = p
         /\ \A i \in DOMAIN v2 : i # id => v2'[i] = v2[i]
OBVIOUS

LEMMA VerdictFacts ==
  ASSUME NEW id
  PROVE  /\ W!Verdict(id) = "conflict" => id \notin DOMAIN v3
         /\ W!Verdict(id) = "alreadyApplied" => id \in DOMAIN v3
         /\ W!Verdict(id) = "proposal" => id \notin DOMAIN v3 /\ v4 = "review-each-change"
         /\ W!Verdict(id) = "committed" => id \notin DOMAIN v3 /\ v4 # "review-each-change"
<1>1. CASE id \in DOMAIN v3
  BY <1>1 DEF W!Verdict
<1>2. CASE id \notin DOMAIN v3 /\ v1.rev # v5.base.rev
  BY <1>2 DEF W!Verdict
<1>3. CASE id \notin DOMAIN v3 /\ v1.rev = v5.base.rev
  BY <1>3 DEF W!Verdict
<1> QED
  BY <1>1, <1>2, <1>3

(* Adopting a source leaves a clean draft of it.                           *)
LEMMA AdoptedFacts ==
  ASSUME NEW s \in W!Source, v5' = W!Adopted(s)
  PROVE  /\ v5' \in W!Draft /\ v5'.value = s.content /\ v5'.persisted = s.content
         /\ v5'.proposal = 0
BY DEF W!Adopted, W!Draft, W!Source

(* A step that neither commits nor stores.                                 *)
LEMMA NothingStored ==
  ASSUME W!WizardInv, v1' = v1, v2' = v2, v3' = v3, v4' = v4, v7' \in SUBSET v7,
         v8' \in 0..MaxIds, v8' >= v8, v12' \in 0..MaxFaults,
         v5' \in W!Draft, v5'.proposal \in DOMAIN v2 \cup {0},
         v5'.persisted \cap Person \subseteq W!Stored, W!IntentHolds',
         v13' \subseteq Person, v13' \subseteq v5'.value \cup W!Stored,
         v11' # None /\ ~v11'.pending => v13' \subseteq W!Stored
  PROVE  W!WizardInv'
<1>1. W!Stored' = W!Stored
  BY DEF W!Stored
<1>2. DOMAIN v2 \cup DOMAIN v3 \subseteq 1..v8'
  <2>1. v8 \in Nat /\ v8' \in Nat /\ DOMAIN v2 \subseteq 1..v8 /\ DOMAIN v3 \subseteq 1..v8
    BY WizardTypes, WizardLimits
  <2> QED
    BY <2>1
<1>3. W!TypeOK'
  BY <1>2 DEF W!WizardInv, W!TypeOK, W!IntentHolds
<1>4. W!StoreTyped'
  BY DEF W!WizardInv, W!StoreTyped
<1>5. W!Made(v1.content)' /\ W!Made(v5.persisted)'
  BY <1>1 DEF W!WizardInv, W!Made
<1>6. W!EnteredIsKept'
  BY <1>1 DEF W!EnteredIsKept
<1> QED
  BY <1>3, <1>4, <1>5, <1>6 DEF W!WizardInv

LEMMA IntentStays ==
  ASSUME W!WizardInv, v6' \in {v6, None}, v8' \in Nat, v8' >= v8,
         \A i \in 1..v8 : i \in DOMAIN v3' <=> i \in DOMAIN v3,
         \A i \in 1..v8 : i \in DOMAIN v2' <=> i \in DOMAIN v2,
         \A i \in DOMAIN v3 : v3'[i].content = v3[i].content,
         \A i \in DOMAIN v2 : v2'[i].content = v2[i].content
  PROVE  W!IntentHolds'
<1> SUFFICES ASSUME v6' # None
             PROVE  /\ v6'.id \in 1..v8' /\ v6'.value \in W!Contents
                    /\ v6'.id \in DOMAIN v3' => v3'[v6'.id].content = v6'.value
                    /\ v6'.id \in DOMAIN v2' => v2'[v6'.id].content = v6'.value
  BY DEF W!IntentHolds
<1>1. v6' = v6 /\ v6 # None
  OBVIOUS
<1>2. /\ v6.id \in 1..v8 /\ v6.value \in W!Contents
      /\ v6.id \in DOMAIN v3 => v3[v6.id].content = v6.value
      /\ v6.id \in DOMAIN v2 => v2[v6.id].content = v6.value
  BY <1>1 DEF W!WizardInv, W!IntentHolds
<1>3. v8 \in Nat
  BY WizardTypes
<1>4. v6.id \in 1..v8'
  BY <1>2, <1>3
<1> QED
  BY <1>1, <1>2, <1>4

(* The intent after a save under id, which stored the draft if anything.   *)
LEMMA IntentSaved ==
  ASSUME W!WizardInv, NEW id, id \in 1..v8', v6' = [id |-> id, value |-> v5.value],
         id \in DOMAIN v3' => v3'[id].content = v5.value,
         id \in DOMAIN v2' => v2'[id].content = v5.value
  PROVE  W!IntentHolds'
<1>1. v6'.id = id /\ v6'.value = v5.value /\ v5.value \in W!Contents
  BY WizardTypes
<1> QED
  BY <1>1 DEF W!IntentHolds

LEMMA NoIntent == v6' = None => W!IntentHolds'
BY DEF W!IntentHolds

-----------------------------------------------------------------------------
(* The actions that store nothing.                                         *)

LEMMA EnterKept ==
  ASSUME W!WizardInv, NEW e \in Person, W!Enter(e)
  PROVE  W!WizardInv'
<1>1. /\ v5' = [v5 EXCEPT !.value = @ \cup {e}] /\ v13' = v13 \cup {e} /\ v11 = None
      /\ v1' = v1 /\ v2' = v2 /\ v3' = v3 /\ v4' = v4 /\ v6' = v6 /\ v7' = v7 /\ v8' = v8
      /\ v11' = v11 /\ v12' = v12
  BY DEF W!Enter, W!Running
<1>2. /\ v5' \in W!Draft /\ v5'.value = v5.value \cup {e}
      /\ v5'.persisted = v5.persisted /\ v5'.proposal = v5.proposal
  <2>1. v5.value \cup {e} \in W!Contents
    BY WizardTypes DEF W!Contents
  <2> QED
    BY <1>1, <2>1, WizardTypes DEF W!Draft
<1>3. /\ v5.proposal \in DOMAIN v2 \cup {0} /\ v5.persisted \cap Person \subseteq W!Stored
      /\ v13 \subseteq v5.value \cup W!Stored /\ v8 \in 0..MaxIds /\ v12 \in 0..MaxFaults
  BY DEF W!WizardInv, W!TypeOK, W!Made, W!EnteredIsKept
<1>4. v8 \in Nat /\ v8 >= v8 /\ v13 \subseteq Person
  BY WizardTypes
<1>5. W!IntentHolds'
  BY <1>1, <1>4, IntentStays
<1>6. v7' \in SUBSET v7 /\ v13' \subseteq Person /\ v13' \subseteq v5'.value \cup W!Stored
  BY <1>1, <1>2, <1>3, <1>4
<1> QED
  BY <1>1, <1>2, <1>3, <1>4, <1>5, <1>6, NothingStored

LEMMA ReloadKept ==
  ASSUME W!WizardInv, W!Reload
  PROVE  W!WizardInv'
<1>1. /\ v5' = W!Adopted(v1) /\ v13' = v13 \ (v5.value \ v5.persisted) /\ v11 = None
      /\ v1' = v1 /\ v2' = v2 /\ v3' = v3 /\ v4' = v4 /\ v6' = None /\ v7' = {} /\ v8' = v8
      /\ v11' = v11 /\ v12' = v12
  BY DEF W!Reload, W!Running
<1>2. /\ v5' \in W!Draft /\ v5'.value = v1.content
      /\ v5'.persisted = v1.content /\ v5'.proposal = 0
  BY <1>1, WizardTypes, AdoptedFacts
<1>3. /\ v1.content \cap Person \subseteq W!Stored /\ v8 \in 0..MaxIds /\ v12 \in 0..MaxFaults
  BY DEF W!WizardInv, W!TypeOK, W!Made
<1>4. v8 \in Nat /\ v8 >= v8 /\ v13 \subseteq Person
  BY WizardTypes
<1>5. v7' \in SUBSET v7 /\ v13' \subseteq Person /\ v13' \subseteq W!Stored
  BY <1>1, <1>4, CleanIsStored
<1> QED
  BY <1>1, <1>2, <1>3, <1>4, <1>5, NoIntent, NothingStored

LEMMA EditActorKept ==
  ASSUME W!WizardInv, W!EditActor
  PROVE  W!WizardInv'
<1>1. /\ v5' = v5 /\ v13' = v13 /\ v11 = None
      /\ v1' = v1 /\ v2' = v2 /\ v3' = v3 /\ v4' = v4 /\ v6' = None /\ v7' = v7 /\ v8' = v8
      /\ v11' = v11 /\ v12' = v12
  BY DEF W!EditActor, W!Running
<1>2. /\ v5 \in W!Draft
      /\ v5.proposal \in DOMAIN v2 \cup {0} /\ v5.persisted \cap Person \subseteq W!Stored
      /\ v13 \subseteq v5.value \cup W!Stored /\ v8 \in 0..MaxIds /\ v12 \in 0..MaxFaults
  BY DEF W!WizardInv, W!TypeOK, W!Made, W!EnteredIsKept
<1>3. v8 \in Nat /\ v8 >= v8 /\ v13 \subseteq Person
  BY WizardTypes
<1> QED
  BY <1>1, <1>2, <1>3, NoIntent, NothingStored

(* The wizard ends: what was not discarded is reported as pending.         *)
LEMMA ExitKept ==
  ASSUME W!WizardInv, W!Exit
  PROVE  W!WizardInv'
<1>1. /\ v5' = [v5 EXCEPT !.value = v5.persisted] /\ v13' = v13 \ (v5.value \ v5.persisted)
      /\ v1' = v1 /\ v2' = v2 /\ v3' = v3 /\ v4' = v4 /\ v6' = v6 /\ v7' = v7 /\ v8' = v8
      /\ v12' = v12
  BY DEF W!Exit
<1>2. /\ v5' \in W!Draft /\ v5'.persisted = v5.persisted /\ v5'.proposal = v5.proposal
  BY <1>1, WizardTypes DEF W!Draft
<1>3. /\ v5.proposal \in DOMAIN v2 \cup {0} /\ v5.persisted \cap Person \subseteq W!Stored
      /\ v8 \in 0..MaxIds /\ v12 \in 0..MaxFaults
  BY DEF W!WizardInv, W!TypeOK, W!Made
<1>4. v8 \in Nat /\ v8 >= v8 /\ v13 \subseteq Person
  BY WizardTypes
<1>5. v7' \in SUBSET v7 /\ v13' \subseteq Person /\ v13' \subseteq W!Stored
  BY <1>1, <1>4, CleanIsStored
<1>6. W!IntentHolds'
  BY <1>1, <1>4, IntentStays
<1> QED
  BY <1>1, <1>2, <1>3, <1>4, <1>5, <1>6, NothingStored

LEMMA EndKept ==
  ASSUME W!WizardInv, W!End
  PROVE  W!WizardInv'
<1>1. /\ v5' = v5 /\ v13' = v13 /\ v11'.pending = W!dirty
      /\ v1' = v1 /\ v2' = v2 /\ v3' = v3 /\ v4' = v4 /\ v6' = v6 /\ v7' = v7 /\ v8' = v8
      /\ v12' = v12
  BY DEF W!End, W!Report
<1>2. /\ v5 \in W!Draft
      /\ v5.proposal \in DOMAIN v2 \cup {0} /\ v5.persisted \cap Person \subseteq W!Stored
      /\ v13 \subseteq v5.value \cup W!Stored /\ v8 \in 0..MaxIds /\ v12 \in 0..MaxFaults
  BY DEF W!WizardInv, W!TypeOK, W!Made, W!EnteredIsKept
<1>3. v8 \in Nat /\ v8 >= v8 /\ v13 \subseteq Person
  BY WizardTypes
<1>4. ~W!dirty => v13 \subseteq W!Stored
  BY CleanIsStored DEF W!dirty
<1>5. W!IntentHolds'
  BY <1>1, <1>3, IntentStays
<1> QED
  BY <1>1, <1>2, <1>3, <1>4, <1>5, NothingStored

-----------------------------------------------------------------------------
(* The actions that store.                                                 *)

(* A step that may commit or store, while the wizard runs: what was stored *)
(* stays stored.                                                           *)
LEMMA SomethingStored ==
  ASSUME W!WizardInv, v1' \in W!Source, v4' = v4, v11' = None,
         v8' \in 0..MaxIds, v12' \in 0..MaxFaults,
         DOMAIN v2' \cup DOMAIN v3' \subseteq 1..v8', v7' \subseteq DOMAIN v2',
         \A i \in DOMAIN v3' : v3'[i] \in W!Source,
         v4 = "autonomous" => DOMAIN v2' = {},
         v5' \in W!Draft, v5'.proposal \in DOMAIN v2' \cup {0},
         v1'.content \cap Person \subseteq W!Stored', v5'.persisted \cap Person \subseteq W!Stored',
         W!IntentHolds', W!StoreTyped',
         v13' \subseteq Person, v13' \subseteq v5'.value \cup W!Stored'
  PROVE  W!WizardInv'
<1>1. W!TypeOK'
  BY DEF W!TypeOK, W!IntentHolds
<1>2. W!Made(v1.content)' /\ W!Made(v5.persisted)'
  BY DEF W!Made
<1>3. W!EnteredIsKept'
  BY DEF W!EnteredIsKept
<1> QED
  BY <1>1, <1>2, <1>3 DEF W!WizardInv

(* What a commit stores, next to what was stored before it.                *)
LEMMA CommitStores ==
  ASSUME W!WizardInv, NEW id, id \notin DOMAIN v3, NEW content \in W!Contents, W!Commit(id, content),
         DOMAIN v2' = DOMAIN v2, \A i \in DOMAIN v2 : v2'[i].content = v2[i].content
  PROVE  W!Stored \subseteq W!Stored' /\ content \subseteq W!Stored' /\ v1'.content \subseteq W!Stored'
<1>1. /\ v1'.content = content /\ DOMAIN v3' = DOMAIN v3 \cup {id} /\ v3'[id] = v1'
      /\ \A i \in DOMAIN v3 : v3'[i] = v3[i]
  BY CommitFacts
<1>2. W!Stored \subseteq W!Stored'
  BY <1>1, StoredGrows
<1>3. content \subseteq W!Stored'
  BY <1>1, InStored
<1> QED
  BY <1>1, <1>2, <1>3

(* A commit of the wizard that adopts what it made, as all but one do.     *)
LEMMA CommitAdopted ==
  ASSUME W!WizardInv, NEW id \in W!Ids, id \notin DOMAIN v3, NEW content \in W!Contents,
         W!Commit(id, content), v5' = W!Adopted(v1'), v6' = None, v4' = v4, v11' = None,
         DOMAIN v2' = DOMAIN v2, \A i \in DOMAIN v2 : v2'[i].content = v2[i].content,
         W!StoreTyped', v7' \in SUBSET v7, v12' \in 0..MaxFaults,
         v8' \in 0..MaxIds, v8' >= v8, id \in 1..v8',
         v13' \subseteq Person, v13' \subseteq content \cup W!Stored
  PROVE  W!WizardInv'
<1>1. /\ v1' \in W!Source /\ v1'.content = content /\ DOMAIN v3' = DOMAIN v3 \cup {id}
      /\ \A i \in DOMAIN v3' : v3'[i] \in W!Source
  BY CommitFacts
<1>2. W!Stored \subseteq W!Stored' /\ content \subseteq W!Stored'
  BY CommitStores
<1>3. v5' \in W!Draft /\ v5'.value = content /\ v5'.persisted = content /\ v5'.proposal = 0
  BY <1>1, AdoptedFacts
<1>4. DOMAIN v2' \cup DOMAIN v3' \subseteq 1..v8'
  <2>1. /\ v8 \in Nat /\ v8' \in Nat /\ DOMAIN v2 \subseteq 1..v8 /\ DOMAIN v3 \subseteq 1..v8
    BY WizardTypes, WizardLimits
  <2>2. 1..v8 \subseteq 1..v8'
    BY <2>1
  <2> QED
    BY <1>1, <2>1, <2>2
<1>5. v7' \subseteq DOMAIN v2' /\ (v4 = "autonomous" => DOMAIN v2' = {})
  BY DEF W!WizardInv, W!TypeOK
<1>6. v1'.content \cap Person \subseteq W!Stored' /\ v5'.persisted \cap Person \subseteq W!Stored'
      /\ v13' \subseteq v5'.value \cup W!Stored'
  BY <1>1, <1>2, <1>3
<1> QED
  BY <1>1, <1>3, <1>4, <1>5, <1>6, NoIntent, SomethingStored

LEMMA OtherKept ==
  ASSUME W!WizardInv, NEW e \in Foreign, W!Other(e)
  PROVE  W!WizardInv'
<1>1. /\ v1' = [rev |-> v1.rev + 1, content |-> v1.content \cup {e}] /\ v11 = None
      /\ v2' = v2 /\ v3' = v3 /\ v4' = v4 /\ v5' = v5 /\ v6' = v6 /\ v7' = v7 /\ v8' = v8
      /\ v11' = v11 /\ v12' = v12 /\ v13' = v13
  BY DEF W!Other, W!Running
<1>2. v1' \in W!Source /\ v1'.content = v1.content \cup {e}
  <2>1. v1.content \cup {e} \in W!Contents /\ v1.rev + 1 \in Nat
    BY WizardTypes DEF W!Contents
  <2> QED
    BY <1>1, <2>1 DEF W!Source
<1>3. W!Stored' = W!Stored
  BY <1>1 DEF W!Stored
<1>4. v1'.content \cap Person \subseteq W!Stored'
  <2>1. v1.content \cap Person \subseteq W!Stored
    BY DEF W!WizardInv, W!Made
  <2>2. e \notin Person
    BY WizardLimits
  <2> QED
    BY <1>2, <1>3, <2>1, <2>2
<1>5. /\ v5 \in W!Draft /\ v8 \in 0..MaxIds /\ v12 \in 0..MaxFaults
      /\ DOMAIN v2 \cup DOMAIN v3 \subseteq 1..v8 /\ v7 \subseteq DOMAIN v2
      /\ \A i \in DOMAIN v3 : v3[i] \in W!Source
      /\ v5.proposal \in DOMAIN v2 \cup {0} /\ v5.persisted \cap Person \subseteq W!Stored
      /\ v13 \subseteq v5.value \cup W!Stored /\ v13 \subseteq Person
      /\ (v4 = "autonomous" => DOMAIN v2 = {})
  BY DEF W!WizardInv, W!TypeOK, W!Made, W!EnteredIsKept
<1>6. W!IntentHolds'
  <2>1. v8 \in Nat /\ v8 >= v8
    BY WizardTypes
  <2> QED
    BY <1>1, <2>1, IntentStays
<1>7. W!StoreTyped'
  BY <1>1 DEF W!WizardInv, W!StoreTyped
<1> QED
  BY <1>1, <1>2, <1>3, <1>4, <1>5, <1>6, <1>7, SomethingStored

(* A proposal with the contents of this draft, or of the source with one   *)
(* more piece of evidence.                                                 *)
LEMMA StoresProposal ==
  ASSUME W!WizardInv, NEW id \in W!Ids, id \notin DOMAIN v3, NEW p,
         p \in [content : W!Contents, base : Nat, supersedes : Nat, open : BOOLEAN],
         id \in DOMAIN v2 => v2[id].content = p.content,
         v2' = [i \in DOMAIN v2 \cup {id} |-> IF i = id THEN p ELSE v2[i]],
         v4 = "review-each-change",
         v1' = v1, v3' = v3, v4' = v4, v11' = None,
         v8' \in 0..MaxIds, v8' >= v8, id \in 1..v8', v12' \in 0..MaxFaults,
         v7' \subseteq v7 \cup {id},
         v5' \in W!Draft, v5'.proposal \in DOMAIN v2 \cup {0, id},
         v5'.persisted \cap Person \subseteq W!Stored \cup p.content,
         W!IntentHolds', v13' \subseteq Person,
         v13' \subseteq v5'.value \cup W!Stored \cup p.content
  PROVE  W!WizardInv'
<1>1. /\ DOMAIN v2' = DOMAIN v2 \cup {id} /\ v2'[id] = p
      /\ \A i \in DOMAIN v2 : i # id => v2'[i] = v2[i]
  OBVIOUS
<1>2. W!Stored \subseteq W!Stored'
  <2>1. \A i \in DOMAIN v2 : i \in DOMAIN v2' /\ v2'[i].content = v2[i].content
    BY <1>1
  <2> QED
    BY <2>1, StoredGrows
<1>3. p.content \subseteq W!Stored'
  BY <1>1, InStored
<1>4. DOMAIN v2' \cup DOMAIN v3' \subseteq 1..v8'
  <2>1. /\ v8 \in Nat /\ v8' \in Nat /\ DOMAIN v2 \subseteq 1..v8 /\ DOMAIN v3 \subseteq 1..v8
    BY WizardTypes, WizardLimits
  <2>2. 1..v8 \subseteq 1..v8'
    BY <2>1
  <2> QED
    BY <1>1, <2>1, <2>2
<1>5. v7 \subseteq DOMAIN v2 /\ v1 \in W!Source /\ v1.content \cap Person \subseteq W!Stored
      /\ \A i \in DOMAIN v3 : v3[i] \in W!Source
  BY DEF W!WizardInv, W!TypeOK, W!Made
<1>6. W!StoreTyped'
  BY <1>1 DEF W!WizardInv, W!StoreTyped
<1>7. /\ v7' \subseteq DOMAIN v2' /\ v5'.proposal \in DOMAIN v2' \cup {0}
      /\ v1'.content \cap Person \subseteq W!Stored' /\ v5'.persisted \cap Person \subseteq W!Stored'
      /\ v13' \subseteq v5'.value \cup W!Stored'
      /\ \A i \in DOMAIN v3' : v3'[i] \in W!Source
  BY <1>1, <1>2, <1>3, <1>5
<1>8. v4 = "autonomous" => DOMAIN v2' = {}
  OBVIOUS
<1> QED
  BY <1>4, <1>5, <1>6, <1>7, <1>8, SomethingStored

(* saveDraft, by what becomes of it.                                       *)
LEMMA SaveKept ==
  ASSUME W!WizardInv, NEW id \in W!Ids, W!saveDraft(id)
  PROVE  W!WizardInv'
<1>1. /\ W!Intends(id) /\ v4' = v4 /\ v7' = v7 /\ v11' = v11 /\ v12' = v12 /\ v13' = v13
      /\ W!Conflicted(id) \/ W!Proposed(id) \/ W!Committed(id) \/ W!Repeated(id)
  BY DEF W!saveDraft
<1>2. /\ v11 = None /\ v8' \in Nat /\ v8' >= v8 /\ id \in 1..v8' /\ v8' \in 0..MaxIds
      /\ id \in DOMAIN v3 => v3[id].content = v5.value
      /\ id \in DOMAIN v2 => v2[id].content = v5.value
  BY <1>1, IntendsFacts
<1>3. /\ v5 \in W!Draft /\ v12 \in 0..MaxFaults
      /\ \A i \in DOMAIN v3 : v3[i] \in W!Source
      /\ v5.proposal \in DOMAIN v2 \cup {0} /\ v5.persisted \cap Person \subseteq W!Stored
      /\ v13 \subseteq v5.value \cup W!Stored /\ v13 \subseteq Person
      /\ (v4 = "autonomous" => DOMAIN v2 = {}) /\ v4 \in {"autonomous", "review-each-change"}
  BY DEF W!WizardInv, W!TypeOK, W!Made, W!EnteredIsKept
<1>4. /\ v5.base.rev \in Nat /\ v5.value \in W!Contents /\ v5.proposal \in Nat
  BY WizardTypes DEF W!Source
<1>5. v7' \in SUBSET v7 /\ v12' \in 0..MaxFaults /\ v11' = None
  BY <1>1, <1>2, <1>3
<1>6. CASE W!Conflicted(id)
  <2>1. /\ v1' = v1 /\ v2' = v2 /\ v3' = v3 /\ v5' = v5 /\ v6' = [id |-> id, value |-> v5.value]
    BY <1>6 DEF W!Conflicted
  <2>2. W!IntentHolds'
    BY <1>2, <2>1, IntentSaved
  <2> QED
    BY <1>1, <1>2, <1>3, <1>5, <2>1, <2>2, NothingStored
<1>7. CASE W!Proposed(id)
  <2> DEFINE p == [content |-> v5.value, base |-> v5.base.rev, supersedes |-> v5.proposal, open |-> TRUE]
  <2>1. /\ v1' = v1 /\ v3' = v3 /\ v6' = [id |-> id, value |-> v5.value]
        /\ v5' = [v5 EXCEPT !.proposal = id, !.persisted = v5.value]
        /\ v2' = [i \in DOMAIN v2 \cup {id} |-> IF i = id THEN p ELSE v2[i]]
        /\ id \notin DOMAIN v3 /\ v4 = "review-each-change"
    BY <1>7, VerdictFacts DEF W!Proposed, W!Propose
  <2>2. /\ v5' \in W!Draft /\ v5'.value = v5.value /\ v5'.persisted = v5.value /\ v5'.proposal = id
    <3>1. id \in Nat
      BY <1>1, IntendsFacts
    <3> QED
      BY <1>4, <2>1, <3>1, WizardTypes DEF W!Draft
  <2>3. p \in [content : W!Contents, base : Nat, supersedes : Nat, open : BOOLEAN] /\ p.content = v5.value
    BY <1>4
  <2>4. W!IntentHolds'
    BY <1>2, <2>1, <2>3, IntentSaved
  <2> HIDE DEF p
  <2>5. v7' \subseteq v7 \cup {id} /\ v5'.proposal \in DOMAIN v2 \cup {0, id} /\ v13' \subseteq Person
    BY <1>1, <1>3, <2>2
  <2>6. /\ v5'.persisted \cap Person \subseteq W!Stored \cup p.content
        /\ v13' \subseteq v5'.value \cup W!Stored \cup p.content
        /\ (id \in DOMAIN v2 => v2[id].content = p.content)
    BY <1>1, <1>2, <1>3, <2>2, <2>3
  <2> QED
    BY <1>1, <1>2, <1>5, <2>1, <2>2, <2>3, <2>4, <2>5, <2>6, StoresProposal
<1>8. CASE W!Committed(id)
  <2>1. /\ v2' = v2 /\ v6' = None /\ v5' = W!Adopted(v1') /\ W!Commit(id, v5.value)
        /\ id \notin DOMAIN v3 /\ DOMAIN v2 = {}
    BY <1>3, <1>8, VerdictFacts DEF W!Committed
  <2>2. W!StoreTyped'
    BY <2>1 DEF W!StoreTyped
  <2>3. v13' \subseteq Person /\ v13' \subseteq v5.value \cup W!Stored
    BY <1>1, <1>3
  <2>4. DOMAIN v2' = DOMAIN v2 /\ \A i \in DOMAIN v2 : v2'[i].content = v2[i].content
    BY <2>1
  <2> QED
    BY <1>1, <1>2, <1>4, <1>5, <2>1, <2>2, <2>3, <2>4, CommitAdopted
<1>9. CASE W!Repeated(id)
  <2>1. /\ v1' = v1 /\ v2' = v2 /\ v3' = v3 /\ v5' = W!Adopted(v3[id]) /\ v6' = None
        /\ id \in DOMAIN v3
    BY <1>9, VerdictFacts DEF W!Repeated
  <2>2. /\ v5' \in W!Draft /\ v5'.value = v5.value /\ v5'.persisted = v5.value /\ v5'.proposal = 0
    BY <1>2, <1>3, <2>1, AdoptedFacts
  <2>3. v5.value \subseteq W!Stored
    BY <1>2, <2>1, InStored
  <2>4. v5'.persisted \cap Person \subseteq W!Stored /\ v13' \subseteq Person
        /\ v13' \subseteq v5'.value \cup W!Stored
    BY <1>1, <1>3, <2>2, <2>3
  <2> QED
    BY <1>1, <1>2, <1>5, <2>1, <2>2, <2>4, NoIntent, NothingStored
<1> QED
  BY <1>1, <1>6, <1>7, <1>8, <1>9

(* A save whose answer is lost, whether it took effect or not.             *)
LEMMA SaveFailsKept ==
  ASSUME W!WizardInv, NEW id \in W!Ids, NEW effective \in BOOLEAN, W!SaveFails(id, effective)
  PROVE  W!WizardInv'
<1>1. /\ W!Intends(id) /\ v4' = v4 /\ v5' = v5 /\ v7' = v7 /\ v11' = v11 /\ v13' = v13
      /\ v12 < MaxFaults /\ v12' = v12 + 1 /\ v6' = [id |-> id, value |-> v5.value]
      /\ IF effective
           THEN \/ W!Verdict(id) = "committed" /\ W!Commit(id, v5.value) /\ v2' = v2
                \/ W!Verdict(id) = "proposal" /\ W!Propose(id) /\ v1' = v1 /\ v3' = v3
           ELSE v1' = v1 /\ v2' = v2 /\ v3' = v3
  BY DEF W!SaveFails
<1>2. /\ v11 = None /\ v8' \in Nat /\ v8' >= v8 /\ id \in 1..v8' /\ v8' \in 0..MaxIds
      /\ id \in DOMAIN v3 => v3[id].content = v5.value
      /\ id \in DOMAIN v2 => v2[id].content = v5.value
  BY <1>1, IntendsFacts
<1>3. /\ v5 \in W!Draft /\ v12 \in 0..MaxFaults /\ v7 \subseteq DOMAIN v2
      /\ \A i \in DOMAIN v3 : v3[i] \in W!Source
      /\ v5.proposal \in DOMAIN v2 \cup {0} /\ v5.persisted \cap Person \subseteq W!Stored
      /\ v13 \subseteq v5.value \cup W!Stored /\ v13 \subseteq Person
      /\ (v4 = "autonomous" => DOMAIN v2 = {}) /\ v4 \in {"autonomous", "review-each-change"}
  BY DEF W!WizardInv, W!TypeOK, W!Made, W!EnteredIsKept
<1>4. /\ v5.base.rev \in Nat /\ v5.value \in W!Contents /\ v5.proposal \in Nat
  BY WizardTypes DEF W!Source
<1>5. v7' \in SUBSET v7 /\ v12' \in 0..MaxFaults /\ v11' = None
  <2>1. v12' \in 0..MaxFaults
    BY <1>1, <1>3, WizardLimits
  <2> QED
    BY <1>1, <1>2, <2>1
<1>6. CASE v1' = v1 /\ v2' = v2 /\ v3' = v3
  <2>1. W!IntentHolds'
    BY <1>1, <1>2, <1>6, IntentSaved
  <2> QED
    BY <1>1, <1>2, <1>3, <1>5, <1>6, <2>1, NothingStored
<1>7. CASE W!Verdict(id) = "committed" /\ W!Commit(id, v5.value) /\ v2' = v2
  <2>1. id \notin DOMAIN v3 /\ DOMAIN v2 = {}
    BY <1>3, <1>7, VerdictFacts
  <2>2. /\ v1' \in W!Source /\ v1'.content = v5.value
        /\ DOMAIN v3' = DOMAIN v3 \cup {id} /\ v3'[id] = v1'
        /\ \A i \in DOMAIN v3' : v3'[i] \in W!Source
    BY <1>4, <1>7, <2>1, CommitFacts
  <2>3. W!Stored \subseteq W!Stored' /\ v1'.content \subseteq W!Stored'
    BY <1>4, <1>7, <2>1, CommitStores
  <2>4. W!StoreTyped'
    BY <1>7, <2>1 DEF W!StoreTyped
  <2>5. W!IntentHolds'
    BY <1>1, <1>2, <1>7, <2>1, <2>2, IntentSaved
  <2>6. DOMAIN v2' \cup DOMAIN v3' \subseteq 1..v8'
    <3>1. v8 \in Nat /\ DOMAIN v3 \subseteq 1..v8
      BY WizardTypes
    <3>2. 1..v8 \subseteq 1..v8'
      BY <1>2, <3>1
    <3> QED
      BY <1>2, <1>7, <2>1, <2>2, <3>1, <3>2
  <2>7. /\ v1'.content \cap Person \subseteq W!Stored' /\ v5'.persisted \cap Person \subseteq W!Stored'
        /\ v13' \subseteq v5'.value \cup W!Stored' /\ v13' \subseteq Person
    BY <1>1, <1>3, <2>3
  <2>8. v7' \subseteq DOMAIN v2' /\ v5' \in W!Draft /\ v5'.proposal \in DOMAIN v2' \cup {0}
        /\ (v4 = "autonomous" => DOMAIN v2' = {})
    BY <1>1, <1>3, <1>7
  <2> QED
    BY <1>1, <1>2, <1>5, <2>2, <2>4, <2>5, <2>6, <2>7, <2>8, SomethingStored
<1>8. CASE W!Verdict(id) = "proposal" /\ W!Propose(id) /\ v1' = v1 /\ v3' = v3
  <2> DEFINE p == [content |-> v5.value, base |-> v5.base.rev, supersedes |-> v5.proposal, open |-> TRUE]
  <2>1. /\ v2' = [i \in DOMAIN v2 \cup {id} |-> IF i = id THEN p ELSE v2[i]]
        /\ id \notin DOMAIN v3 /\ v4 = "review-each-change"
    BY <1>8, VerdictFacts DEF W!Propose
  <2>2. p \in [content : W!Contents, base : Nat, supersedes : Nat, open : BOOLEAN] /\ p.content = v5.value
    BY <1>4
  <2>3. W!IntentHolds'
    BY <1>1, <1>2, <1>8, <2>1, <2>2, IntentSaved
  <2> HIDE DEF p
  <2>4. /\ v7' \subseteq v7 \cup {id} /\ v5'.proposal \in DOMAIN v2 \cup {0, id} /\ v13' \subseteq Person
        /\ v5' \in W!Draft
    BY <1>1, <1>3
  <2>5. /\ v5'.persisted \cap Person \subseteq W!Stored \cup p.content
        /\ v13' \subseteq v5'.value \cup W!Stored \cup p.content
        /\ (id \in DOMAIN v2 => v2[id].content = p.content)
    BY <1>1, <1>2, <1>3, <2>2
  <2> QED
    BY <1>1, <1>2, <1>5, <1>8, <2>1, <2>2, <2>3, <2>4, <2>5, StoresProposal
<1> QED
  BY <1>1, <1>6, <1>7, <1>8

(* A review or evidence of a clean draft, under an identity of its own.    *)
LEMMA RunToolKept ==
  ASSUME W!WizardInv, NEW e \in Person, W!RunTool(e)
  PROVE  W!WizardInv'
<1> DEFINE id == v8 + 1
           content == v1.content \cup {e}
           p == [content |-> content, base |-> v1.rev, supersedes |-> 0, open |-> TRUE]
<1>1. /\ v11 = None /\ id \in W!Ids /\ v8' = id /\ v13' = v13 \cup {e} /\ ~W!dirty
      /\ v4' = v4 /\ v11' = v11 /\ v12' = v12
      /\ IF v4 = "review-each-change"
           THEN /\ v2' = [i \in DOMAIN v2 \cup {id} |-> IF i = id THEN p ELSE v2[i]]
                /\ v7' = v7 \cup {id} /\ v1' = v1 /\ v3' = v3 /\ v5' = v5 /\ v6' = v6
           ELSE /\ W!Commit(id, content) /\ v5' = W!Adopted(v1') /\ v6' = None
                /\ v2' = v2 /\ v7' = v7
  BY DEF W!RunTool, W!Clean, W!Running
<1>2. /\ v8 \in Nat /\ v13 \subseteq Person /\ v1.rev \in Nat
      /\ DOMAIN v2 \subseteq 1..v8 /\ DOMAIN v3 \subseteq 1..v8
  BY WizardTypes
<1>3. id \notin DOMAIN v3 /\ id \notin DOMAIN v2 /\ id \notin 1..v8
  BY <1>2
<1>4. v8' \in Nat /\ v8' >= v8 /\ id \in 1..v8' /\ v8' \in 0..MaxIds
  BY <1>1, <1>2, WizardLimits DEF W!Ids
<1>5. content \in W!Contents
  BY WizardTypes DEF W!Contents
<1>6. p \in [content : W!Contents, base : Nat, supersedes : Nat, open : BOOLEAN] /\ p.content = content
  BY <1>2, <1>5
<1>7. v13 \subseteq W!Stored
  BY <1>1, CleanIsStored DEF W!dirty
<1>8. /\ v5 \in W!Draft /\ v12 \in 0..MaxFaults /\ v7 \subseteq DOMAIN v2
      /\ v5.proposal \in DOMAIN v2 \cup {0} /\ v5.persisted \cap Person \subseteq W!Stored
      /\ (v4 = "autonomous" => DOMAIN v2 = {}) /\ v4 \in {"autonomous", "review-each-change"}
  BY DEF W!WizardInv, W!TypeOK, W!Made
<1>9. v13' \subseteq Person /\ v11' = None /\ v12' \in 0..MaxFaults /\ e \in content
  BY <1>1, <1>2, <1>8
<1> HIDE DEF id, content, p
<1>10. CASE v4 = "review-each-change"
  <2>1. /\ v2' = [i \in DOMAIN v2 \cup {id} |-> IF i = id THEN p ELSE v2[i]]
        /\ v7' = v7 \cup {id} /\ v1' = v1 /\ v3' = v3 /\ v5' = v5 /\ v6' = v6
    BY <1>1, <1>10
  <2>2. W!IntentHolds'
    <3>1. \A i \in 1..v8 : /\ i \in DOMAIN v3' <=> i \in DOMAIN v3
                           /\ i \in DOMAIN v2' <=> i \in DOMAIN v2
      BY <1>3, <2>1
    <3>2. /\ \A i \in DOMAIN v3 : v3'[i].content = v3[i].content
          /\ \A i \in DOMAIN v2 : v2'[i].content = v2[i].content
      BY <1>3, <2>1
    <3> QED
      BY <1>4, <2>1, <3>1, <3>2, IntentStays
  <2>3. /\ v7' \subseteq v7 \cup {id} /\ v5' \in W!Draft /\ v5'.proposal \in DOMAIN v2 \cup {0, id}
        /\ v5'.persisted \cap Person \subseteq W!Stored \cup p.content
        /\ v13' \subseteq v5'.value \cup W!Stored \cup p.content
    BY <1>1, <1>6, <1>7, <1>8, <1>9, <2>1
  <2> QED
    BY <1>1, <1>3, <1>4, <1>6, <1>9, <1>10, <2>1, <2>2, <2>3, StoresProposal
<1>11. CASE v4 # "review-each-change"
  <2>1. /\ W!Commit(id, content) /\ v5' = W!Adopted(v1') /\ v6' = None /\ v2' = v2 /\ v7' = v7
        /\ DOMAIN v2 = {}
    BY <1>1, <1>8, <1>11
  <2>2. W!StoreTyped'
    BY <2>1 DEF W!StoreTyped
  <2>3. v13' \subseteq content \cup W!Stored /\ v7' \in SUBSET v7
    BY <1>1, <1>7, <1>9, <2>1
  <2>4. DOMAIN v2' = DOMAIN v2 /\ \A i \in DOMAIN v2 : v2'[i].content = v2[i].content
    BY <2>1
  <2> QED
    BY <1>1, <1>3, <1>4, <1>5, <1>9, <2>1, <2>2, <2>3, <2>4, CommitAdopted
<1> QED
  BY <1>10, <1>11

(* A pending proposal becomes the source.                                  *)
LEMMA ApplyKept ==
  ASSUME W!WizardInv, NEW i \in W!Ids, W!applyProposal(i)
  PROVE  W!WizardInv'
<1>1. /\ v11 = None /\ ~W!dirty /\ i \in DOMAIN v2 /\ v2[i].open /\ W!Commit(i, v2[i].content)
      /\ v2' = [v2 EXCEPT ![i].open = FALSE] /\ v5' = W!Adopted(v1') /\ v6' = None
      /\ v7' = v7 \ {i} /\ v4' = v4 /\ v8' = v8 /\ v11' = v11 /\ v12' = v12 /\ v13' = v13
  BY DEF W!applyProposal, W!Pending, W!Running
<1>2. /\ v2[i] \in [content : W!Contents, base : Nat, supersedes : Nat, open : BOOLEAN]
      /\ i \notin DOMAIN v3
  BY <1>1 DEF W!WizardInv, W!StoreTyped
<1>3. v2[i].content \in W!Contents
  BY <1>2
<1>4. /\ DOMAIN v2' = DOMAIN v2 /\ v2'[i] = [v2[i] EXCEPT !.open = FALSE]
      /\ \A j \in DOMAIN v2 : j # i => v2'[j] = v2[j]
  BY <1>1
<1>5. /\ v2'[i] \in [content : W!Contents, base : Nat, supersedes : Nat, open : BOOLEAN]
      /\ v2'[i].content = v2[i].content /\ v2'[i].open = FALSE
  BY <1>2, <1>4
<1>6. \A j \in DOMAIN v2 : v2'[j].content = v2[j].content
  BY <1>4, <1>5
<1>7. DOMAIN v3' = DOMAIN v3 \cup {i}
  BY <1>1, <1>2, <1>3, CommitFacts
<1>8. W!StoreTyped'
  <2> SUFFICES ASSUME NEW j \in DOMAIN v2
               PROVE  /\ v2'[j] \in [content : W!Contents, base : Nat, supersedes : Nat,
                                     open : BOOLEAN]
                      /\ v2'[j].open => j \notin DOMAIN v3'
    BY <1>4 DEF W!StoreTyped
  <2>1. CASE j = i
    BY <1>5, <2>1
  <2>2. CASE j # i
    BY <1>4, <1>7, <2>2 DEF W!WizardInv, W!StoreTyped
  <2> QED
    BY <2>1, <2>2
<1>9. v13' \subseteq Person /\ v13' \subseteq v2[i].content \cup W!Stored
  BY <1>1, CleanIsStored, WizardTypes DEF W!dirty
<1>10. v8' \in 0..MaxIds /\ v8' >= v8 /\ v12' \in 0..MaxFaults /\ v7' \in SUBSET v7 /\ v11' = None
  <2>1. v8 \in 0..MaxIds /\ v12 \in 0..MaxFaults
    BY DEF W!WizardInv, W!TypeOK
  <2>2. v8 \in Nat /\ v8 >= v8
    BY WizardTypes
  <2> QED
    BY <1>1, <2>1, <2>2
<1>11. i \in 1..v8'
  BY <1>1, WizardTypes
<1> QED
  BY <1>1, <1>2, <1>3, <1>4, <1>6, <1>8, <1>9, <1>10, <1>11, CommitAdopted

(* Every step of the wizard keeps its invariant.                           *)
LEMMA WizardKept ==
  ASSUME W!WizardInv, W!Next \/ UNCHANGED W!wvars
  PROVE  W!WizardInv'
<1>1. CASE UNCHANGED W!wvars
  <2>1. /\ v1' = v1 /\ v2' = v2 /\ v3' = v3 /\ v4' = v4 /\ v5' = v5 /\ v6' = v6 /\ v7' = v7
        /\ v8' = v8 /\ v11' = v11 /\ v12' = v12 /\ v13' = v13
    BY <1>1 DEF W!wvars
  <2>2. /\ v5 \in W!Draft /\ v5.proposal \in DOMAIN v2 \cup {0}
        /\ v5.persisted \cap Person \subseteq W!Stored
        /\ v13 \subseteq v5.value \cup W!Stored /\ v8 \in 0..MaxIds /\ v12 \in 0..MaxFaults
        /\ (v11 # None /\ ~v11.pending => v13 \subseteq W!Stored)
    BY DEF W!WizardInv, W!TypeOK, W!Made, W!EnteredIsKept
  <2>3. v8 \in Nat /\ v8 >= v8 /\ v13 \subseteq Person
    BY WizardTypes
  <2>4. W!IntentHolds'
    BY <2>1, <2>3, IntentStays
  <2> QED
    BY <2>1, <2>2, <2>3, <2>4, NothingStored
<1>2. ASSUME NEW e \in Foreign, W!Other(e) PROVE W!WizardInv'
  BY <1>2, OtherKept
<1>3. ASSUME NEW e \in Person, W!Enter(e) \/ W!RunTool(e) PROVE W!WizardInv'
  BY <1>3, EnterKept, RunToolKept
<1>4. ASSUME NEW id \in W!Ids, W!saveDraft(id) \/ W!applyProposal(id) PROVE W!WizardInv'
  BY <1>4, SaveKept, ApplyKept
<1>5. ASSUME NEW id \in W!Ids, NEW effective \in BOOLEAN, W!SaveFails(id, effective)
      PROVE  W!WizardInv'
  BY <1>5, SaveFailsKept
<1>6. CASE W!Reload \/ W!EditActor \/ W!Exit \/ W!End
  BY <1>6, ReloadKept, EditActorKept, ExitKept, EndKept
<1> QED
  BY <1>1, <1>2, <1>3, <1>4, <1>5, <1>6 DEF W!Next

(* The wizard keeps the ledger: what was committed under an identity is no *)
(* later than the source.                                                  *)
AppliedEarlier == \A i \in DOMAIN v3 : v3[i].rev <= v1.rev
WizardLedgerInv == W!WizardInv /\ AppliedEarlier

LEMMA CommitApplies ==
  ASSUME WizardLedgerInv, NEW id \in W!Ids, id \notin DOMAIN v3, NEW content \in W!Contents,
         W!Commit(id, content)
  PROVE  AppliedEarlier' /\ W!Mutation!Apply(id, v1') /\ v1' \in W!Source
<1>1. /\ v1' = [rev |-> v1.rev + 1, content |-> content]
      /\ v3' = [i \in DOMAIN v3 \cup {id} |-> IF i = id THEN [rev |-> v1.rev + 1, content |-> content]
                                                        ELSE v3[i]]
  BY DEF W!Commit
<1>2. /\ v1' \in W!Source /\ DOMAIN v3' = DOMAIN v3 \cup {id} /\ v3'[id] = v1'
      /\ (\A i \in DOMAIN v3 : v3'[i] = v3[i]) /\ \A i \in DOMAIN v3 : v3[i] \in W!Source
  BY CommitFacts DEF WizardLedgerInv, W!WizardInv, W!TypeOK
<1>3. v1'.rev = v1.rev + 1 /\ v1.rev \in Nat /\ \A i \in DOMAIN v3 : v3[i].rev \in Nat /\ v3[i].rev <= v1.rev
  BY <1>1, <1>2, WizardTypes DEF WizardLedgerInv, AppliedEarlier, W!Source
<1>4. AppliedEarlier'
  <2>1. ASSUME NEW i \in DOMAIN v3' PROVE v3'[i].rev <= v1'.rev
    <3>1. CASE i = id
      BY <1>2, <1>3, <3>1
    <3>2. CASE i # id
      <4>1. i \in DOMAIN v3 /\ v3'[i].rev = v3[i].rev
        BY <1>2, <2>1, <3>2
      <4> QED
        BY <1>3, <4>1
    <3> QED
      BY <3>1, <3>2
  <2> QED
    BY <2>1 DEF AppliedEarlier
<1>5. /\ W!outcome[id] = None
      /\ \A n \in W!Ids : W!outcome[n] # v1'
      /\ \A n \in W!Ids : W!outcome'[n] = IF n = id THEN v1' ELSE W!outcome[n]
  <2>1. \A n \in W!Ids : /\ W!outcome[n] = IF n \in DOMAIN v3 THEN v3[n] ELSE None
                         /\ W!outcome'[n] = IF n \in DOMAIN v3' THEN v3'[n] ELSE None
    BY DEF W!outcome
  <2>2. v1' # None
    BY <1>2, ServicesAssumption DEF W!WizardAssumption, W!Source, W!Contents
  <2>3. ASSUME NEW n \in DOMAIN v3 PROVE v3[n] # v1'
    <3>1. v3[n].rev # v1'.rev
      BY <1>3
    <3> QED
      BY <3>1
  <2> QED
    BY <1>2, <2>1, <2>2, <2>3
<1>6. W!outcome' = [W!outcome EXCEPT ![id] = v1']
  BY <1>5 DEF W!outcome
<1> QED
  BY <1>2, <1>4, <1>5, <1>6 DEF W!Mutation!Apply

LEMMA NothingApplies ==
  ASSUME WizardLedgerInv, v1' = v1, v3' = v3
  PROVE  AppliedEarlier' /\ UNCHANGED <<v1, W!outcome>>
BY DEF WizardLedgerInv, AppliedEarlier, W!outcome

(* What a save, a tool or another process does to the ledger, or nothing.  *)
LedgerStep == AppliedEarlier' /\ (W!Mutation!Next \/ UNCHANGED <<v1, W!outcome>>)

LEMMA CommitInLedger ==
  ASSUME WizardLedgerInv, NEW id \in W!Ids, id \notin DOMAIN v3, NEW content \in W!Contents,
         W!Commit(id, content)
  PROVE  LedgerStep
<1>1. AppliedEarlier' /\ W!Mutation!Apply(id, v1') /\ v1' \in W!Source
  BY CommitApplies
<1> QED
  BY <1>1 DEF LedgerStep, W!Mutation!Next

LEMMA NothingInLedger ==
  ASSUME WizardLedgerInv, v1' = v1, v3' = v3
  PROVE  LedgerStep
BY NothingApplies DEF LedgerStep

LEMMA OtherInLedger ==
  ASSUME WizardLedgerInv, NEW e \in Foreign, W!Other(e)
  PROVE  LedgerStep
<1>1. v1' = [rev |-> v1.rev + 1, content |-> v1.content \cup {e}] /\ v3' = v3
  BY DEF W!Other
<1>2. v1.rev \in Nat /\ v1.content \cup {e} \in W!Contents
  BY WizardTypes DEF WizardLedgerInv, W!Contents
<1>3. v1' \in W!Source /\ v1'.rev = v1.rev + 1
  BY <1>1, <1>2 DEF W!Source
<1>4. AppliedEarlier'
  <2>1. \A i \in DOMAIN v3 : v3[i].rev \in Nat
    BY DEF WizardLedgerInv, W!WizardInv, W!TypeOK, W!Source
  <2>2. \A i \in DOMAIN v3 : v3[i].rev <= v1'.rev
    BY <1>2, <1>3, <2>1 DEF WizardLedgerInv, AppliedEarlier
  <2> QED
    BY <1>1, <2>2 DEF AppliedEarlier
<1>5. UNCHANGED W!outcome
  BY <1>1 DEF W!outcome
<1> QED
  BY <1>3, <1>4, <1>5 DEF LedgerStep, W!Mutation!Next, W!Mutation!Edit

LEMMA SaveInLedger ==
  ASSUME WizardLedgerInv, NEW id \in W!Ids,
         \/ W!saveDraft(id)
         \/ \E effective \in BOOLEAN : W!SaveFails(id, effective)
  PROVE  LedgerStep
<1>1. v5.value \in W!Contents
  BY WizardTypes DEF WizardLedgerInv
<1>2. \/ v1' = v1 /\ v3' = v3
      \/ W!Verdict(id) = "committed" /\ W!Commit(id, v5.value)
  <2>1. CASE W!saveDraft(id)
    BY <2>1 DEF W!saveDraft, W!Conflicted, W!Proposed, W!Committed, W!Repeated
  <2>2. ASSUME NEW effective \in BOOLEAN, W!SaveFails(id, effective)
        PROVE  \/ v1' = v1 /\ v3' = v3
               \/ W!Verdict(id) = "committed" /\ W!Commit(id, v5.value)
    BY <2>2 DEF W!SaveFails
  <2> QED
    BY <2>1, <2>2
<1> QED
  BY <1>1, <1>2, VerdictFacts, CommitInLedger, NothingInLedger

LEMMA ToolInLedger ==
  ASSUME WizardLedgerInv, NEW e \in Person, W!RunTool(e)
  PROVE  LedgerStep
<1>1. /\ v8 + 1 \in W!Ids
      /\ \/ v1' = v1 /\ v3' = v3
         \/ W!Commit(v8 + 1, v1.content \cup {e})
  BY DEF W!RunTool
<1>2. v8 \in Nat /\ DOMAIN v3 \subseteq 1..v8 /\ v1.content \cup {e} \in W!Contents
  BY WizardTypes DEF WizardLedgerInv, W!Contents
<1>3. v8 + 1 \notin DOMAIN v3
  BY <1>2
<1> QED
  BY <1>1, <1>2, <1>3, CommitInLedger, NothingInLedger

LEMMA ProposalInLedger ==
  ASSUME WizardLedgerInv, NEW i \in W!Ids, W!applyProposal(i)
  PROVE  LedgerStep
<1>1. i \in DOMAIN v2 /\ v2[i].open /\ W!Commit(i, v2[i].content)
  BY DEF W!applyProposal, W!Pending
<1>2. v2[i].content \in W!Contents /\ i \notin DOMAIN v3
  BY <1>1 DEF WizardLedgerInv, W!WizardInv, W!StoreTyped
<1> QED
  BY <1>1, <1>2, CommitInLedger

LEMMA WizardInLedger ==
  ASSUME WizardLedgerInv, W!Next \/ UNCHANGED W!wvars
  PROVE  WizardLedgerInv' /\ LedgerStep
<1>1. ASSUME NEW e \in Foreign, W!Other(e) PROVE LedgerStep
  BY <1>1, OtherInLedger
<1>2. ASSUME NEW e \in Person, W!Enter(e) \/ W!RunTool(e) PROVE LedgerStep
  <2>1. CASE W!Enter(e)
    BY <2>1, NothingInLedger DEF W!Enter
  <2> QED
    BY <1>2, <2>1, ToolInLedger
<1>3. ASSUME NEW id \in W!Ids,
             \/ W!saveDraft(id)
             \/ \E effective \in BOOLEAN : W!SaveFails(id, effective)
             \/ W!applyProposal(id)
      PROVE  LedgerStep
  BY <1>3, SaveInLedger, ProposalInLedger
<1>4. ASSUME W!Reload \/ W!EditActor \/ W!Exit \/ W!End \/ UNCHANGED W!wvars PROVE LedgerStep
  <2>1. v1' = v1 /\ v3' = v3
    BY <1>4 DEF W!Reload, W!EditActor, W!Exit, W!End, W!wvars
  <2> QED
    BY <2>1, NothingInLedger
<1>5. LedgerStep
  BY <1>1, <1>2, <1>3, <1>4 DEF W!Next
<1> QED
  BY <1>5, WizardKept DEF WizardLedgerInv, LedgerStep

(* Every save of the wizard makes one revision at most: a retry of a save  *)
(* whose answer was lost, a tool and a proposal that is applied are each   *)
(* one mutation of the ledger that Transactions implements, under a        *)
(* revision no other mutation has, and what an identity made never         *)
(* changes.                                                                *)
THEOREM WizardImplementsLedger == W!Spec => W!ImplementsLedger
<1>1. W!Init => WizardLedgerInv /\ W!Mutation!Init
  <2> SUFFICES ASSUME W!Init PROVE WizardLedgerInv /\ W!Mutation!Init
    OBVIOUS
  <2>1. W!WizardInv
    BY WizardStarts
  <2>2. DOMAIN v3 = {}
    BY DEF W!Init
  <2>3. v1 \in W!Source
    BY <2>1, WizardTypes
  <2>4. W!outcome = [m \in W!Ids |-> None]
    BY <2>2 DEF W!outcome
  <2> QED
    BY <2>1, <2>2, <2>3, <2>4 DEF WizardLedgerInv, AppliedEarlier, W!Mutation!Init
<1>2. WizardLedgerInv /\ [W!Next]_(W!wvars)
      => WizardLedgerInv' /\ [W!Mutation!Next]_<<v1, W!outcome>>
  BY WizardInLedger DEF LedgerStep
<1> QED
  BY <1>1, <1>2, PTL DEF W!Spec, W!ImplementsLedger, W!Mutation!Spec

-----------------------------------------------------------------------------
(* Migration: v1 sources, v2 members, v3 histories, v4 folderLocks,        *)
(* v5 backups, v6 outdated, v7 newest, v8 jobs, v9 jobsStarted,            *)
(* v10 mishaps.                                                            *)

LEMMA MigrationConstants == M!AbsentAssumption /\ M!BoundsAssumption
BY ServicesAssumption

(* What a step leaves: nothing is taken from a folder or its history, and  *)
(* a backup directory keeps what it is of and what was written whole.      *)
Grown ==
  /\ \A f \in Items : v2[f] \subseteq v2'[f] /\ v3[f] \subseteq v3'[f]
  /\ v6 \subseteq v6'

DirectoryStays(b) ==
  /\ v5'[b].folder = v5[b].folder /\ v5'[b].source = v5[b].source
  /\ v5'[b].members = v5[b].members
  /\ v5[b].manifest = "whole" => v5'[b].manifest = "whole"
  /\ v5[b].target # M!Missing => v5'[b].target = v5[b].target

LocksTyped ==
  /\ v4 \in [Items -> Calls \cup {"free"}]
  /\ \A f \in Items : ~M!Unlocked(f) =>
       /\ v4[f] \in Calls
       /\ v8[v4[f]].pc \notin {"idle", "lock", "empty", "create", "createHistory"}

LEMMA RevisionsAre ==
  /\ M!Revisions \subseteq Int /\ M!Missing \in Int /\ M!Missing \notin M!Revisions
  /\ \A r \in M!Revisions : M!Missing < r
BY DEF M!Revisions, M!Missing

LEMMA RestingIs ==
  /\ M!Resting \in M!Job /\ M!Resting.pc = "idle" /\ M!Resting.op = "none" /\ M!Resting.at = None
  /\ M!Resting.target = M!Missing /\ M!Resting.copied = {}
BY DEF M!Resting, M!Job

LEMMA RestedInOrder ==
  ASSUME NEW j \in Calls, v8'[j] = M!Resting
  PROVE  M!InOrder(j)' /\ ~M!Owns(j)' /\ ~M!Reserves(j)' /\ ~M!Destined(j)'
BY RestingIs DEF M!InOrder, M!Placed, M!In, M!Owns, M!Reserves, M!Destined

LEMMA OthersInOrder ==
  ASSUME NEW i \in Calls, M!InOrder(i), v8'[i] = v8[i], Grown,
         v8[i].b \in Names /\ (M!Owns(i) \/ v8[i].op \in {"recover", "restore"}) =>
           /\ DirectoryStays(v8[i].b)
           /\ M!Owns(i) => /\ v5'[v8[i].b].manifest = v5[v8[i].b].manifest
                           /\ v5'[v8[i].b].target = v5[v8[i].b].target
  PROVE  M!InOrder(i)'
<1> DEFINE w == v8[i]
<1>1. M!Placed(i) /\ M!Placed(i)' /\ (M!Owns(i)' <=> M!Owns(i))
  BY DEF M!InOrder, M!Placed, M!In, M!Owns
<1>2. M!Owns(i) \/ w.op \in {"recover", "restore"} =>
        w.b \in Names /\ v5[w.b].folder = w.at /\ v5'[w.b].folder = w.at
  BY DEF M!InOrder, DirectoryStays
<1>3. w.op = "apply" => w.plan \in v6'
  BY DEF M!InOrder, Grown
<1>4. M!In(i, "marker") => w.target \in v3'[w.at]
  <2>1. M!In(i, "marker") => w.at \in Items /\ w.target \in v3[w.at]
    BY <1>1 DEF M!InOrder, M!Placed, M!In
  <2> QED
    BY <2>1 DEF Grown
<1>5. IF M!In(i, "copyOut") THEN w.copied \subseteq v2'[w.to] ELSE w.copied = {}
  <2>1. M!In(i, "copyOut") => w.to \in Items /\ w.copied \subseteq v2[w.to]
    BY <1>1 DEF M!InOrder, M!Placed, M!In
  <2> QED
    BY <2>1 DEF Grown, M!InOrder
<1>6. M!In(i, "manifest") \/ M!In(i, "log") => M!Owns(i)
  BY <1>1 DEF M!Placed, M!In, M!Owns
<1>7. w.op = "apply" /\ w.pc \in {"log", "recheck", "rename", "history", "marker"} => M!Owns(i)
  BY DEF M!Owns
<1> QED
  BY <1>1, <1>2, <1>3, <1>4, <1>5, <1>6, <1>7 DEF M!InOrder, M!In, DirectoryStays

LEMMA SoundStays ==
  ASSUME M!Typed, NEW b \in Names, M!Sound(b), v5'[b] = v5[b], Grown
  PROVE  M!Sound(b)'
<1>1. v5[b].folder \in Items \cup {None}
  BY DEF M!Typed, M!TypeOK, M!Directory
<1>2. v5[b].applied = "whole" => v5[b].folder \in Items
  BY <1>1 DEF M!Sound, M!NoDirectory
<1> QED
  BY <1>1, <1>2 DEF M!Sound, M!Verified, Grown

LEMMA ApartStay ==
  ASSUME M!OwnersApart, NEW j \in Calls, \A i \in Calls \ {j} : v8'[i] = v8[i],
         M!Owns(j)' => M!Owns(j) /\ v8'[j].b = v8[j].b
  PROVE  M!OwnersApart'
<1>1. \A i \in Calls : M!Owns(i)' => M!Owns(i) /\ v8'[i].b = v8[i].b
  BY DEF M!Owns
<1> QED
  BY <1>1 DEF M!OwnersApart

LEMMA CrossingStays ==
  ASSUME M!NotCrossing, NEW j \in Calls, \A i \in Calls \ {j} : v8'[i] = v8[i],
         M!Destined(j)' => M!Destined(j) /\ v8'[j].at = v8[j].at /\ v8'[j].to = v8[j].to
  PROVE  M!NotCrossing'
<1>1. \A i \in Calls : M!Destined(i)' => M!Destined(i) /\ v8'[i].at = v8[i].at /\ v8'[i].to = v8[i].to
  BY DEF M!Destined, M!In
<1> QED
  BY <1>1 DEF M!NotCrossing

(* The locks, when their holder ends, when it goes on, and when it obtains *)
(* one more.                                                               *)
LEMMA LocksReleased ==
  ASSUME M!MigrationInv, NEW j \in Calls, M!Quit(j)
  PROVE  LocksTyped' /\ M!LocksPlaced'
<1>1. /\ v4' = [f \in Items |-> IF M!Holding(j, f) THEN "free" ELSE v4[f]]
      /\ \A i \in Calls \ {j} : v8'[i] = v8[i]
  BY DEF M!Quit, M!Rest, M!Release, M!MigrationInv, M!Typed
<1>2. v4' \in [Items -> Calls \cup {"free"}]
  BY <1>1 DEF M!MigrationInv, M!Typed
<1>3. ASSUME NEW f \in Items, ~M!Unlocked(f)'
      PROVE  v4'[f] = v4[f] /\ v4[f] \in Calls \ {j} /\ ~M!Unlocked(f)
  BY <1>1, <1>3 DEF M!Unlocked, M!Holding, M!MigrationInv, M!Typed
<1> QED
  BY <1>1, <1>2, <1>3 DEF LocksTyped, M!LocksPlaced, M!MigrationInv, M!Typed, M!TypeOK

LEMMA LocksStay ==
  ASSUME M!MigrationInv, NEW j \in Calls, NEW v \in M!Job, v8' = [v8 EXCEPT ![j] = v],
         v4' = v4,
         \/ v8[j].pc \in {"idle", "lock", "empty", "create", "createHistory"}
         \/ /\ v.pc \notin {"idle", "lock", "empty", "create", "createHistory"}
            /\ v.at = v8[j].at /\ v.to = v8[j].to
            /\ v8[j].pc \in {"emptyAgain", "copyOut"} => v.pc \in {"emptyAgain", "copyOut"}
  PROVE  LocksTyped' /\ M!LocksPlaced'
<1>1. v8'[j] = v /\ \A i \in Calls \ {j} : v8'[i] = v8[i]
  BY DEF M!MigrationInv, M!Typed
<1>2. \A f \in Items : M!Unlocked(f)' <=> M!Unlocked(f)
  BY DEF M!Unlocked
<1>3. \A f \in Items : ~M!Unlocked(f) =>
        /\ v4[f] \in Calls
        /\ v8[v4[f]].pc \notin {"idle", "lock", "empty", "create", "createHistory"}
        /\ \/ f = v8[v4[f]].at
           \/ f = v8[v4[f]].to /\ v8[v4[f]].pc \in {"emptyAgain", "copyOut"}
  BY DEF M!MigrationInv, M!Typed, M!TypeOK, M!LocksPlaced
<1> QED
  BY <1>1, <1>2, <1>3 DEF LocksTyped, M!LocksPlaced, M!MigrationInv, M!Typed

LEMMA LocksObtained ==
  ASSUME M!MigrationInv, NEW j \in Calls, NEW v \in M!Job, v8' = [v8 EXCEPT ![j] = v],
         NEW f \in Items, M!Obtain(j, f), M!In(j, "lock") \/ M!In(j, "lockTarget"),
         v.pc \notin {"idle", "lock", "empty", "create", "createHistory"},
         v.at = v8[j].at, v.to = v8[j].to,
         f = v.at \/ (f = v.to /\ v.pc = "emptyAgain")
  PROVE  LocksTyped' /\ M!LocksPlaced'
<1>1. v8'[j] = v /\ \A i \in Calls \ {j} : v8'[i] = v8[i]
  BY DEF M!MigrationInv, M!Typed
<1>2. v4' = [v4 EXCEPT ![f] = j]
  BY DEF M!Obtain
<1>3. v4'[f] = j /\ \A g \in Items \ {f} : v4'[g] = v4[g]
  BY <1>2 DEF M!MigrationInv, M!Typed
<1>4. \A g \in Items : ~M!Unlocked(g) =>
        /\ v4[g] \in Calls
        /\ v8[v4[g]].pc \notin {"idle", "lock", "empty", "create", "createHistory"}
        /\ \/ g = v8[v4[g]].at
           \/ g = v8[v4[g]].to /\ v8[v4[g]].pc \in {"emptyAgain", "copyOut"}
  BY DEF M!MigrationInv, M!Typed, M!TypeOK, M!LocksPlaced
<1>5. ASSUME NEW g \in Items \ {f}, ~M!Unlocked(g)'
      PROVE  /\ v4'[g] \in Calls
             /\ v8'[v4'[g]].pc \notin {"idle", "lock", "empty", "create", "createHistory"}
             /\ \/ g = v8'[v4'[g]].at
                \/ g = v8'[v4'[g]].to /\ v8'[v4'[g]].pc \in {"emptyAgain", "copyOut"}
  <2>1. v4'[g] = v4[g] /\ ~M!Unlocked(g)
    BY <1>3, <1>5 DEF M!Unlocked
  <2>2. CASE v4[g] = j
    BY <1>1, <1>4, <2>1, <2>2 DEF M!In
  <2>3. CASE v4[g] # j
    BY <1>1, <1>4, <2>1, <2>3
  <2> QED
    BY <2>2, <2>3
<1>6. v4' \in [Items -> Calls \cup {"free"}]
  BY <1>2 DEF M!MigrationInv, M!Typed
<1> QED
  BY <1>1, <1>3, <1>5, <1>6 DEF LocksTyped, M!LocksPlaced

(* Where a revision is: what a step may change of that.                    *)
LEMMA ReservedStays ==
  ASSUME M!Typed, M!Typed', M!Reserved, NEW S, NEW p, v7 <= v7',
         \A r \in M!Revisions : M!Nowhere(r) /\ r \notin S => M!Nowhere(r)',
         \A r \in S : r <= v7',
         \A i \in Calls : v8'[i].target <= v7',
         \A i \in Calls : M!Reserves(i)' =>
           /\ v8'[i].target \in M!Revisions \ S
           /\ \/ M!Reserves(i) /\ v8'[i].target = v8[i].target
              \/ i = p /\ v8'[i].target > v7
  PROVE  M!Reserved'
<1>1. v7 \in Int /\ v7' \in Int
  BY RevisionsAre DEF M!Typed, M!TypeOK
<1>2. \A i \in Calls : v8[i].target \in Int /\ v8'[i].target \in Int
  BY RevisionsAre DEF M!Typed, M!Job
<1>3. ASSUME NEW r \in M!Revisions, r > v7' PROVE M!Nowhere(r)'
  <2>1. r \in Int
    BY RevisionsAre
  <2>2. r > v7
    BY <1>1, <1>3, <2>1
  <2>3. r \notin S
    BY <1>1, <1>3, <2>1
  <2> QED
    BY <2>2, <2>3 DEF M!Reserved
<1>4. ASSUME NEW i \in Calls, M!Reserves(i)' PROVE M!Nowhere(v8[i].target)'
  <2>1. v8'[i].target \in M!Revisions \ S
    BY <1>4
  <2>2. M!Nowhere(v8'[i].target)
    BY <1>4, <2>1 DEF M!Reserved
  <2>3. \A t : t = v8'[i].target => M!Nowhere(t)'
    BY <2>1, <2>2
  <2> QED
    BY <2>3 DEF M!Nowhere, M!Shows
<1>5. ASSUME NEW i \in Calls, NEW j \in Calls, i # j, M!Reserves(i)', M!Reserves(j)',
             v8'[i].target = v8'[j].target
      PROVE  FALSE
  <2>1. v8[i].target <= v7 /\ v8[j].target <= v7
    BY DEF M!Reserved
  <2>2. CASE M!Reserves(i) /\ M!Reserves(j) /\ v8'[i].target = v8[i].target
             /\ v8'[j].target = v8[j].target
    BY <1>5, <2>2 DEF M!Reserved
  <2>3. CASE i = p /\ v8'[i].target > v7
    BY <1>1, <1>2, <1>5, <2>1, <2>3
  <2>4. CASE j = p /\ v8'[j].target > v7
    BY <1>1, <1>2, <1>5, <2>1, <2>4
  <2> QED
    BY <1>5, <2>2, <2>3, <2>4
<1> QED
  BY <1>3, <1>4, <1>5 DEF M!Reserved

LEMMA SpreadStays ==
  ASSUME M!Typed, M!Spread, NEW S, \A r \in S : M!Nowhere(r), NEW f \in Items,
         \A g \in Items : v2[g] \subseteq v2'[g],
         \A b \in Names : DirectoryStays(b),
         \A g \in Items, r \in M!Revisions : M!Shows(g, r)' => M!Shows(g, r) \/ (g = f /\ r \in S)
  PROVE  M!Spread'
<1> SUFFICES ASSUME NEW g \in Items, NEW r \in M!Revisions, M!Shows(g, r)', M!Elsewhere(g, r)'
             PROVE  M!Backed(g, r)'
  BY DEF M!Spread
<1>1. CASE r \in S
  <2>1. \A h \in Items : M!Shows(h, r)' => h = f
    BY <1>1 DEF M!Nowhere
  <2>2. \A b \in Names : v5'[b].source # r
    BY <1>1 DEF M!Nowhere, DirectoryStays
  <2> QED
    BY <2>1, <2>2 DEF M!Elsewhere
<1>2. CASE r \notin S
  <2>1. \A h \in Items : M!Shows(h, r)' => M!Shows(h, r)
    BY <1>2
  <2>2. M!Elsewhere(g, r)
    BY <2>1 DEF M!Elsewhere, DirectoryStays
  <2>3. M!Backed(g, r)
    BY <2>1, <2>2 DEF M!Spread
  <2> QED
    BY <2>3 DEF M!Backed, DirectoryStays, M!Verified
<1> QED
  BY <1>1, <1>2

LEMMA ShownBefore ==
  ASSUME M!Typed, NEW j \in Calls, NEW v \in M!Job, v8' = [v8 EXCEPT ![j] = v],
         v.op = "apply" => M!Shows(v.at, v.plan), NEW f, NEW r, M!Shows(f, r)'
  PROVE  v1'[f] = r \/ M!Shows(f, r)
<1>1. v8'[j] = v /\ \A i \in Calls \ {j} : v8'[i] = v8[i]
  BY DEF M!Typed
<1>2. CASE v1'[f] = r
  BY <1>2
<1>3. CASE \E i \in Calls : v8'[i].op = "apply" /\ v8'[i].at = f /\ v8'[i].plan = r
  BY <1>1, <1>3 DEF M!Shows
<1> QED
  BY <1>2, <1>3 DEF M!Shows

(* A step of a call that changes no source: what is left to show of it.    *)
LEMMA StepKeepsMigration ==
  ASSUME M!MigrationInv, NEW j \in Calls, NEW v \in M!Job, v8' = [v8 EXCEPT ![j] = v],
         UNCHANGED v1, Grown, v7 <= v7', M!Typed', M!LocksPlaced', M!NotCrossing',
         M!InOrder(j)', \A b \in Names : DirectoryStays(b) /\ M!Sound(b)',
         \A i \in Calls \ {j} : M!Owns(i) =>
           /\ v5'[v8[i].b].manifest = v5[v8[i].b].manifest
           /\ v5'[v8[i].b].target = v5[v8[i].b].target,
         M!Owns(j)' => M!Owns(j) /\ v.b = v8[j].b,
         v.op = "apply" => M!Shows(v.at, v.plan),
         v.target <= v7',
         M!Reserves(j)' => \/ M!Reserves(j) /\ v.target = v8[j].target
                           \/ v.target \in M!Revisions /\ v.target > v7
  PROVE  M!MigrationInv'
<1>1. v8'[j] = v /\ \A i \in Calls \ {j} : v8'[i] = v8[i]
  BY DEF M!MigrationInv, M!Typed
<1>2. ASSUME NEW i \in Calls PROVE M!InOrder(i)'
  <2>1. CASE i = j
    BY <2>1
  <2>2. CASE i # j
    BY <1>1, <2>2, OthersInOrder DEF M!MigrationInv
  <2> QED
    BY <2>1, <2>2
<1>3. M!OwnersApart'
  BY <1>1, ApartStay DEF M!MigrationInv
<1>4. \A f \in Items, r \in M!Revisions : M!Shows(f, r)' => M!Shows(f, r)
  BY ShownBefore DEF M!MigrationInv, M!Shows
<1>5. \A b \in Names : v5'[b].source = v5[b].source
  BY DEF DirectoryStays
<1>6. M!Reserved'
  <2>1. \A r \in M!Revisions : M!Nowhere(r) => M!Nowhere(r)'
    BY <1>4, <1>5 DEF M!Nowhere
  <2>2. v7 \in Int /\ v7' \in Int /\ \A i \in Calls : v8[i].target \in Int
    <3>1. v7 \in M!Revisions /\ v7' \in M!Revisions
      BY DEF M!MigrationInv, M!Typed, M!TypeOK
    <3>2. \A i \in Calls : v8[i].target \in M!Revisions \cup {M!Missing}
      BY DEF M!MigrationInv, M!Typed, M!Job
    <3> QED
      BY <3>1, <3>2, RevisionsAre
  <2>3. \A i \in Calls : v8'[i].target <= v7'
    BY <1>1, <2>2 DEF M!MigrationInv, M!Reserved
  <2>4. ASSUME NEW i \in Calls, M!Reserves(i)'
        PROVE  /\ v8'[i].target \in M!Revisions
               /\ \/ M!Reserves(i) /\ v8'[i].target = v8[i].target
                  \/ i = j /\ v8'[i].target > v7
    <3>1. M!Reserves(i) => v8[i].target \in M!Revisions
      BY DEF M!MigrationInv, M!InOrder, M!Reserves, M!Typed, M!Job
    <3>2. CASE i = j
      BY <1>1, <2>4, <3>1, <3>2
    <3>3. CASE i # j
      BY <1>1, <2>4, <3>1, <3>3 DEF M!Reserves
    <3> QED
      BY <3>2, <3>3
  <2>5. \A S : S = {} => M!Reserved'
    BY <2>1, <2>3, <2>4, ReservedStays DEF M!MigrationInv
  <2> QED
    BY <2>5
<1>7. M!Spread'
  <2>1. CASE Items = {}
    BY <2>1 DEF M!Spread
  <2>2. ASSUME NEW f \in Items PROVE M!Spread'
    <3>1. \A S : S = {} => M!Spread'
      BY <1>4, SpreadStays DEF M!MigrationInv, Grown
    <3> QED
      BY <3>1
  <2> QED
    BY <2>1, <2>2
<1> QED
  BY <1>2, <1>3, <1>6, <1>7 DEF M!MigrationInv

LEMMA NumbersAre ==
  ASSUME M!Typed
  PROVE  v7 \in Int /\ v7 <= v7
         /\ \A j \in Calls : v8[j].target \in M!Revisions \cup {M!Missing} /\ v8[j].target \in Int
<1>1. v7 \in M!Revisions
  BY DEF M!Typed, M!TypeOK
<1>2. \A j \in Calls : v8[j].target \in M!Revisions \cup {M!Missing}
  BY DEF M!Typed, M!Job
<1>3. v7 \in Int /\ \A j \in Calls : v8[j].target \in Int
  BY <1>1, <1>2, RevisionsAre
<1>4. v7 <= v7
  BY <1>3
<1> QED
  BY <1>2, <1>3, <1>4

(* The files stay as they are.                                             *)
LEMMA FilesStay ==
  ASSUME M!MigrationInv, UNCHANGED <<v2, v3, v5, v6>>
  PROVE  Grown /\ \A b \in Names : DirectoryStays(b) /\ M!Sound(b)'
<1>1. Grown
  BY DEF Grown
<1> QED
  BY <1>1, SoundStays DEF DirectoryStays, M!MigrationInv

LEMMA MoveKeepsMigration ==
  ASSUME M!MigrationInv, NEW j \in Calls, NEW v \in M!Job, v8' = [v8 EXCEPT ![j] = v],
         UNCHANGED <<v1, v2, v3, v5, v6, v10>>,
         LocksTyped', M!LocksPlaced', v7' \in M!Revisions, v7 <= v7',
         v9' \in 0 .. MaxStarts, M!NotCrossing', M!InOrder(j)',
         M!Owns(j)' => M!Owns(j) /\ v.b = v8[j].b,
         v.op = "apply" => M!Shows(v.at, v.plan),
         v.target <= v7',
         M!Reserves(j)' => \/ M!Reserves(j) /\ v.target = v8[j].target
                           \/ v.target \in M!Revisions /\ v.target > v7
  PROVE  M!MigrationInv'
<1>1. M!Typed'
  <2>1. v8' \in [Calls -> M!Job]
    BY DEF M!MigrationInv, M!Typed
  <2> QED
    BY <2>1 DEF LocksTyped, M!MigrationInv, M!Typed, M!TypeOK
<1> QED
  BY <1>1, FilesStay, StepKeepsMigration

LEMMA GoesOn ==
  ASSUME M!MigrationInv, NEW j \in Calls, NEW v \in M!Job, v8' = [v8 EXCEPT ![j] = v],
         UNCHANGED <<v1, v2, v3, v5, v6, v7, M!counts>>,
         LocksTyped', M!LocksPlaced', M!InOrder(j)',
         v.op = v8[j].op, v.at = v8[j].at, v.b = v8[j].b,
         v.op = "apply" => v.plan = v8[j].plan,
         M!NotCrossing', M!Owns(j)' => M!Owns(j),
         v.target = v8[j].target \/ (v.target <= v7 /\ ~M!Reserves(j)'),
         M!Reserves(j)' => M!Reserves(j)
  PROVE  M!MigrationInv'
<1>1. v7' = v7 /\ v7 \in M!Revisions /\ v7 <= v7' /\ v9' \in 0 .. MaxStarts
  BY NumbersAre DEF M!MigrationInv, M!Typed, M!TypeOK, M!counts
<1>2. v.op = "apply" => M!Shows(v.at, v.plan)
  BY DEF M!Shows
<1>3. v.target <= v7'
  BY <1>1 DEF M!MigrationInv, M!Reserved
<1> QED
  BY <1>1, <1>2, <1>3, MoveKeepsMigration DEF M!counts

(* A call that ends, and changes nothing else.                             *)
LEMMA StopKeepsMigration == ASSUME M!MigrationInv, NEW j \in Calls, M!Stop(j) PROVE M!MigrationInv'
<1>1. v8' = [v8 EXCEPT ![j] = M!Resting] /\ v8'[j] = M!Resting
      /\ \A i \in Calls \ {j} : v8'[i] = v8[i]
  BY DEF M!Stop, M!Quit, M!Rest, M!MigrationInv, M!Typed
<1>2. LocksTyped' /\ M!LocksPlaced'
  BY LocksReleased DEF M!Stop
<1>3. /\ UNCHANGED <<v1, v2, v3, v5, v6, v7, M!counts>>
      /\ v7' \in M!Revisions /\ v7 <= v7' /\ v9' \in 0 .. MaxStarts
      /\ M!Resting.target <= v7'
  <2>1. v7 \in M!Revisions /\ M!Missing <= v7 /\ v7 <= v7
    BY RevisionsAre DEF M!MigrationInv, M!Typed, M!TypeOK
  <2> QED
    BY <2>1, RestingIs DEF M!Stop, M!MigrationInv, M!Typed, M!TypeOK, M!counts
<1>4. M!InOrder(j)' /\ ~M!Owns(j)' /\ ~M!Reserves(j)' /\ ~M!Destined(j)'
  BY <1>1, RestedInOrder
<1>5. M!NotCrossing'
  BY <1>1, <1>4, CrossingStays DEF M!MigrationInv
<1> QED
  BY <1>1, <1>2, <1>3, <1>4, <1>5, RestingIs, MoveKeepsMigration DEF M!counts

LEMMA StopsKeepMigration ==
  ASSUME M!MigrationInv, NEW j \in Calls,
         \/ M!CheckStale(j) \/ M!ManifestStale(j) \/ M!RecheckStale(j) \/ M!InspectOnly(j)
         \/ M!NotEmpty(j) \/ M!FilledMeanwhile(j) \/ M!CreateLate(j) \/ M!GiveUp(j)
  PROVE  M!MigrationInv'
BY StopKeepsMigration DEF M!CheckStale, M!ManifestStale, M!RecheckStale, M!InspectOnly, M!NotEmpty, M!FilledMeanwhile,
                          M!CreateLate, M!GiveUp

(* A call that starts.                                                     *)
LEMMA BeginKeepsMigration ==
  ASSUME M!MigrationInv, NEW j \in Calls, NEW v \in M!Job, M!BeginJob(j, v),
         v7' \in M!Revisions, v7 <= v7', M!InOrder(j)',
         \/ v.pc = "lock" /\ v.op \in {"backup", "apply", "recover"}
         \/ v.pc = "empty" /\ v.op \in {"restore", "create"},
         v.op = "apply" => M!Shows(v.at, v.plan), v.target <= v7',
         M!Reserves(j)' => v.target \in M!Revisions /\ v.target > v7
  PROVE  M!MigrationInv'
<1>1. /\ v8' = [v8 EXCEPT ![j] = v] /\ M!In(j, "idle")
      /\ UNCHANGED <<v1, v2, v3, v4, v5, v6, v10>>
      /\ v9 < MaxStarts /\ v9' = v9 + 1
  BY DEF M!BeginJob
<1>2. v8'[j] = v /\ \A i \in Calls \ {j} : v8'[i] = v8[i]
  BY <1>1 DEF M!MigrationInv, M!Typed
<1>3. LocksTyped' /\ M!LocksPlaced'
  BY <1>1, LocksStay DEF M!In
<1>4. ~M!Owns(j)' /\ ~M!Destined(j)'
  BY <1>2 DEF M!Owns, M!Destined, M!In
<1>5. M!NotCrossing'
  BY <1>2, <1>4, CrossingStays DEF M!MigrationInv
<1>6. v9' \in 0 .. MaxStarts
  BY <1>1, MigrationConstants DEF M!BoundsAssumption, M!MigrationInv, M!Typed, M!TypeOK
<1> QED
  BY <1>1, <1>3, <1>4, <1>5, <1>6, MoveKeepsMigration

LEMMA DrawnIs ==
  ASSUME M!Typed, v7 < MigrationRevisions, v7' = v7 + 1
  PROVE  v7' \in M!Revisions /\ v7 <= v7' /\ v7' > v7 /\ v7' <= v7'
         /\ v7' # M!Missing
BY MigrationConstants DEF M!BoundsAssumption, M!Typed, M!TypeOK, M!Revisions, M!Missing

LEMMA StartsKeepMigration ==
  ASSUME M!MigrationInv, NEW j \in Calls,
         \/ \E f \in Items : M!StartBackup(j, f) \/ M!StartApply(j, f) \/ M!StartCreate(j, f)
         \/ \E b \in Names : M!StartRecover(j, b) \/ \E g \in Items : M!StartRestore(j, b, g)
  PROVE  M!MigrationInv'
<1>1. /\ M!Typed /\ v8 \in [Calls -> M!Job] /\ v7 \in M!Revisions /\ v7 <= v7 /\ M!Missing <= v7
      /\ v1 \in [Items -> M!Revisions \cup {M!Missing}] /\ v5 \in [Names -> M!Directory]
  BY RevisionsAre, NumbersAre DEF M!MigrationInv, M!Typed, M!TypeOK
<1> USE DEF M!Job, M!Resting
<1>2. ASSUME NEW f \in Items, M!StartBackup(j, f) PROVE M!MigrationInv'
  <2> DEFINE v == [M!Resting EXCEPT !.pc = "lock", !.op = "backup", !.at = f]
  <2>1. M!BeginJob(j, v) /\ v7' = v7
    BY <1>2 DEF M!StartBackup
  <2>2. /\ v \in M!Job /\ v.pc = "lock" /\ v.op = "backup" /\ v.at = f /\ v.target = M!Missing
        /\ v.copied = {}
    OBVIOUS
  <2> HIDE DEF v
  <2>3. v8'[j] = v
    BY <1>1, <2>1 DEF M!BeginJob
  <2>4. M!InOrder(j)' /\ ~M!Reserves(j)'
    BY <2>2, <2>3 DEF M!InOrder, M!Placed, M!Owns, M!In, M!Reserves
  <2> QED
    BY <1>1, <2>1, <2>2, <2>4, BeginKeepsMigration
<1>3. ASSUME NEW f \in Items, M!StartApply(j, f) PROVE M!MigrationInv'
  <2> DEFINE v == [M!Resting EXCEPT !.pc = "lock", !.op = "apply", !.at = f,
                                    !.plan = v1[f], !.target = v7']
  <2>1. M!BeginJob(j, v) /\ v7 < MigrationRevisions /\ v7' = v7 + 1 /\ v1[f] \in v6
    BY <1>3 DEF M!StartApply
  <2>2. /\ v7' \in M!Revisions /\ v7 <= v7' /\ v7' > v7 /\ v7' <= v7'
        /\ v7' # M!Missing
    BY <1>1, <2>1, DrawnIs
  <2>3. /\ v \in M!Job /\ v.pc = "lock" /\ v.op = "apply" /\ v.at = f /\ v.target = v7'
        /\ v.plan = v1[f] /\ v.copied = {}
    BY <1>1, <2>2
  <2> HIDE DEF v
  <2>4. v8'[j] = v /\ v6' = v6
    BY <1>1, <2>1 DEF M!BeginJob
  <2>5. M!InOrder(j)' /\ M!Shows(f, v1[f])
    BY <2>1, <2>2, <2>3, <2>4 DEF M!InOrder, M!Placed, M!Owns, M!In, M!Shows
  <2> QED
    BY <1>1, <2>1, <2>2, <2>3, <2>5, BeginKeepsMigration
<1>4. ASSUME NEW g \in Items, M!StartCreate(j, g) PROVE M!MigrationInv'
  <2> DEFINE v == [M!Resting EXCEPT !.pc = "empty", !.op = "create", !.at = g, !.to = g,
                                    !.target = v7']
  <2>1. M!BeginJob(j, v) /\ v7 < MigrationRevisions /\ v7' = v7 + 1
    BY <1>4 DEF M!StartCreate
  <2>2. /\ v7' \in M!Revisions /\ v7 <= v7' /\ v7' > v7 /\ v7' <= v7'
        /\ v7' # M!Missing
    BY <1>1, <2>1, DrawnIs
  <2>3. /\ v \in M!Job /\ v.pc = "empty" /\ v.op = "create" /\ v.at = g /\ v.to = g /\ v.target = v7'
        /\ v.copied = {}
    BY <2>2
  <2> HIDE DEF v
  <2>4. v8'[j] = v
    BY <1>1, <2>1 DEF M!BeginJob
  <2>5. M!InOrder(j)'
    BY <2>2, <2>3, <2>4 DEF M!InOrder, M!Placed, M!Owns, M!In
  <2> QED
    BY <1>1, <2>1, <2>2, <2>3, <2>5, BeginKeepsMigration
<1>5. ASSUME NEW b \in Names, M!StartRecover(j, b) PROVE M!MigrationInv'
  <2> DEFINE v == [M!Resting EXCEPT !.pc = "lock", !.op = "recover", !.at = v5[b].folder, !.b = b]
  <2>1. M!BeginJob(j, v) /\ v7' = v7 /\ v5[b].folder # None
    BY <1>5 DEF M!StartRecover
  <2>2. v5[b].folder \in Items
    BY <1>1, <2>1 DEF M!Directory
  <2>3. /\ v \in M!Job /\ v.pc = "lock" /\ v.op = "recover" /\ v.at = v5[b].folder
        /\ v.target = M!Missing /\ v.b = b /\ v.copied = {}
    BY <2>2
  <2> HIDE DEF v
  <2>4. v8'[j] = v /\ v5' = v5
    BY <1>1, <2>1 DEF M!BeginJob
  <2>5. M!InOrder(j)' /\ ~M!Reserves(j)'
    BY <2>2, <2>3, <2>4 DEF M!InOrder, M!Placed, M!Owns, M!In, M!Reserves
  <2> QED
    BY <1>1, <2>1, <2>3, <2>5, BeginKeepsMigration
<1>6. ASSUME NEW b \in Names, NEW g \in Items, M!StartRestore(j, b, g) PROVE M!MigrationInv'
  <2> DEFINE v == [M!Resting EXCEPT !.pc = "empty", !.op = "restore", !.at = v5[b].folder,
                                    !.to = g, !.b = b]
  <2>1. M!BeginJob(j, v) /\ v7' = v7 /\ M!Verified(b) /\ g # v5[b].folder
    BY <1>6 DEF M!StartRestore
  <2>2. v5[b].folder \in Items
    <3>1. v5[b].folder # None
      BY <2>1 DEF M!MigrationInv, M!Sound, M!Verified, M!NoDirectory
    <3> QED
      BY <1>1, <3>1 DEF M!Directory
  <2>3. /\ v \in M!Job /\ v.pc = "empty" /\ v.op = "restore" /\ v.at = v5[b].folder
        /\ v.target = M!Missing /\ v.b = b /\ v.to = g /\ v.copied = {}
    BY <2>2
  <2> HIDE DEF v
  <2>4. v8'[j] = v /\ v5' = v5
    BY <1>1, <2>1 DEF M!BeginJob
  <2>5. M!InOrder(j)' /\ ~M!Reserves(j)'
    BY <2>1, <2>2, <2>3, <2>4 DEF M!InOrder, M!Placed, M!Owns, M!In, M!Reserves, M!Verified
  <2> QED
    BY <1>1, <2>1, <2>3, <2>5, BeginKeepsMigration
<1> QED
  BY <1>2, <1>3, <1>4, <1>5, <1>6

(* A call that goes to another stage.                                      *)
Same(v, w) == /\ v.op = w.op /\ v.at = w.at /\ v.to = w.to /\ v.b = w.b
              /\ v.target = w.target /\ v.copied = w.copied

Moves(j, v, pc) == /\ v \in M!Job /\ v8' = [v8 EXCEPT ![j] = v] /\ v8'[j] = v
                   /\ \A i \in Calls \ {j} : v8'[i] = v8[i]
                   /\ v.pc = pc /\ Same(v, v8[j])

Still == UNCHANGED <<v1, v2, v3, v5, v6, v7, M!counts>>

LEMMA ToMoves ==
  ASSUME M!Typed, NEW j \in Calls, NEW pc, M!To(j, pc),
         pc \in {"check", "collect", "log", "recheck", "rename", "history", "marker", "lock",
                 "emptyAgain", "copyOut", "create", "createHistory"}
  PROVE  \E v : Moves(j, v, pc) /\ v.plan = v8[j].plan
<1> DEFINE v == [v8[j] EXCEPT !.pc = pc]
<1>1. v8 \in [Calls -> M!Job]
  BY DEF M!Typed
<1>2. v \in M!Job /\ v.pc = pc /\ Same(v, v8[j]) /\ v.plan = v8[j].plan
  BY <1>1 DEF M!Job, Same
<1>3. v8' = [v8 EXCEPT ![j] = v]
  BY DEF M!To
<1> HIDE DEF v
<1>4. v8'[j] = v /\ \A i \in Calls \ {j} : v8'[i] = v8[i]
  BY <1>1, <1>3
<1> QED
  BY <1>2, <1>3, <1>4 DEF Moves

LEMMA ElsewhereCrosses ==
  ASSUME M!MigrationInv, NEW j \in Calls, NEW v, NEW pc, Moves(j, v, pc),
         v.op # "restore" \/ v8[j].pc # "empty"
  PROVE  M!NotCrossing'
BY CrossingStays DEF Moves, Same, M!MigrationInv, M!Destined, M!In

LEMMA CheckKeepsMigration ==
  ASSUME M!MigrationInv, NEW j \in Calls, M!Check(j) \/ M!Recheck(j) PROVE M!MigrationInv'
<1>0. M!InOrder(j) /\ M!Placed(j) /\ M!Typed
  BY DEF M!MigrationInv, M!InOrder
<1>1. PICK pc \in {"collect", "rename"} :
        M!To(j, pc) /\ Still /\ UNCHANGED v4
        /\ v8[j].pc = IF pc = "collect" THEN "check" ELSE "recheck"
  BY DEF M!Check, M!Recheck, Still, M!In
<1>2. PICK v : Moves(j, v, pc) /\ v.plan = v8[j].plan
  BY <1>0, <1>1, ToMoves
<1>3. v8[j].op = "apply"
  BY <1>0, <1>1 DEF M!Placed, M!In
<1>4. LocksTyped' /\ M!LocksPlaced'
  BY <1>1, <1>2, LocksStay DEF Moves, Same
<1>5. M!InOrder(j)'
  BY <1>0, <1>1, <1>2, <1>3 DEF M!InOrder, M!Placed, Moves, Same, Still, M!Owns, M!In
<1>6. M!NotCrossing'
  BY <1>1, <1>2, <1>3, ElsewhereCrosses DEF Moves, Same
<1>7. (M!Owns(j)' => M!Owns(j)) /\ (M!Reserves(j)' => M!Reserves(j))
  BY <1>1, <1>2, <1>3 DEF M!Owns, M!Reserves, Moves, Same
<1> QED
  BY <1>1, <1>2, <1>4, <1>5, <1>6, <1>7, GoesOn DEF Moves, Same, Still

LEMMA CheckEmptyKeepsMigration ==
  ASSUME M!MigrationInv, NEW j \in Calls, M!CheckEmpty(j) PROVE M!MigrationInv'
<1>0. M!InOrder(j) /\ M!Placed(j) /\ M!Typed /\ v8[j].pc = "empty"
  BY DEF M!MigrationInv, M!InOrder, M!CheckEmpty, M!In
<1>1. PICK pc \in {"create", "lock"} :
        M!To(j, pc) /\ Still /\ UNCHANGED v4 /\ (pc = "create" <=> v8[j].op = "create")
        /\ M!Emptied(v8[j].to)
  BY DEF M!CheckEmpty, M!SeenEmpty, Still
<1>2. PICK v : Moves(j, v, pc) /\ v.plan = v8[j].plan
  BY <1>0, <1>1, ToMoves
<1>3. \/ v8[j].op = "restore" /\ v8[j].to \in Items \ {v8[j].at}
      \/ v8[j].op = "create"
  BY <1>0 DEF M!Placed, M!In
<1>4. LocksTyped' /\ M!LocksPlaced'
  BY <1>0, <1>1, <1>2, LocksStay DEF Moves
<1>5. M!InOrder(j)'
  BY <1>0, <1>1, <1>2, <1>3 DEF M!InOrder, M!Placed, Moves, Same, Still, M!Owns, M!In
<1>6. M!NotCrossing'
  <2>1. CASE v8[j].op = "create"
    BY <1>2, <2>1, ElsewhereCrosses DEF Moves, Same
  <2>2. CASE v8[j].op = "restore"
    <3>1. ASSUME NEW i \in Calls, M!Destined(i)'
          PROVE  v8'[i].at # v8[j].to
      <4>1. CASE i = j
        BY <1>2, <1>3, <2>2, <4>1 DEF Moves, Same
      <4>2. CASE i # j
        <5>1. M!Destined(i) /\ v8'[i].at = v8[i].at
          BY <1>2, <3>1, <4>2 DEF Moves, M!Destined, M!In
        <5>2. v8[i].b \in Names /\ v5[v8[i].b].folder = v8[i].at
          BY <5>1 DEF M!MigrationInv, M!InOrder, M!Destined
        <5> QED
          BY <1>1, <5>1, <5>2 DEF M!Emptied
      <4> QED
        BY <4>1, <4>2
    <3>2. v8'[j].to = v8[j].to
      BY <1>2 DEF Moves, Same
    <3>3. ASSUME NEW i \in Calls, NEW h \in Calls, M!Destined(i)', M!Destined(h)', i # j, h # j,
                 v8'[i].to = v8'[h].at, v8'[h].to = v8'[i].at
          PROVE  FALSE
      BY <1>2, <3>3 DEF Moves, M!Destined, M!In, M!MigrationInv, M!NotCrossing
    <3> QED
      BY <3>1, <3>2, <3>3 DEF M!NotCrossing
  <2> QED
    BY <1>3, <2>1, <2>2
<1>7. ~M!Owns(j)' /\ (M!Reserves(j)' => M!Reserves(j))
  BY <1>0, <1>1, <1>2, <1>3 DEF M!Owns, M!Reserves, Moves, Same
<1> QED
  BY <1>1, <1>2, <1>4, <1>5, <1>6, <1>7, GoesOn DEF Moves, Same, Still

LEMMA LockTargetKeepsMigration ==
  ASSUME M!MigrationInv, NEW j \in Calls, M!LockTarget(j) PROVE M!MigrationInv'
<1>0. M!InOrder(j) /\ M!Placed(j) /\ M!Typed /\ v8[j].pc = "lockTarget"
  BY DEF M!MigrationInv, M!InOrder, M!LockTarget, M!In
<1>1. M!To(j, "emptyAgain") /\ Still /\ M!Obtain(j, v8[j].to)
  BY DEF M!LockTarget, Still
<1>2. PICK v : Moves(j, v, "emptyAgain") /\ v.plan = v8[j].plan
  BY <1>0, <1>1, ToMoves
<1>3. v8[j].op = "restore" /\ v8[j].to \in Items
  BY <1>0 DEF M!Placed, M!In
<1>4. LocksTyped' /\ M!LocksPlaced'
  BY <1>0, <1>1, <1>2, <1>3, LocksObtained DEF Moves, Same, M!In
<1>5. M!InOrder(j)'
  BY <1>0, <1>1, <1>2, <1>3 DEF M!InOrder, M!Placed, Moves, Same, Still, M!Owns, M!In
<1>6. M!NotCrossing'
  BY <1>0, <1>2, ElsewhereCrosses
<1>7. ~M!Owns(j)' /\ ~M!Reserves(j)'
  BY <1>2, <1>3 DEF M!Owns, M!Reserves, Moves, Same
<1> QED
  BY <1>1, <1>2, <1>3, <1>4, <1>5, <1>6, <1>7, GoesOn DEF Moves, Same, Still

LEMMA CheckEmptyAgainKeepsMigration ==
  ASSUME M!MigrationInv, NEW j \in Calls, M!CheckEmptyAgain(j) PROVE M!MigrationInv'
<1>0. M!InOrder(j) /\ M!Placed(j) /\ M!Typed /\ v8[j].pc = "emptyAgain"
  BY DEF M!MigrationInv, M!InOrder, M!CheckEmptyAgain, M!In
<1>1. M!To(j, "copyOut") /\ Still /\ UNCHANGED v4
  BY DEF M!CheckEmptyAgain, Still
<1>2. PICK v : Moves(j, v, "copyOut") /\ v.plan = v8[j].plan
  BY <1>0, <1>1, ToMoves
<1>3. v8[j].op = "restore" /\ v8[j].to \in Items /\ v8[j].copied = {}
  BY <1>0 DEF M!Placed, M!InOrder, M!In
<1>4. LocksTyped' /\ M!LocksPlaced'
  BY <1>0, <1>1, <1>2, LocksStay DEF Moves, Same
<1>5. M!InOrder(j)'
  BY <1>0, <1>1, <1>2, <1>3 DEF M!InOrder, M!Placed, Moves, Same, Still, M!Owns, M!In
<1>6. M!NotCrossing'
  BY <1>0, <1>2, ElsewhereCrosses
<1>7. ~M!Owns(j)' /\ ~M!Reserves(j)'
  BY <1>2, <1>3 DEF M!Owns, M!Reserves, Moves, Same
<1> QED
  BY <1>1, <1>2, <1>3, <1>4, <1>5, <1>6, <1>7, GoesOn DEF Moves, Same, Still

LEMMA LockKeepsMigration ==
  ASSUME M!MigrationInv, NEW j \in Calls, M!Lock(j) PROVE M!MigrationInv'
<1>0. M!InOrder(j) /\ M!Placed(j) /\ M!Typed /\ v8[j].pc = "lock" /\ v8 \in [Calls -> M!Job]
  BY DEF M!MigrationInv, M!InOrder, M!Lock, M!In, M!Typed
<1>1. /\ v8[j].op \in {"backup", "apply", "recover", "restore"} /\ v8[j].at \in Items
      /\ v8[j].op = "restore" => v8[j].to \in Items \ {v8[j].at}
  BY <1>0 DEF M!Placed, M!In
<1> DEFINE pc == CASE v8[j].op = "recover" -> "inspect"
                   [] v8[j].op = "restore" -> "lockTarget"
                   [] v8[j].op = "apply" -> "check"
                   [] OTHER -> "collect"
           plan == IF v8[j].op = "backup" THEN v1[v8[j].at] ELSE v8[j].plan
           v == [v8[j] EXCEPT !.pc = pc, !.plan = plan]
<1>2. /\ pc \in {"inspect", "lockTarget", "check", "collect"}
      /\ v8[j].op = "recover" <=> pc = "inspect"
      /\ v8[j].op = "restore" <=> pc = "lockTarget"
      /\ v8[j].op = "apply" <=> pc = "check"
  BY <1>1
<1>3. /\ plan \in M!Revisions \cup {M!Missing} /\ (v8[j].op = "apply" => plan = v8[j].plan)
  BY <1>0, <1>1 DEF M!Typed, M!TypeOK, M!Job
<1>4. v8' = [v8 EXCEPT ![j] = v] /\ M!Obtain(j, v8[j].at) /\ Still
  BY DEF M!Lock, Still
<1> HIDE DEF pc, plan
<1>5. v \in M!Job /\ v.pc = pc /\ Same(v, v8[j]) /\ v.plan = plan
  BY <1>0, <1>2, <1>3 DEF M!Job, Same
<1> HIDE DEF v
<1>6. Moves(j, v, pc)
  BY <1>0, <1>4, <1>5 DEF Moves
<1>7. LocksTyped' /\ M!LocksPlaced'
  BY <1>0, <1>1, <1>2, <1>4, <1>5, LocksObtained DEF Same, M!In
<1>8. M!InOrder(j)'
  BY <1>0, <1>1, <1>2, <1>3, <1>4, <1>5, <1>6 DEF M!InOrder, M!Placed, Moves, Same, Still, M!Owns, M!In
<1>9. M!NotCrossing'
  BY <1>0, <1>6, ElsewhereCrosses
<1>10. ~M!Owns(j)' /\ (M!Reserves(j)' => M!Reserves(j))
  BY <1>0, <1>2, <1>6 DEF M!Owns, M!Reserves, Moves, Same
<1> QED
  BY <1>3, <1>4, <1>5, <1>6, <1>7, <1>8, <1>9, <1>10, GoesOn DEF Moves, Same, Still

LEMMA InspectKeepsMigration ==
  ASSUME M!MigrationInv, NEW j \in Calls, M!Inspect(j) PROVE M!MigrationInv'
<1> DEFINE b == v8[j].b
           v == [v8[j] EXCEPT !.pc = "history", !.target = v5[b].target]
<1>0. /\ M!InOrder(j) /\ M!Placed(j) /\ M!Typed /\ v8[j].pc = "inspect" /\ v8 \in [Calls -> M!Job]
      /\ M!Finishable(b) /\ Still /\ UNCHANGED v4 /\ v8' = [v8 EXCEPT ![j] = v]
  BY DEF M!MigrationInv, M!InOrder, M!Inspect, M!In, M!Typed, Still
<1>1. v8[j].op = "recover" /\ v8[j].at \in Items
  BY <1>0 DEF M!Placed, M!In
<1>2. b \in Names /\ v5[b].folder = v8[j].at /\ v8[j].copied = {}
  BY <1>0, <1>1 DEF M!InOrder, M!In
<1>3. v5[b].target \in M!Revisions
  <2>1. v5[b].target # M!Missing
    BY <1>0, <1>2 DEF M!Finishable, M!MigrationInv, M!Sound
  <2> QED
    BY <1>0, <1>2, <2>1 DEF M!Typed, M!TypeOK, M!Directory
<1>4. v5[b].target <= v7
  <2>1. M!Shows(v8[j].at, v5[b].target)
    BY <1>0, <1>2 DEF M!Finishable, M!Shows
  <2>2. ~(v5[b].target > v7)
    BY <1>1, <1>3, <2>1 DEF M!MigrationInv, M!Reserved, M!Nowhere
  <2>3. v5[b].target \in Int /\ v7 \in Int
    BY <1>0, <1>3, NumbersAre, RevisionsAre
  <2> QED
    BY <2>2, <2>3
<1>5. /\ v \in M!Job /\ v.pc = "history" /\ v.op = "recover" /\ v.at = v8[j].at /\ v.to = v8[j].to
      /\ v.b = b /\ v.plan = v8[j].plan /\ v.target = v5[b].target /\ v.copied = {}
  BY <1>0, <1>1, <1>2, <1>3 DEF M!Job
<1> HIDE DEF v, b
<1>6. v8'[j] = v /\ \A i \in Calls \ {j} : v8'[i] = v8[i]
  BY <1>0
<1>7. LocksTyped' /\ M!LocksPlaced'
  BY <1>0, <1>5, LocksStay
<1>8. v5[b].target # M!Missing
  BY <1>3, RevisionsAre
<1>9. M!InOrder(j)' /\ ~M!Owns(j)' /\ ~M!Reserves(j)' /\ ~M!Destined(j)'
  BY <1>0, <1>1, <1>2, <1>5, <1>6, <1>8 DEF M!InOrder, M!Placed, Still, M!Owns, M!In, M!Reserves, M!Destined
<1>10. M!NotCrossing'
  BY <1>6, <1>9, CrossingStays DEF M!MigrationInv
<1>11. v.b = v8[j].b /\ v.op = v8[j].op
  BY <1>1, <1>5 DEF b
<1> QED
  BY <1>0, <1>4, <1>5, <1>7, <1>9, <1>10, <1>11, GoesOn DEF Still

(* A call that writes into its backup directory, or next to the source.    *)
LEMMA JobQuits ==
  ASSUME M!MigrationInv, NEW j \in Calls, M!Quit(j)
  PROVE  /\ v8' = [v8 EXCEPT ![j] = M!Resting] /\ v8'[j] = M!Resting
         /\ \A i \in Calls \ {j} : v8'[i] = v8[i]
         /\ LocksTyped' /\ M!LocksPlaced' /\ M!NotCrossing'
         /\ M!InOrder(j)' /\ ~M!Owns(j)' /\ ~M!Reserves(j)'
<1>1. v8' = [v8 EXCEPT ![j] = M!Resting] /\ v8'[j] = M!Resting
      /\ \A i \in Calls \ {j} : v8'[i] = v8[i]
  BY DEF M!Quit, M!Rest, M!MigrationInv, M!Typed
<1>2. M!InOrder(j)' /\ ~M!Owns(j)' /\ ~M!Reserves(j)' /\ ~M!Destined(j)'
  BY <1>1, RestedInOrder
<1>3. M!NotCrossing'
  BY <1>1, <1>2, CrossingStays DEF M!MigrationInv
<1> QED
  BY <1>1, <1>2, <1>3, LocksReleased

Keeping(j, v) ==
  /\ v.op = "apply" => v8[j].op = "apply" /\ v.at = v8[j].at /\ v.plan = v8[j].plan
  /\ v.target = v8[j].target \/ v.target = M!Missing
  /\ M!Owns(j)' => M!Owns(j) /\ v.b = v8[j].b
  /\ M!Reserves(j)' => M!Reserves(j) /\ v.target = v8[j].target
  /\ M!InOrder(j)' /\ M!NotCrossing' /\ LocksTyped' /\ M!LocksPlaced'

LEMMA WorldKeepsMigration ==
  ASSUME M!MigrationInv, NEW j \in Calls, NEW v \in M!Job, v8' = [v8 EXCEPT ![j] = v], Keeping(j, v),
         UNCHANGED <<v1, v6, v7, v9>>, v10' \in 0 .. MaxFaults, Grown,
         v2' \in [Items -> SUBSET M!Members], v3' \in [Items -> SUBSET M!Revisions],
         v5' \in [Names -> M!Directory], \A b \in Names : DirectoryStays(b) /\ M!Sound(b)',
         \A i \in Calls \ {j} : M!Owns(i) =>
           /\ v5'[v8[i].b].manifest = v5[v8[i].b].manifest
           /\ v5'[v8[i].b].target = v5[v8[i].b].target
  PROVE  M!MigrationInv'
<1>1. M!Typed'
  <2>1. v8' \in [Calls -> M!Job]
    BY DEF M!MigrationInv, M!Typed
  <2> QED
    BY <2>1 DEF LocksTyped, M!MigrationInv, M!Typed, M!TypeOK, Keeping
<1>2. v7 <= v7' /\ v.target <= v7'
  <2>1. v7 \in M!Revisions /\ v7 <= v7 /\ v8[j].target <= v7
    BY NumbersAre DEF M!MigrationInv, M!Typed, M!TypeOK, M!Reserved
  <2>2. v7 \in Int /\ M!Missing \in Int /\ M!Missing < v7
    BY <2>1, RevisionsAre
  <2>3. M!Missing <= v7
    BY <2>2
  <2> QED
    BY <2>1, <2>3 DEF Keeping
<1>3. v.op = "apply" => M!Shows(v.at, v.plan)
  BY DEF Keeping, M!Shows
<1> QED
  BY <1>1, <1>2, <1>3, StepKeepsMigration DEF Keeping

LEMMA GrownKeepsMigration ==
  ASSUME M!MigrationInv, NEW j \in Calls, NEW v \in M!Job, v8' = [v8 EXCEPT ![j] = v], Keeping(j, v),
         UNCHANGED <<v1, v5, v6, v7, M!counts>>, Grown,
         v2' \in [Items -> SUBSET M!Members], v3' \in [Items -> SUBSET M!Revisions]
  PROVE  M!MigrationInv'
<1>1. \A b \in Names : DirectoryStays(b) /\ M!Sound(b)'
  BY SoundStays DEF DirectoryStays, M!MigrationInv
<1>2. v10' \in 0 .. MaxFaults /\ v5' \in [Names -> M!Directory]
  BY DEF M!MigrationInv, M!Typed, M!TypeOK, M!counts
<1> QED
  BY <1>1, <1>2, WorldKeepsMigration DEF M!counts

LEMMA DirectoryKeepsMigration ==
  ASSUME M!MigrationInv, NEW j \in Calls, NEW v \in M!Job, v8' = [v8 EXCEPT ![j] = v], Keeping(j, v),
         UNCHANGED <<v1, v2, v3, v6, v7, v9>>,
         v10' \in 0 .. MaxFaults,
         NEW b \in Names, NEW d \in M!Directory, v5' = [v5 EXCEPT ![b] = d],
         d.folder = v5[b].folder, d.source = v5[b].source, d.members = v5[b].members,
         v5[b].folder # None,
         v5[b].manifest = "whole" => d.manifest = "whole",
         v5[b].target # M!Missing => d.target = v5[b].target,
         d.log = "whole" => d.target # M!Missing,
         d.target # M!Missing => d.manifest = "whole" /\ d.source \in v6,
         d.applied = "whole" => d.target \in v3[d.folder],
         \/ M!Owns(j) /\ b = v8[j].b
         \/ d.manifest = v5[b].manifest /\ d.target = v5[b].target
  PROVE  M!MigrationInv'
<1>1. v5 \in [Names -> M!Directory]
  BY DEF M!MigrationInv, M!Typed, M!TypeOK
<1>2. /\ v5' \in [Names -> M!Directory] /\ v5'[b] = d
      /\ \A c \in Names \ {b} : v5'[c] = v5[c]
  BY <1>1
<1>3. Grown /\ v2' \in [Items -> SUBSET M!Members] /\ v3' \in [Items -> SUBSET M!Revisions]
  BY DEF Grown, M!MigrationInv, M!Typed, M!TypeOK
<1>4. ASSUME NEW c \in Names PROVE DirectoryStays(c) /\ M!Sound(c)'
  <2>1. CASE c = b
    <3>1. DirectoryStays(b)
      BY <1>2 DEF DirectoryStays
    <3>2. M!Sound(b)'
      BY <1>2 DEF M!Sound, M!Verified, M!MigrationInv
    <3> QED
      BY <2>1, <3>1, <3>2
  <2>2. CASE c # b
    BY <1>2, <1>3, <2>2, SoundStays DEF DirectoryStays, M!MigrationInv
  <2> QED
    BY <2>1, <2>2
<1>5. ASSUME NEW i \in Calls \ {j}, M!Owns(i)
      PROVE  /\ v5'[v8[i].b].manifest = v5[v8[i].b].manifest
             /\ v5'[v8[i].b].target = v5[v8[i].b].target
  <2>1. v8[i].b \in Names
    BY <1>5 DEF M!MigrationInv, M!InOrder
  <2>2. CASE v8[i].b # b
    BY <1>2, <2>1, <2>2
  <2>3. CASE v8[i].b = b
    BY <1>2, <1>5, <2>3 DEF M!MigrationInv, M!OwnersApart
  <2> QED
    BY <2>2, <2>3
<1> QED
  BY <1>2, <1>3, <1>4, <1>5, WorldKeepsMigration

LEMMA QuitsKeeping ==
  ASSUME M!MigrationInv, NEW j \in Calls, M!Quit(j)
  PROVE  Keeping(j, M!Resting) /\ v8' = [v8 EXCEPT ![j] = M!Resting] /\ M!Resting \in M!Job
BY JobQuits, RestingIs DEF Keeping

LEMMA MovesKeeping ==
  ASSUME M!MigrationInv, NEW j \in Calls, NEW v, NEW pc, Moves(j, v, pc), v.plan = v8[j].plan,
         pc \in {"log", "recheck", "history", "marker", "copyOut"},
         v8[j].pc \in {"manifest", "log", "rename", "history", "copyOut"}, M!Placed(j),
         v8[j].pc = "copyOut" <=> pc = "copyOut",
         UNCHANGED v4, M!InOrder(j)', M!Reserves(j)' => M!Reserves(j)
  PROVE  Keeping(j, v)
<1>1. LocksTyped' /\ M!LocksPlaced'
  BY LocksStay DEF Moves, Same
<1>2. M!NotCrossing'
  BY ElsewhereCrosses DEF Moves
<1>3. M!Owns(j)' => M!Owns(j)
  BY DEF M!Owns, Moves, Same
<1> QED
  BY <1>1, <1>2, <1>3 DEF Keeping, Moves, Same

LEMMA WriteManifestKeepsMigration ==
  ASSUME M!MigrationInv, NEW j \in Calls, M!WriteManifest(j) PROVE M!MigrationInv'
<1> DEFINE b == v8[j].b
           d == [v5[b] EXCEPT !.manifest = "whole"]
<1>1. /\ M!InOrder(j) /\ M!Placed(j) /\ M!Typed /\ v8[j].pc = "manifest" /\ v5[b].source = v8[j].plan
      /\ UNCHANGED <<v1, v2, v3, v6, v7, v9, v10>>
      /\ v5' = [v5 EXCEPT ![b] = d]
  BY DEF M!MigrationInv, M!InOrder, M!WriteManifest, M!Copied, M!In, M!counts
<1>2. M!Owns(j) /\ v8[j].at \in Items /\ v8[j].at # None
  BY <1>1, MigrationConstants DEF M!Placed, M!Owns, M!In, M!AbsentAssumption
<1>3. /\ b \in Names /\ v5[b].folder = v8[j].at /\ v5[b].manifest = "none"
      /\ v5[b].target = M!Missing /\ v8[j].copied = {}
  BY <1>1, <1>2 DEF M!InOrder, M!In
<1>4. v5 \in [Names -> M!Directory] /\ v10' \in 0 .. MaxFaults
  BY <1>1 DEF M!Typed, M!TypeOK
<1>5. /\ d \in M!Directory /\ d.folder = v5[b].folder /\ d.source = v5[b].source
      /\ d.members = v5[b].members /\ d.manifest = "whole" /\ d.log = v5[b].log
      /\ d.target = M!Missing /\ d.applied = v5[b].applied
  BY <1>3, <1>4 DEF M!Directory, M!FileStates
<1>6. /\ d.log = "whole" => d.target # M!Missing
      /\ d.applied = "whole" => d.target \in v3[d.folder]
  BY <1>3, <1>5 DEF M!MigrationInv, M!Sound
<1>7. v5'[b].manifest = "whole" /\ v5'[b].source = v8[j].plan
      /\ v5'[b].target = M!Missing /\ v5'[b].folder = v8[j].at
  BY <1>1, <1>3, <1>4, <1>5
<1> HIDE DEF d
<1>8. CASE v8[j].op = "apply" /\ M!To(j, "log") /\ UNCHANGED v4
  <2>1. PICK v : Moves(j, v, "log") /\ v.plan = v8[j].plan
    BY <1>1, <1>8, ToMoves
  <2>2. M!InOrder(j)' /\ (M!Reserves(j)' => M!Reserves(j))
    BY <1>1, <1>2, <1>3, <1>7, <1>8, <2>1 DEF M!InOrder, M!Placed, Moves, Same, M!Owns, M!In, M!Reserves
  <2>3. Keeping(j, v)
    BY <1>1, <1>8, <2>1, <2>2, MovesKeeping
  <2> QED
    BY <1>1, <1>2, <1>3, <1>4, <1>5, <1>6, <2>1, <2>3, DirectoryKeepsMigration DEF Moves
<1>9. CASE M!Quit(j)
  BY <1>1, <1>2, <1>3, <1>4, <1>5, <1>6, <1>9, QuitsKeeping, DirectoryKeepsMigration
<1> QED
  BY <1>8, <1>9 DEF M!WriteManifest

LEMMA WriteLogKeepsMigration ==
  ASSUME M!MigrationInv, NEW j \in Calls, M!WriteLog(j) PROVE M!MigrationInv'
<1> DEFINE b == v8[j].b
           d == [v5[b] EXCEPT !.log = "whole", !.target = v8[j].target]
<1>1. /\ M!InOrder(j) /\ M!Placed(j) /\ M!Typed /\ v8[j].pc = "log"
      /\ UNCHANGED <<v1, v2, v3, v4, v6, v7, v9, v10>>
      /\ v5' = [v5 EXCEPT ![b] = d] /\ M!To(j, "recheck")
  BY DEF M!MigrationInv, M!InOrder, M!WriteLog, M!In, M!counts
<1>2. M!Owns(j) /\ v8[j].op = "apply" /\ v8[j].at \in Items /\ v8[j].at # None
  BY <1>1, MigrationConstants DEF M!Placed, M!Owns, M!In, M!AbsentAssumption
<1>3. /\ b \in Names /\ v5[b].folder = v8[j].at /\ v5[b].manifest = "whole"
      /\ v5[b].source = v8[j].plan /\ v8[j].plan \in v6
      /\ v5[b].target = M!Missing /\ v8[j].copied = {} /\ v8[j].target # M!Missing
  BY <1>1, <1>2 DEF M!InOrder, M!In
<1>4. v5 \in [Names -> M!Directory] /\ v10' \in 0 .. MaxFaults
      /\ v8[j].target \in M!Revisions \cup {M!Missing}
  BY <1>1, NumbersAre DEF M!Typed, M!TypeOK
<1>5. /\ d \in M!Directory /\ d.folder = v5[b].folder /\ d.source = v5[b].source
      /\ d.members = v5[b].members /\ d.manifest = "whole"
      /\ d.target = v8[j].target /\ d.applied = v5[b].applied
  <2>1. v5[b] \in M!Directory
    BY <1>3, <1>4
  <2>2. \A e \in M!Directory, t \in M!Revisions \cup {M!Missing} :
          [e EXCEPT !.log = "whole", !.target = t] \in M!Directory
    BY DEF M!Directory, M!FileStates
  <2>3. d \in M!Directory
    BY <1>4, <2>1, <2>2
  <2> QED
    BY <1>3, <2>1, <2>3 DEF M!Directory
<1>6. d.applied = "whole" => d.target \in v3[d.folder]
  <2>1. v5[b].applied # "whole"
    <3>1. v5[b].applied = "whole" => M!Missing \in v3[v8[j].at]
      BY <1>3 DEF M!MigrationInv, M!Sound
    <3>2. M!Missing \notin v3[v8[j].at]
      BY <1>1, <1>2, RevisionsAre DEF M!Typed, M!TypeOK
    <3> QED
      BY <3>1, <3>2
  <2> QED
    BY <1>5, <2>1
<1>7. v5'[b].manifest = "whole" /\ v5'[b].source = v8[j].plan
      /\ v5'[b].target = v8[j].target /\ v5'[b].folder = v8[j].at
  BY <1>1, <1>3, <1>4, <1>5
<1> HIDE DEF d
<1>8. PICK v : Moves(j, v, "recheck") /\ v.plan = v8[j].plan
  BY <1>1, ToMoves
<1>9. M!InOrder(j)' /\ (M!Reserves(j)' => M!Reserves(j))
  BY <1>1, <1>2, <1>3, <1>7, <1>8 DEF M!InOrder, M!Placed, Moves, Same, M!Owns, M!In, M!Reserves
<1>10. Keeping(j, v)
  BY <1>1, <1>8, <1>9, MovesKeeping
<1> QED
  BY <1>1, <1>2, <1>3, <1>4, <1>5, <1>6, <1>8, <1>10, DirectoryKeepsMigration DEF Moves

LEMMA WriteMarkerKeepsMigration ==
  ASSUME M!MigrationInv, NEW j \in Calls, M!WriteMarker(j) PROVE M!MigrationInv'
<1> DEFINE b == v8[j].b
           d == [v5[b] EXCEPT !.applied = "whole"]
<1>1. /\ M!InOrder(j) /\ M!Placed(j) /\ M!Typed /\ v8[j].pc = "marker" /\ M!Quit(j)
      /\ UNCHANGED <<v1, v2, v3, v6, v7, v9, v10>>
      /\ v5' = [v5 EXCEPT ![b] = d]
  BY DEF M!MigrationInv, M!InOrder, M!WriteMarker, M!In, M!counts
<1>2. v8[j].op \in {"apply", "recover"} /\ v8[j].at \in Items /\ v8[j].at # None
  BY <1>1, MigrationConstants DEF M!Placed, M!In, M!AbsentAssumption
<1>3. /\ b \in Names /\ v5[b].folder = v8[j].at
      /\ v5[b].target = v8[j].target /\ v8[j].target \in v3[v8[j].at]
  BY <1>1, <1>2 DEF M!InOrder, M!In, M!Owns
<1>4. v5 \in [Names -> M!Directory] /\ v10' \in 0 .. MaxFaults
  BY <1>1 DEF M!Typed, M!TypeOK
<1>5. /\ d \in M!Directory /\ d.folder = v5[b].folder /\ d.source = v5[b].source
      /\ d.members = v5[b].members /\ d.manifest = v5[b].manifest
      /\ d.log = v5[b].log /\ d.target = v5[b].target
  BY <1>3, <1>4 DEF M!Directory, M!FileStates
<1>6. /\ d.log = "whole" => d.target # M!Missing
      /\ d.target # M!Missing => d.manifest = "whole" /\ d.source \in v6
      /\ d.target \in v3[d.folder]
  BY <1>3, <1>5 DEF M!MigrationInv, M!Sound, M!Verified
<1> HIDE DEF d
<1> QED
  BY <1>1, <1>2, <1>3, <1>4, <1>5, <1>6, QuitsKeeping, DirectoryKeepsMigration

LEMMA WriteHistoryKeepsMigration ==
  ASSUME M!MigrationInv, NEW j \in Calls, M!WriteHistory(j) PROVE M!MigrationInv'
<1>1. /\ M!InOrder(j) /\ M!Placed(j) /\ M!Typed /\ v8[j].pc = "history"
      /\ UNCHANGED <<v1, v2, v4, v5, v6, v7, M!counts>>
      /\ v3' = [v3 EXCEPT ![v8[j].at] = v3[v8[j].at] \cup {v8[j].target}]
      /\ M!To(j, "marker")
  BY DEF M!MigrationInv, M!InOrder, M!WriteHistory, M!In
<1>2. v8[j].op \in {"apply", "recover"} /\ v8[j].at \in Items
  BY <1>1 DEF M!Placed, M!In
<1>3. v8[j].target \in M!Revisions
  BY <1>1, <1>2, NumbersAre DEF M!InOrder
<1>4. /\ v2' \in [Items -> SUBSET M!Members] /\ v3' \in [Items -> SUBSET M!Revisions]
      /\ v8[j].target \in v3'[v8[j].at] /\ Grown
  BY <1>1, <1>2, <1>3 DEF M!Typed, M!TypeOK, Grown
<1>5. PICK v : Moves(j, v, "marker") /\ v.plan = v8[j].plan
  BY <1>1, ToMoves
<1>6. M!InOrder(j)' /\ ~M!Reserves(j)'
  BY <1>1, <1>2, <1>4, <1>5 DEF M!InOrder, M!Placed, Moves, Same, M!Owns, M!In, M!Reserves
<1>7. Keeping(j, v)
  BY <1>1, <1>5, <1>6, MovesKeeping
<1> QED
  BY <1>1, <1>4, <1>5, <1>7, GrownKeepsMigration DEF Moves

LEMMA CopyOutKeepsMigration ==
  ASSUME M!MigrationInv, NEW j \in Calls, M!CopyOut(j) PROVE M!MigrationInv'
<1>1. /\ M!InOrder(j) /\ M!Placed(j) /\ M!Typed /\ v8[j].pc = "copyOut" /\ v8 \in [Calls -> M!Job]
      /\ UNCHANGED <<v1, v3, v4, v5, v6, v7, M!counts>>
  BY DEF M!MigrationInv, M!InOrder, M!CopyOut, M!In, M!Typed
<1>2. v8[j].op = "restore" /\ v8[j].to \in Items
  BY <1>1 DEF M!Placed, M!In
<1>3. v8[j].b \in Names /\ v8[j].copied \subseteq v2[v8[j].to]
  BY <1>1, <1>2 DEF M!InOrder, M!In
<1>4. PICK m \in v5[v8[j].b].members :
        /\ v2' = [v2 EXCEPT ![v8[j].to] = v2[v8[j].to] \cup {m}]
        /\ v8' = [v8 EXCEPT ![j] = [v8[j] EXCEPT !.copied = v8[j].copied \cup {m}]]
  BY DEF M!CopyOut
<1>5. m \in M!Members
  BY <1>1, <1>3 DEF M!Typed, M!TypeOK, M!Directory
<1> DEFINE v == [v8[j] EXCEPT !.copied = v8[j].copied \cup {m}]
<1>6. /\ v \in M!Job /\ v.pc = "copyOut" /\ v.op = "restore" /\ v.at = v8[j].at /\ v.to = v8[j].to
      /\ v.b = v8[j].b /\ v.target = v8[j].target /\ v.copied = v8[j].copied \cup {m}
  BY <1>1, <1>2, <1>5 DEF M!Job
<1>7. v8' = [v8 EXCEPT ![j] = v]
  BY <1>4
<1> HIDE DEF v
<1>8. v8'[j] = v /\ \A i \in Calls \ {j} : v8'[i] = v8[i]
  BY <1>1, <1>7
<1>9. /\ v2' \in [Items -> SUBSET M!Members] /\ v3' \in [Items -> SUBSET M!Revisions]
      /\ v.copied \subseteq v2'[v8[j].to] /\ Grown
  BY <1>1, <1>2, <1>3, <1>4, <1>5, <1>6 DEF M!Typed, M!TypeOK, Grown
<1>10. M!InOrder(j)' /\ ~M!Reserves(j)' /\ ~M!Owns(j)'
  BY <1>1, <1>2, <1>6, <1>8, <1>9 DEF M!InOrder, M!Placed, M!Owns, M!In, M!Reserves
<1>11. LocksTyped' /\ M!LocksPlaced'
  BY <1>1, <1>6, <1>7, LocksStay
<1>12. M!NotCrossing'
  BY <1>1, <1>2, <1>6, <1>8, CrossingStays DEF M!MigrationInv, M!Destined, M!In
<1>13. Keeping(j, v)
  BY <1>6, <1>10, <1>11, <1>12 DEF Keeping
<1> QED
  BY <1>1, <1>6, <1>7, <1>9, <1>13, GrownKeepsMigration

LEMMA CreateHistoryKeepsMigration ==
  ASSUME M!MigrationInv, NEW j \in Calls, M!CreateHistory(j) PROVE M!MigrationInv'
<1>1. /\ M!InOrder(j) /\ M!Placed(j) /\ M!Typed /\ v8[j].pc = "createHistory" /\ v8 \in [Calls -> M!Job]
      /\ UNCHANGED <<v1, v4, v5, v6, v7, M!counts>>
      /\ v3' = [v3 EXCEPT ![v8[j].at] = v3[v8[j].at] \cup {v8[j].target}]
      /\ v2' = [v2 EXCEPT ![v8[j].at] = v2[v8[j].at] \cup {"records"}]
      /\ v8' = [v8 EXCEPT ![j] = M!Resting]
  BY DEF M!MigrationInv, M!InOrder, M!CreateHistory, M!In, M!Typed, M!Rest
<1>2. v8[j].op = "create" /\ v8[j].at \in Items
  BY <1>1 DEF M!Placed, M!In
<1>3. v8[j].target \in M!Revisions
  BY <1>1, <1>2, NumbersAre DEF M!InOrder
<1>4. /\ v2' \in [Items -> SUBSET M!Members] /\ v3' \in [Items -> SUBSET M!Revisions]
      /\ Grown
  BY <1>1, <1>2, <1>3 DEF M!Typed, M!TypeOK, Grown, M!Members
<1>5. v8'[j] = M!Resting /\ \A i \in Calls \ {j} : v8'[i] = v8[i]
  BY <1>1
<1>6. M!InOrder(j)' /\ ~M!Owns(j)' /\ ~M!Reserves(j)' /\ ~M!Destined(j)'
  BY <1>5, RestedInOrder
<1>7. M!NotCrossing'
  BY <1>5, <1>6, CrossingStays DEF M!MigrationInv
<1>8. LocksTyped' /\ M!LocksPlaced'
  BY <1>1, RestingIs, LocksStay
<1>9. Keeping(j, M!Resting)
  BY <1>6, <1>7, <1>8, RestingIs DEF Keeping
<1> QED
  BY <1>1, <1>4, <1>9, RestingIs, GrownKeepsMigration

LEMMA DieKeepsMigration ==
  ASSUME M!MigrationInv, NEW j \in Calls, M!Die(j) PROVE M!MigrationInv'
<1> DEFINE b == v8[j].b
<1>1. /\ M!InOrder(j) /\ M!Placed(j) /\ M!Typed /\ v5 \in [Names -> M!Directory] /\ M!Quit(j)
      /\ UNCHANGED <<v1, v2, v3, v6, v7, v9>>
  BY DEF M!MigrationInv, M!InOrder, M!Die, M!Typed, M!TypeOK
<1>2. v10' \in 0 .. MaxFaults
  BY MigrationConstants DEF M!BoundsAssumption, M!Die, M!MigrationInv, M!Typed, M!TypeOK
<1>3. Keeping(j, M!Resting) /\ v8' = [v8 EXCEPT ![j] = M!Resting] /\ M!Resting \in M!Job
  BY <1>1, QuitsKeeping
<1>4. CASE v5' = v5
  <2>1. Grown /\ v2' \in [Items -> SUBSET M!Members] /\ v3' \in [Items -> SUBSET M!Revisions]
    BY <1>1 DEF Grown, M!Typed, M!TypeOK
  <2>2. \A c \in Names : DirectoryStays(c) /\ M!Sound(c)'
    BY <1>4, <2>1, SoundStays DEF DirectoryStays, M!MigrationInv
  <2> QED
    BY <1>1, <1>2, <1>3, <1>4, <2>1, <2>2, WorldKeepsMigration
<1>5. ASSUME M!In(j, "manifest") \/ M!In(j, "log") \/ M!In(j, "marker")
      PROVE  /\ b \in Names /\ v5[b].folder = v8[j].at /\ v8[j].at # None
             /\ M!In(j, "manifest") \/ M!In(j, "log") => M!Owns(j) /\ v5[b].target = M!Missing
  <2>1. v8[j].at \in Items /\ (M!Owns(j) \/ v8[j].op = "recover")
        /\ (M!In(j, "manifest") \/ M!In(j, "log") => M!Owns(j))
    BY <1>1, <1>5 DEF M!Placed, M!In, M!Owns
  <2> QED
    BY <1>1, <2>1, MigrationConstants DEF M!InOrder, M!AbsentAssumption
<1>6. CASE M!In(j, "manifest") /\ v5' = [v5 EXCEPT ![b].manifest = "torn"]
  <2> DEFINE d == [v5[b] EXCEPT !.manifest = "torn"]
  <2>1. /\ d \in M!Directory /\ d.folder = v5[b].folder /\ d.source = v5[b].source
        /\ d.members = v5[b].members /\ d.log = v5[b].log
        /\ d.target = v5[b].target /\ d.applied = v5[b].applied
    BY <1>1, <1>5, <1>6 DEF M!Directory, M!FileStates
  <2>2. v5' = [v5 EXCEPT ![b] = d] /\ v5[b].manifest = "none"
    BY <1>1, <1>6 DEF M!InOrder
  <2> HIDE DEF d
  <2>3. /\ d.log = "whole" => d.target # M!Missing
        /\ d.target = M!Missing
        /\ d.applied = "whole" => d.target \in v3[d.folder]
    BY <1>5, <1>6, <2>1 DEF M!MigrationInv, M!Sound
  <2>4. b \in Names /\ v5[b].folder # None /\ M!Owns(j)
    BY <1>5, <1>6
  <2> QED
    BY <1>1, <1>2, <1>3, <2>1, <2>2, <2>3, <2>4, DirectoryKeepsMigration
<1>7. CASE M!In(j, "log") /\ v5' = [v5 EXCEPT ![b].log = "torn"]
  <2> DEFINE d == [v5[b] EXCEPT !.log = "torn"]
  <2>1. /\ d \in M!Directory /\ d.folder = v5[b].folder /\ d.source = v5[b].source
        /\ d.members = v5[b].members /\ d.log = "torn" /\ d.manifest = v5[b].manifest
        /\ d.target = v5[b].target /\ d.applied = v5[b].applied
    BY <1>1, <1>5, <1>7 DEF M!Directory, M!FileStates
  <2>2. v5' = [v5 EXCEPT ![b] = d]
    BY <1>7
  <2> HIDE DEF d
  <2>3. d.target = M!Missing /\ (d.applied = "whole" => d.target \in v3[d.folder])
    BY <1>5, <1>7, <2>1 DEF M!MigrationInv, M!Sound
  <2>4. b \in Names /\ v5[b].folder # None /\ M!Owns(j)
    BY <1>5, <1>7
  <2> QED
    BY <1>1, <1>2, <1>3, <2>1, <2>2, <2>3, <2>4, DirectoryKeepsMigration
<1>8. CASE M!In(j, "marker") /\ v5' = [v5 EXCEPT ![b].applied = "torn"]
  <2> DEFINE d == [v5[b] EXCEPT !.applied = "torn"]
  <2>1. /\ d \in M!Directory /\ d.folder = v5[b].folder /\ d.source = v5[b].source
        /\ d.members = v5[b].members /\ d.log = v5[b].log /\ d.manifest = v5[b].manifest
        /\ d.target = v5[b].target /\ d.applied = "torn"
    BY <1>1, <1>5, <1>8 DEF M!Directory, M!FileStates
  <2>2. v5' = [v5 EXCEPT ![b] = d]
    BY <1>8
  <2> HIDE DEF d
  <2>3. /\ d.log = "whole" => d.target # M!Missing
        /\ d.target # M!Missing => d.manifest = "whole" /\ d.source \in v6
    BY <1>5, <1>8, <2>1 DEF M!MigrationInv, M!Sound, M!Verified
  <2>4. b \in Names /\ v5[b].folder # None
    BY <1>5, <1>8
  <2> QED
    BY <1>1, <1>2, <1>3, <2>1, <2>2, <2>3, <2>4, DirectoryKeepsMigration
<1> QED
  BY <1>4, <1>6, <1>7, <1>8 DEF M!Die, M!Torn

(* A folder shows a revision that was nowhere before.                      *)
LEMMA FreshKeepsMigration ==
  ASSUME M!MigrationInv, M!Typed', NEW f \in Items, NEW r \in M!Revisions, M!Nowhere(r), r <= v7',
         v1' = [v1 EXCEPT ![f] = r], UNCHANGED v5, Grown, v7 <= v7',
         \A i \in Calls : /\ v8'[i].op = "apply" => /\ v8[i].op = "apply"
                                                    /\ v8'[i].at = v8[i].at
                                                    /\ v8'[i].plan = v8[i].plan
                          /\ v8'[i].target <= v7'
                          /\ M!Reserves(i)' => /\ M!Reserves(i) /\ v8'[i].target = v8[i].target
                                               /\ v8[i].target # r
  PROVE  M!Reserved' /\ M!Spread'
<1>0. M!Typed /\ M!Reserved /\ M!Spread
  BY DEF M!MigrationInv
<1>1. v1'[f] = r /\ \A g \in Items \ {f} : v1'[g] = v1[g]
  BY <1>0 DEF M!Typed, M!TypeOK
<1>2. \A g \in Items, q \in M!Revisions : M!Shows(g, q)' => M!Shows(g, q) \/ (g = f /\ q = r)
  BY <1>1 DEF M!Shows
<1>3. \A q \in M!Revisions : M!Nowhere(q) /\ q # r => M!Nowhere(q)'
  BY <1>2 DEF M!Nowhere
<1>4. ASSUME NEW i \in Calls, M!Reserves(i)'
      PROVE  v8'[i].target \in M!Revisions \ {r} /\ M!Reserves(i) /\ v8'[i].target = v8[i].target
  <2>1. v8[i].target \in M!Revisions
    BY <1>0, <1>4, NumbersAre DEF M!MigrationInv, M!InOrder, M!Reserves
  <2> QED
    BY <1>4, <2>1
<1>5. M!Reserved'
  <2>1. \A S, p : S = {r} => M!Reserved'
    BY <1>0, <1>3, <1>4, ReservedStays
  <2> QED
    BY <2>1
<1>6. M!Spread'
  <2>1. \A S : S = {r} => M!Spread'
    <3>1. \A b \in Names : DirectoryStays(b)
      BY DEF DirectoryStays
    <3>2. \A g \in Items : v2[g] \subseteq v2'[g]
      BY DEF Grown
    <3>3. \A S : S = {r} =>
            /\ \A q \in S : M!Nowhere(q)
            /\ \A g \in Items, q \in M!Revisions : M!Shows(g, q)' => M!Shows(g, q) \/ (g = f /\ q \in S)
      BY <1>2
    <3> QED
      BY <1>0, <3>1, <3>2, <3>3, SpreadStays
  <2> QED
    BY <2>1
<1> QED
  BY <1>5, <1>6

LEMMA RenameKeepsMigration ==
  ASSUME M!MigrationInv, NEW j \in Calls, M!Rename(j) \/ M!Create(j) PROVE M!MigrationInv'
<1>0. M!InOrder(j) /\ M!Placed(j) /\ M!Typed /\ v8 \in [Calls -> M!Job]
  BY DEF M!MigrationInv, M!InOrder, M!Typed
<1>1. PICK pc \in {"history", "createHistory"} :
        /\ v8[j].pc = IF pc = "history" THEN "rename" ELSE "create"
        /\ v1' = [v1 EXCEPT ![v8[j].at] = v8[j].target] /\ M!To(j, pc)
        /\ UNCHANGED <<v2, v3, v4, v5, v6, v7, M!counts>>
  BY DEF M!Rename, M!Create, M!In
<1>2. PICK v : Moves(j, v, pc) /\ v.plan = v8[j].plan
  BY <1>0, <1>1, ToMoves
<1>3. v8[j].op = (IF pc = "history" THEN "apply" ELSE "create") /\ v8[j].at \in Items
  BY <1>0, <1>1 DEF M!Placed, M!In
<1>4. M!Reserves(j) /\ ~M!Reserves(j)'
  BY <1>1, <1>2, <1>3 DEF M!Reserves, Moves, Same
<1>5. v8[j].target \in M!Revisions /\ M!Nowhere(v8[j].target) /\ v8[j].target <= v7
  BY <1>0, <1>3, <1>4, NumbersAre DEF M!InOrder, M!MigrationInv, M!Reserved
<1>6. LocksTyped' /\ M!LocksPlaced'
  BY <1>1, <1>2, LocksStay DEF Moves, Same
<1>7. M!Typed'
  <2>1. v8' \in [Calls -> M!Job] /\ v1' \in [Items -> M!Revisions \cup {M!Missing}]
    BY <1>0, <1>1, <1>2, <1>3, <1>5 DEF M!Typed, M!TypeOK, Moves
  <2> QED
    BY <1>0, <1>1, <1>6, <2>1 DEF LocksTyped, M!Typed, M!TypeOK, M!counts
<1>8. M!InOrder(j)'
  BY <1>0, <1>1, <1>2, <1>3 DEF M!InOrder, M!Placed, Moves, Same, M!Owns, M!In
<1>9. Grown /\ \A b \in Names : DirectoryStays(b) /\ M!Sound(b)'
  BY <1>1, FilesStay
<1>10. \A i \in Calls \ {j} : M!InOrder(i)'
  BY <1>1, <1>2, <1>9, OthersInOrder DEF Moves, M!MigrationInv
<1>11. M!NotCrossing'
  BY <1>1, <1>2, <1>3, ElsewhereCrosses DEF Moves, Same
<1>12. M!OwnersApart'
  BY <1>1, <1>2, <1>3, ApartStay DEF Moves, Same, M!MigrationInv, M!Owns
<1>13. M!Reserved' /\ M!Spread'
  <2>1. ASSUME NEW i \in Calls
        PROVE  /\ v8'[i].op = "apply" => /\ v8[i].op = "apply"
                                         /\ v8'[i].at = v8[i].at
                                         /\ v8'[i].plan = v8[i].plan
               /\ v8'[i].target <= v7'
               /\ M!Reserves(i)' => /\ M!Reserves(i) /\ v8'[i].target = v8[i].target
                                    /\ v8[i].target # v8[j].target
    <3>1. CASE i = j
      BY <1>1, <1>2, <1>4, <1>5, <3>1 DEF Moves, Same
    <3>2. CASE i # j
      BY <1>1, <1>2, <1>4, <3>2 DEF Moves, M!MigrationInv, M!Reserved, M!Reserves
    <3> QED
      BY <3>1, <3>2
  <2>2. v7 <= v7' /\ v8[j].target <= v7'
    BY <1>0, <1>1, <1>5, NumbersAre
  <2> QED
    BY <1>1, <1>3, <1>5, <1>7, <1>9, <2>1, <2>2, FreshKeepsMigration
<1> QED
  BY <1>6, <1>7, <1>8, <1>9, <1>10, <1>11, <1>12, <1>13 DEF M!MigrationInv

(* The rest of the world: an editor, and commits of a session.             *)
LEMMA JobsStay ==
  ASSUME M!MigrationInv, UNCHANGED <<v8, v4, v5>>, Grown
  PROVE  /\ \A i \in Calls : M!InOrder(i)'
         /\ M!OwnersApart' /\ M!NotCrossing' /\ M!LocksPlaced' /\ \A b \in Names : M!Sound(b)'
<1>1. \A i \in Calls : M!InOrder(i)'
  BY OthersInOrder DEF M!MigrationInv, DirectoryStays
<1>2. \A b \in Names : M!Sound(b)'
  BY SoundStays DEF M!MigrationInv
<1> QED
  BY <1>1, <1>2 DEF M!MigrationInv, M!OwnersApart, M!Owns, M!NotCrossing, M!Destined, M!In, M!LocksPlaced, M!Unlocked

LEMMA SavedKeepsMigration ==
  ASSUME M!MigrationInv, NEW f \in Items, M!Commit(f) \/ M!Edit(f) PROVE M!MigrationInv'
<1>0. M!Typed
  BY DEF M!MigrationInv
<1>1. /\ v7 < MigrationRevisions /\ v7' = v7 + 1 /\ v1' = [v1 EXCEPT ![f] = v7']
      /\ v1[f] \in M!Revisions
      /\ UNCHANGED <<v4, v5, v8, M!counts>>
  BY <1>0 DEF M!Commit, M!Edit, M!Typed, M!TypeOK
<1>2. /\ v7' \in M!Revisions /\ v7 <= v7' /\ v7' > v7 /\ v7' <= v7'
  BY <1>0, <1>1, DrawnIs
<1>3. /\ v2' \in [Items -> SUBSET M!Members] /\ v3' \in [Items -> SUBSET M!Revisions]
      /\ v6' \subseteq M!Revisions /\ Grown
  <2>1. CASE M!Commit(f)
    BY <1>0, <1>1, <1>2, <2>1 DEF M!Commit, M!Typed, M!TypeOK, Grown, M!Members
  <2>2. CASE M!Edit(f)
    BY <1>0, <1>1, <1>2, <2>2 DEF M!Edit, M!Typed, M!TypeOK, Grown
  <2> QED
    BY <2>1, <2>2
<1>4. M!Typed'
  <2>1. v1' \in [Items -> M!Revisions \cup {M!Missing}]
    BY <1>0, <1>1, <1>2 DEF M!Typed, M!TypeOK
  <2> QED
    BY <1>0, <1>1, <1>2, <1>3, <2>1 DEF M!Typed, M!TypeOK, M!counts, M!Unlocked
<1>5. M!Nowhere(v7')
  BY <1>2 DEF M!MigrationInv, M!Reserved
<1>6. ASSUME NEW i \in Calls
      PROVE  /\ v8'[i].op = "apply" => /\ v8[i].op = "apply"
                                       /\ v8'[i].at = v8[i].at
                                       /\ v8'[i].plan = v8[i].plan
             /\ v8'[i].target <= v7'
             /\ M!Reserves(i)' => /\ M!Reserves(i) /\ v8'[i].target = v8[i].target
                                  /\ v8[i].target # v7'
  <2>1. v7 \in Int /\ v8[i].target \in Int /\ v8[i].target <= v7
    BY <1>0, NumbersAre DEF M!MigrationInv, M!Reserved
  <2>2. v8[i].target <= v7' /\ v8[i].target # v7'
    BY <1>1, <2>1
  <2> QED
    BY <1>1, <2>2 DEF M!Reserves
<1>7. \A r : r = v7' => M!Reserved' /\ M!Spread'
  BY <1>1, <1>2, <1>3, <1>4, <1>5, <1>6, FreshKeepsMigration
<1> QED
  BY <1>1, <1>3, <1>4, <1>7, JobsStay DEF M!MigrationInv

LEMMA UndoKeepsMigration ==
  ASSUME M!MigrationInv, NEW f \in Items, M!Undo(f) PROVE M!MigrationInv'
<1>0. M!Typed /\ M!Reserved /\ M!Spread
  BY DEF M!MigrationInv
<1>1. PICK p \in Calls : /\ v8[p].at = f /\ v8[p].op = "apply"
                         /\ v1' = [v1 EXCEPT ![f] = v8[p].plan]
  BY DEF M!Undo
<1>2. UNCHANGED <<v2, v3, v4, v5, v6, v7, v8, M!counts>> /\ Grown
  BY DEF M!Undo, Grown
<1>3. v1'[f] = v8[p].plan /\ (\A g \in Items \ {f} : v1'[g] = v1[g])
      /\ v8[p].plan \in M!Revisions \cup {M!Missing}
  BY <1>0, <1>1 DEF M!Typed, M!TypeOK, M!Job
<1>4. M!Typed'
  <2>1. v1' \in [Items -> M!Revisions \cup {M!Missing}]
    BY <1>0, <1>1, <1>3 DEF M!Typed, M!TypeOK
  <2> QED
    BY <1>0, <1>2, <2>1 DEF M!Typed, M!TypeOK, M!counts, M!Unlocked
<1>5. \A g \in Items, r \in M!Revisions : M!Shows(g, r)' => M!Shows(g, r)
  BY <1>1, <1>2, <1>3 DEF M!Shows
<1>6. M!Reserved'
  <2>1. \A r \in M!Revisions : M!Nowhere(r) => M!Nowhere(r)'
    BY <1>2, <1>5 DEF M!Nowhere
  <2>2. v7 <= v7' /\ \A i \in Calls : v8'[i].target <= v7'
    BY <1>0, <1>2, NumbersAre DEF M!Reserved
  <2>3. ASSUME NEW i \in Calls, M!Reserves(i)'
        PROVE  v8'[i].target \in M!Revisions /\ M!Reserves(i) /\ v8'[i].target = v8[i].target
    BY <1>0, <1>2, <2>3, NumbersAre DEF M!MigrationInv, M!InOrder, M!Reserves
  <2>4. \A S : S = {} => M!Reserved'
    BY <1>0, <1>4, <2>1, <2>2, <2>3, ReservedStays
  <2> QED
    BY <2>4
<1>7. M!Spread'
  <2>1. \A b \in Names : DirectoryStays(b)
    BY <1>2 DEF DirectoryStays
  <2>2. \A S : S = {} => M!Spread'
    BY <1>0, <1>2, <1>5, <2>1, SpreadStays DEF Grown
  <2> QED
    BY <2>2
<1> QED
  BY <1>2, <1>4, <1>6, <1>7, JobsStay DEF M!MigrationInv

(* A folder becomes the project that was restored into it.                 *)
LEMMA PublishKeepsMigration ==
  ASSUME M!MigrationInv, NEW j \in Calls, M!Publish(j) PROVE M!MigrationInv'
<1> DEFINE g == v8[j].to
           b == v8[j].b
           r == v5[b].source
<1>0. M!InOrder(j) /\ M!Placed(j) /\ M!Typed /\ M!Reserved /\ M!Spread /\ v8[j].pc = "copyOut"
  BY DEF M!MigrationInv, M!InOrder, M!Publish, M!In
<1>1. /\ v8[j].copied = v5[b].members /\ M!Quit(j)
      /\ v1' = IF v1[g] = M!Missing THEN [v1 EXCEPT ![g] = r] ELSE v1
      /\ UNCHANGED <<v2, v3, v5, v6, v7, M!counts>>
  BY DEF M!Publish, M!AllCopied
<1>2. v8[j].op = "restore" /\ g \in Items
  BY <1>0 DEF M!Placed, M!In
<1>3. /\ b \in Names /\ v5[b].manifest = "whole" /\ v5[b].members \subseteq v2[g]
      /\ v5[b].folder = v8[j].at /\ v8[j].at \in Items
  BY <1>0, <1>1, <1>2 DEF M!InOrder, M!Placed, M!In
<1>4. r \in M!Revisions \cup {M!Missing}
  BY <1>0, <1>3 DEF M!Typed, M!TypeOK, M!Directory
<1>5. \A h \in Items : v1'[h] = v1[h] \/ (h = g /\ v1'[h] = r)
  BY <1>0, <1>1, <1>2 DEF M!Typed, M!TypeOK
<1>6. Keeping(j, M!Resting) /\ v8' = [v8 EXCEPT ![j] = M!Resting] /\ v8'[j] = M!Resting
      /\ (\A i \in Calls \ {j} : v8'[i] = v8[i]) /\ M!InOrder(j)' /\ ~M!Owns(j)' /\ ~M!Reserves(j)'
  BY <1>1, QuitsKeeping, JobQuits
<1>7. M!Typed'
  <2>1. v8' \in [Calls -> M!Job] /\ v1' \in [Items -> M!Revisions \cup {M!Missing}]
    BY <1>0, <1>1, <1>4, <1>6, RestingIs DEF M!Typed, M!TypeOK
  <2> QED
    BY <1>0, <1>1, <1>6, <2>1 DEF Keeping, LocksTyped, M!Typed, M!TypeOK, M!counts
<1>8. Grown /\ \A c \in Names : DirectoryStays(c) /\ M!Sound(c)'
  BY <1>1, FilesStay
<1>9. \A i \in Calls \ {j} : M!InOrder(i)'
  BY <1>1, <1>6, <1>8, OthersInOrder DEF M!MigrationInv
<1>10. M!OwnersApart'
  BY <1>6, ApartStay DEF M!MigrationInv
<1> HIDE DEF g, b, r
<1>11. \A h \in Items, q \in M!Revisions : M!Shows(h, q)' => M!Shows(h, q) \/ (h = g /\ q = r)
  BY <1>5, <1>6, RestingIs DEF M!Shows
<1>12. M!Reserved'
  <2>1. \A q \in M!Revisions : M!Nowhere(q) => M!Nowhere(q)'
    BY <1>1, <1>3, <1>11 DEF M!Nowhere, r
  <2>2. v7 <= v7' /\ \A i \in Calls : v8'[i].target <= v7'
    <3>1. v7 \in M!Revisions /\ v7 <= v7 /\ \A i \in Calls : v8[i].target <= v7
      BY <1>0, NumbersAre DEF M!Typed, M!TypeOK, M!Reserved
    <3>2. v7 \in Int /\ M!Missing \in Int /\ M!Missing < v7
      BY <3>1, RevisionsAre
    <3>3. M!Missing <= v7
      BY <3>2
    <3> QED
      BY <1>1, <1>6, <3>1, <3>3, RestingIs
  <2>3. ASSUME NEW i \in Calls, M!Reserves(i)'
        PROVE  v8'[i].target \in M!Revisions /\ M!Reserves(i) /\ v8'[i].target = v8[i].target
    <3>1. i # j /\ v8'[i] = v8[i] /\ M!Reserves(i)
      BY <1>6, <2>3 DEF M!Reserves
    <3> QED
      BY <1>0, <3>1, NumbersAre DEF M!MigrationInv, M!InOrder, M!Reserves
  <2>4. \A S : S = {} => M!Reserved'
    BY <1>0, <1>7, <2>1, <2>2, <2>3, ReservedStays
  <2> QED
    BY <2>4
<1>13. M!Spread'
  <2> SUFFICES ASSUME NEW h \in Items, NEW q \in M!Revisions, M!Shows(h, q)', M!Elsewhere(h, q)'
               PROVE  M!Backed(h, q)
    BY <1>1 DEF M!Spread, M!Backed, M!Verified
  <2>1. CASE q # r
    <3>1. \A k \in Items : M!Shows(k, q)' => M!Shows(k, q)
      BY <1>11, <2>1
    <3>2. M!Shows(h, q) /\ M!Elsewhere(h, q)
      BY <1>1, <3>1 DEF M!Elsewhere
    <3> QED
      BY <1>0, <3>2 DEF M!Spread
  <2>2. CASE q = r /\ h = g
    BY <1>3, <2>2 DEF M!Backed, M!Verified, r
  <2>3. CASE q = r /\ h # g
    <3>1. M!Shows(h, q)
      BY <1>11, <2>3
    <3>2. CASE v5[b].folder # h
      <4>1. M!Elsewhere(h, q)
        BY <1>3, <2>3, <3>2 DEF M!Elsewhere, r
      <4> QED
        BY <1>0, <3>1, <4>1 DEF M!Spread
    <3>3. CASE v5[b].folder = h
      <4>1. h # None
        BY MigrationConstants DEF M!AbsentAssumption
      <4>2. v5[b].members \subseteq v2[h]
        BY <1>3, <3>3, <4>1 DEF M!MigrationInv, M!Sound
      <4> QED
        BY <1>3, <2>3, <4>2 DEF M!Backed, M!Verified, r
    <3> QED
      BY <3>2, <3>3
  <2> QED
    BY <2>1, <2>2, <2>3
<1> QED
  BY <1>6, <1>7, <1>8, <1>9, <1>10, <1>12, <1>13 DEF M!MigrationInv, Keeping

(* A backup directory is made.                                             *)
LEMMA CollectKeepsMigration ==
  ASSUME M!MigrationInv, NEW j \in Calls, M!Collect(j) PROVE M!MigrationInv'
<1> DEFINE f == v8[j].at
           d == [M!NoDirectory EXCEPT !.folder = f, !.source = v1[f], !.members = v2[f]]
<1>0. M!InOrder(j) /\ M!Placed(j) /\ M!Typed /\ M!Reserved /\ M!Spread /\ v8[j].pc = "collect"
      /\ v8 \in [Calls -> M!Job]
  BY DEF M!MigrationInv, M!InOrder, M!Collect, M!In, M!Typed
<1>1. PICK b \in Names :
        /\ v5[b] = M!NoDirectory /\ v5' = [v5 EXCEPT ![b] = d]
        /\ v8' = [v8 EXCEPT ![j] = [v8[j] EXCEPT !.pc = "manifest", !.b = b]]
        /\ UNCHANGED <<v1, v2, v3, v4, v6, v7, M!counts>>
  BY DEF M!Collect
<1>2. v8[j].op \in {"backup", "apply"} /\ f \in Items /\ f # None
  BY <1>0, MigrationConstants DEF M!Placed, M!In, M!AbsentAssumption
<1>3. /\ d \in M!Directory /\ d.folder = f /\ d.source = v1[f] /\ d.members = v2[f]
      /\ d.manifest = "none" /\ d.log = "none" /\ d.target = M!Missing /\ d.applied = "none"
  BY <1>0, <1>2 DEF M!Typed, M!TypeOK, M!Directory, M!NoDirectory, M!FileStates
<1> DEFINE v == [v8[j] EXCEPT !.pc = "manifest", !.b = b]
<1>4. /\ v \in M!Job /\ v.pc = "manifest" /\ v.op = v8[j].op /\ v.at = f /\ v.to = v8[j].to
      /\ v.b = b /\ v.plan = v8[j].plan /\ v.target = v8[j].target /\ v.copied = v8[j].copied
  BY <1>0 DEF M!Job
<1>5. v8' = [v8 EXCEPT ![j] = v]
  BY <1>1
<1> HIDE DEF v, d
<1>6. v8'[j] = v /\ \A i \in Calls \ {j} : v8'[i] = v8[i]
  BY <1>0, <1>5
<1>7. /\ v5' \in [Names -> M!Directory] /\ v5'[b] = d
      /\ \A c \in Names \ {b} : v5'[c] = v5[c]
  BY <1>0, <1>1, <1>3 DEF M!Typed, M!TypeOK
<1>8. LocksTyped' /\ M!LocksPlaced'
  BY <1>0, <1>1, <1>4, <1>5, LocksStay
<1>9. M!Typed'
  <2>1. v8' \in [Calls -> M!Job]
    BY <1>0, <1>4, <1>5
  <2> QED
    BY <1>0, <1>1, <1>7, <1>8, <2>1 DEF LocksTyped, M!Typed, M!TypeOK, M!counts
<1>10. Grown
  BY <1>1 DEF Grown
<1>11. \A c \in Names : M!Sound(c)'
  <2>1. M!Sound(b)'
    BY <1>1, <1>2, <1>3, <1>7 DEF M!Sound
  <2>2. \A c \in Names \ {b} : M!Sound(c)'
    BY <1>0, <1>7, <1>10, SoundStays DEF M!MigrationInv
  <2> QED
    BY <2>1, <2>2
<1>12. M!InOrder(j)' /\ (M!Reserves(j)' => M!Reserves(j))
  <2>1. M!Reserves(j)' => M!Reserves(j)
    BY <1>0, <1>4, <1>6 DEF M!Reserves
  <2>2. M!InOrder(j)'
    BY <1>0, <1>1, <1>2, <1>3, <1>4, <1>6, <1>7 DEF M!InOrder, M!Placed, M!Owns, M!In
  <2> QED
    BY <2>1, <2>2
<1>13. ASSUME NEW i \in Calls \ {j}, M!Owns(i) \/ v8[i].op \in {"recover", "restore"}
       PROVE  v8[i].b \in Names \ {b}
  <2>1. v8[i].b \in Names /\ v5[v8[i].b].folder = v8[i].at /\ v8[i].at \in Items
    BY <1>13 DEF M!MigrationInv, M!InOrder, M!Placed, M!Owns
  <2>2. v5[b].folder = None
    BY <1>1 DEF M!NoDirectory
  <2> QED
    BY <2>1, <2>2, MigrationConstants DEF M!AbsentAssumption
<1>14. \A i \in Calls \ {j} : M!InOrder(i)'
  BY <1>6, <1>7, <1>10, <1>13, OthersInOrder DEF M!MigrationInv, DirectoryStays
<1>15. M!OwnersApart'
  BY <1>4, <1>6, <1>13 DEF M!OwnersApart, M!Owns, M!MigrationInv
<1>16. M!NotCrossing'
  BY <1>2, <1>4, <1>6, CrossingStays DEF M!MigrationInv, M!Destined
<1>17. \A h \in Items, q \in M!Revisions : M!Shows(h, q)' => M!Shows(h, q)
  BY <1>1, <1>4, <1>6 DEF M!Shows
<1>18. M!Shows(f, v1[f]) /\ \A q : (\E c \in Names : v5'[c].source = q) =>
         q = v1[f] \/ \E c \in Names : v5[c].source = q
  BY <1>3, <1>7 DEF M!Shows
<1>19. M!Reserved'
  <2>1. \A q \in M!Revisions : M!Nowhere(q) => M!Nowhere(q)'
    BY <1>2, <1>17, <1>18 DEF M!Nowhere
  <2>2. v7 <= v7' /\ \A i \in Calls : v8'[i].target <= v7'
    BY <1>0, <1>1, <1>4, <1>6, NumbersAre DEF M!Reserved
  <2>3. ASSUME NEW i \in Calls, M!Reserves(i)'
        PROVE  v8'[i].target \in M!Revisions /\ M!Reserves(i) /\ v8'[i].target = v8[i].target
    <3>1. M!Reserves(i) /\ v8'[i].target = v8[i].target
      BY <1>4, <1>6, <1>12, <2>3 DEF M!Reserves
    <3> QED
      BY <1>0, <3>1, NumbersAre DEF M!MigrationInv, M!InOrder, M!Reserves
  <2>4. \A S : S = {} => M!Reserved'
    BY <1>0, <1>9, <2>1, <2>2, <2>3, ReservedStays
  <2> QED
    BY <2>4
<1>20. M!Spread'
  <2> SUFFICES ASSUME NEW h \in Items, NEW q \in M!Revisions, M!Shows(h, q)', M!Elsewhere(h, q)'
               PROVE  M!Backed(h, q)'
    BY DEF M!Spread
  <2>1. M!Elsewhere(h, q)
    <3>1. CASE \E k \in Items \ {h} : M!Shows(k, q)'
      BY <1>17, <3>1 DEF M!Elsewhere
    <3>2. CASE \E c \in Names : v5'[c].source = q /\ v5'[c].folder # h
      <4>1. PICK c \in Names : v5'[c].source = q /\ v5'[c].folder # h
        BY <3>2
      <4>2. CASE c = b
        BY <1>2, <1>3, <1>7, <1>18, <4>1, <4>2 DEF M!Elsewhere
      <4>3. CASE c # b
        BY <1>7, <4>1, <4>3 DEF M!Elsewhere
      <4> QED
        BY <4>2, <4>3
    <3> QED
      BY <3>1, <3>2 DEF M!Elsewhere
  <2>2. M!Backed(h, q)
    BY <1>0, <1>17, <2>1 DEF M!Spread
  <2>3. PICK c \in Names : v5[c].source = q /\ M!Verified(c) /\ v5[c].members \subseteq v2[h]
    BY <2>2 DEF M!Backed
  <2>4. c # b
    BY <1>1, <2>3 DEF M!Verified, M!NoDirectory
  <2> QED
    BY <1>1, <1>7, <2>3, <2>4 DEF M!Backed, M!Verified
<1> QED
  BY <1>8, <1>9, <1>11, <1>12, <1>14, <1>15, <1>16, <1>19, <1>20 DEF M!MigrationInv

LEMMA MigrationStarts == M!Init => M!MigrationInv
<1> SUFFICES ASSUME M!Init PROVE M!MigrationInv
  OBVIOUS
<1> USE DEF M!Init
<1>1. {0, 1} \subseteq M!Revisions /\ M!Missing \notin {0, 1} /\ M!Missing <= 1 /\ 1 \in 0 .. MigrationRevisions
  BY MigrationConstants DEF M!BoundsAssumption, M!Revisions, M!Missing
<1>2. v8 \in [Calls -> M!Job] /\ \A j \in Calls : v8[j] = M!Resting
  BY RestingIs
<1>3. \A b \in Names : v5[b] = M!NoDirectory
  OBVIOUS
<1>4. v1 \in [Items -> {0, 1, M!Missing}] /\ \A f \in Items : M!Unlocked(f)
  BY DEF M!Unlocked
<1>5. M!Typed
  <2>1. M!NoDirectory \in M!Directory
    BY DEF M!NoDirectory, M!Directory, M!FileStates
  <2>2. v9 \in 0 .. MaxStarts /\ v10 \in 0 .. MaxFaults
    BY MigrationConstants DEF M!BoundsAssumption
  <2>3. v6 \subseteq M!Revisions /\ v7 \in M!Revisions
    BY <1>1
  <2>4. v4 \in [Items -> Calls \cup {"free"}] /\ v5 \in [Names -> M!Directory]
        /\ v2 \in [Items -> SUBSET M!Members] /\ v3 \in [Items -> SUBSET M!Revisions]
    BY <2>1
  <2>5. v1 \in [Items -> M!Revisions \cup {M!Missing}]
    BY <1>1, <1>4
  <2> HIDE DEF M!Init
  <2> QED
    BY <1>2, <1>4, <2>2, <2>3, <2>4, <2>5 DEF M!Typed, M!TypeOK
<1>6. \A j \in Calls : M!InOrder(j) /\ ~M!Owns(j) /\ ~M!Reserves(j) /\ ~M!Destined(j)
  BY <1>2, RestingIs DEF M!InOrder, M!Placed, M!In, M!Owns, M!Reserves, M!Destined
<1>7. \A b \in Names : M!Sound(b)
  BY <1>3 DEF M!Sound, M!NoDirectory
<1>8. \A f, r : M!Shows(f, r) => v1[f] = r
  BY <1>2, RestingIs DEF M!Shows
<1>9. \A b \in Names : v5[b].source = M!Missing
  BY <1>3 DEF M!NoDirectory
<1>10. M!Reserved
  <2>1. ASSUME NEW r \in M!Revisions, r > v7 PROVE M!Nowhere(r)
    <3>1. r \notin {0, 1, M!Missing}
      BY <2>1, RevisionsAre, <1>1
    <3> QED
      BY <1>4, <1>8, <1>9, <3>1 DEF M!Nowhere
  <2>2. \A j \in Calls : v8[j].target <= v7
    BY <1>1, <1>2, RestingIs
  <2> QED
    BY <1>6, <2>1, <2>2 DEF M!Reserved
<1>11. M!Spread
  <2>1. \A f, g \in Items : f # g /\ v1[f] = v1[g] => v1[f] = M!Missing
    OBVIOUS
  <2> HIDE DEF M!Init
  <2> QED
    BY <1>8, <1>9, <2>1, RevisionsAre DEF M!Spread, M!Elsewhere
<1> HIDE DEF M!Init
<1> QED
  BY <1>4, <1>5, <1>6, <1>7, <1>10, <1>11 DEF M!MigrationInv, M!OwnersApart, M!LocksPlaced, M!NotCrossing

LEMMA MigrationNext == M!MigrationInv /\ (M!Next \/ UNCHANGED M!mvars) => M!MigrationInv'
<1> SUFFICES ASSUME M!MigrationInv, M!Next \/ UNCHANGED M!mvars PROVE M!MigrationInv'
  OBVIOUS
<1>1. ASSUME NEW j \in Calls, M!Step(j) PROVE M!MigrationInv'
  BY <1>1, LockKeepsMigration, CheckKeepsMigration, CollectKeepsMigration, WriteManifestKeepsMigration, WriteLogKeepsMigration, RenameKeepsMigration,
     WriteHistoryKeepsMigration, WriteMarkerKeepsMigration, InspectKeepsMigration, CheckEmptyKeepsMigration, LockTargetKeepsMigration,
     CheckEmptyAgainKeepsMigration, CopyOutKeepsMigration, PublishKeepsMigration, CreateHistoryKeepsMigration, StopsKeepMigration DEF M!Step
<1>2. CASE UNCHANGED M!mvars
  BY <1>2 DEF M!mvars, M!MigrationInv, M!Typed, M!TypeOK, M!InOrder, M!Placed, M!Owns, M!In, M!OwnersApart, M!Sound,
              M!LocksPlaced, M!NotCrossing, M!Destined, M!Reserved, M!Nowhere, M!Shows, M!Reserves, M!Spread,
              M!Elsewhere, M!Backed, M!Verified, M!Unlocked
<1> QED
  BY <1>1, <1>2, StopsKeepMigration, DieKeepsMigration, StartsKeepMigration, SavedKeepsMigration, UndoKeepsMigration DEF M!Next

LEMMA MigrationIsSafe ==
  M!MigrationInv => M!MigratedIsBackedUp /\ M!AppliedHasHistory /\ M!RestoredWhole /\ M!RestoresProceed
<1> SUFFICES ASSUME M!MigrationInv
             PROVE  M!MigratedIsBackedUp /\ M!AppliedHasHistory /\ M!RestoredWhole /\ M!RestoresProceed
  OBVIOUS
<1>1. M!MigratedIsBackedUp
  <2>1. \A j \in Calls : M!In(j, "rename") => v8[j].op = "apply"
    BY DEF M!MigrationInv, M!InOrder, M!Placed, M!In
  <2>2. \A j \in Calls : M!In(j, "rename") => M!Verified(v8[j].b) /\ v5[v8[j].b].source = v8[j].plan
    BY <2>1 DEF M!MigrationInv, M!InOrder, M!In, M!Verified
  <2> QED
    BY <2>2 DEF M!MigratedIsBackedUp, M!MigrationInv, M!Sound
<1>2. M!AppliedHasHistory
  BY DEF M!AppliedHasHistory, M!MigrationInv, M!Sound
<1>3. M!RestoredWhole
  <2> SUFFICES ASSUME NEW g \in Items, v1[g] # M!Missing,
                      NEW b \in Names, v5[b].source = v1[g], v5[b].folder # g
               PROVE  M!Backed(g, v1[g])
    BY DEF M!RestoredWhole, M!Backed
  <2>1. v1[g] \in M!Revisions
    BY DEF M!MigrationInv, M!Typed, M!TypeOK
  <2>2. M!Shows(g, v1[g]) /\ M!Elsewhere(g, v1[g])
    BY DEF M!Shows, M!Elsewhere
  <2> QED
    BY <2>1, <2>2 DEF M!MigrationInv, M!Spread
<1>4. M!RestoresProceed
  <2> SUFFICES ASSUME NEW i \in Calls, NEW j \in Calls, M!In(i, "lockTarget"), M!In(j, "lockTarget"),
                      M!Holding(i, v8[j].to), M!Holding(j, v8[i].to)
               PROVE  FALSE
    BY DEF M!RestoresProceed
  <2>1. M!Destined(i) /\ M!Destined(j) /\ v8[i].to \in Items /\ v8[j].to \in Items
    BY DEF M!MigrationInv, M!InOrder, M!Placed, M!In, M!Destined
  <2>2. v8[j].to = v8[i].at
    BY <2>1, MigrationConstants DEF M!AbsentAssumption, M!MigrationInv, M!LocksPlaced, M!Unlocked, M!Holding, M!In
  <2>3. v8[i].to = v8[j].at
    BY <2>1, MigrationConstants DEF M!AbsentAssumption, M!MigrationInv, M!LocksPlaced, M!Unlocked, M!Holding, M!In
  <2> QED
    BY <2>1, <2>2, <2>3 DEF M!MigrationInv, M!NotCrossing
<1> QED
  BY <1>1, <1>2, <1>3, <1>4

-----------------------------------------------------------------------------
(* One component runs, and it stays the same.                              *)
LEMMA OneEnters ==
  ASSUME [Next]_vars
  PROVE  /\ Is("terminal")' <=> Is("terminal")
         /\ Is("dialogs")' <=> Is("dialogs")
         /\ Is("wizard")' <=> Is("wizard")
         /\ Is("migration")' <=> Is("migration")
         /\ Is("terminal") => T!Next \/ UNCHANGED T!tvars
         /\ Is("dialogs") => D!Next \/ UNCHANGED D!gvars
         /\ Is("wizard") => W!Next \/ UNCHANGED W!wvars
         /\ Is("migration") => M!Next \/ UNCHANGED M!mvars
<1>1. CASE Next
  <2> USE <1>1 DEF Next, MigrationStep, EvidenceStep, FileStep, ExportStep, ReviewStep, WizardStep,
                   ReleaseStep, TerminalStep, DialogStep
  <2>1. component' = component
    OBVIOUS
  <2>2. Is("terminal") => T!Next
    BY DEF Is
  <2>3. Is("dialogs") => D!Next
    BY DEF Is
  <2>4. Is("wizard") => W!Next
    BY DEF Is
  <2>5. Is("migration") => M!Next
    BY DEF Is
  <2> QED
    BY <2>1, <2>2, <2>3, <2>4, <2>5 DEF Is
<1>2. CASE UNCHANGED vars
  BY <1>2 DEF vars, Is, T!tvars, D!gvars, W!wvars, M!mvars, M!counts
<1> QED
  BY <1>1, <1>2

(* What a person types, decides and enters, and what migration keeps, each *)
(* in its component.                                                       *)
EntryInv ==
  /\ Is("terminal") => T!TerminalInv
  /\ Is("dialogs") => D!DialogsInv
  /\ Is("wizard") => W!WizardInv
  /\ Is("migration") => M!MigrationInv

(* The inductive invariant of the terminal, the dialogs, the wizard, and   *)
(* migration and backup, for any number of lines, commands, saves, lost    *)
(* answers, folders, backups and calls.                                    *)
THEOREM EntryInvariance == Spec => []EntryInv
<1>1. Init => EntryInv
  <2> SUFFICES ASSUME Init PROVE EntryInv
    OBVIOUS
  <2>1. /\ Is("terminal") => T!Init
        /\ Is("dialogs") => D!Init
        /\ Is("wizard") => W!Init
        /\ Is("migration") => M!Init
    BY DEF Init, Is
  <2> QED
    BY <2>1, TerminalStarts, DialogsStart, WizardStarts, MigrationStarts DEF EntryInv
<1>2. EntryInv /\ [Next]_vars => EntryInv'
  <2> SUFFICES ASSUME EntryInv, [Next]_vars PROVE EntryInv'
    OBVIOUS
  <2>1. Is("terminal")' => T!TerminalInv'
    BY OneEnters, TerminalKept DEF EntryInv
  <2>2. Is("dialogs")' => D!DialogsInv'
    BY OneEnters, DialogsKept DEF EntryInv
  <2>3. Is("wizard")' => W!WizardInv'
    BY OneEnters, WizardKept DEF EntryInv
  <2>4. Is("migration")' => M!MigrationInv'
    BY OneEnters, MigrationNext DEF EntryInv
  <2> QED
    BY <2>1, <2>2, <2>3, <2>4 DEF EntryInv
<1> QED
  BY <1>1, <1>2, PTL DEF Spec

(* What a person entered and did not give up is in the draft, the source   *)
(* or a stored proposal, and no report calls saved what is only in memory; *)
(* typed lines reach the prompts in order and each once, and none waits    *)
(* after the input has ended; a decision of the browser is recorded again  *)
(* only after its dialog was told that it is recorded, and a file at most  *)
(* once, however often answers are lost and the user presses again.        *)
THEOREM EnteredStaysKept == Spec => []EnteredIsKept
<1>1. EntryInv => EnteredIsKept
  BY LinesAreInOrder, RecordingIsKnown DEF EntryInv, EnteredIsKept, W!WizardInv
<1> QED
  BY <1>1, EntryInvariance, PTL

(* Migration: a migrated source has a whole verified backup of the bytes   *)
(* it was made from, whoever saves meanwhile; one that is marked applied   *)
(* has its history; a restored folder is a project only when everything    *)
(* that one manifest lists is there; and no two restorations wait for each *)
(* other.                                                                  *)
THEOREM MigrationsAreSafe == Spec => []MigrationSafe
<1>1. EntryInv => MigrationSafe
  BY MigrationIsSafe DEF EntryInv, MigrationSafe
<1> QED
  BY <1>1, EntryInvariance, PTL

(* The variables of every service and of the tools that enter it have      *)
(* their types, whichever of them runs.                                    *)
THEOREM ServicesTypes == Spec => []TypeOK
<1>1. KeeperInv /\ EntryInv => TypeOK
  <2> SUFFICES ASSUME KeeperInv, EntryInv PROVE TypeOK
    OBVIOUS
  <2>1. Is("files") => F!TypeOK
    BY RootIsSafe DEF KeeperInv
  <2>2. Is("release") => R!TypeOK
    BY ReleaseTypes DEF KeeperInv
  <2>3. /\ Is("export") => X!TypeOK
        /\ Is("evidence") => E!TypeOK
        /\ Is("review") => V!TypeOK
    BY DEF KeeperInv, X!ExportInv, E!EvidenceInv, V!ReviewInv
  <2>4. /\ Is("terminal") => T!TypeOK
        /\ Is("dialogs") => D!TypeOK
        /\ Is("wizard") => W!TypeOK
        /\ Is("migration") => M!TypeOK
    BY DEF EntryInv, T!TerminalInv, D!DialogsInv, W!WizardInv, M!MigrationInv, M!Typed
  <2> QED
    BY <2>1, <2>2, <2>3, <2>4 DEF TypeOK
<1> QED
  BY <1>1, KeeperInvariance, EntryInvariance, PTL
=============================================================================
