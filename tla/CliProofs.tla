------------------------------ MODULE CliProofs ------------------------------
(* What holds of one fdash process for every command line, every file, every   *)
(* set of apps and any number of changes by others: what it deploys is the     *)
(* beginning of what the arguments or the file plan, under valid names and     *)
(* with a consent where there has to be one.                                   *)
EXTENDS Cli, SequenceTheorems, FiniteSetTheorems, WellFoundedInduction, TLAPS

-----------------------------------------------------------------------------
(* Sequences and recursion. *)

\* A set of natural numbers that is not empty has a least member.
LEMMA NatMin ==
  ASSUME NEW T \in SUBSET Nat, T # {}
  PROVE  \E x \in T : \A y \in T : x <= y
<1> DEFINE R == {ss \in Nat \X Nat : ss[1] < ss[2]}
<1>1. IsWellFoundedOn(R, Nat)
  BY NatLessThanWellFounded DEF OpToRel
<1>2. PICK x \in T : \A y \in T : ~(<< y, x >> \in R)
  BY <1>1, WFMin
<1>3. \A y \in T : ~(y < x)
  BY <1>2
<1> QED  BY <1>3

\* An array has a length, and its places are those up to it.
LEMMA ArrayProperties ==
  ASSUME NEW s, IsArray(s)
  PROVE  Len(s) \in Nat /\ DOMAIN s = 1 .. Len(s) /\ (Len(s) = 0 <=> s = << >>)
<1>1. s \in Seq(ToSet(s))
  BY DEF IsArray
<1>2. Len(s) \in Nat /\ DOMAIN s = 1 .. Len(s)
  BY <1>1, LenProperties
<1>3. Len(s) = 0 <=> s = << >>
  BY <1>1, EmptySeq
<1> QED  BY <1>2, <1>3

\* What is a sequence over any set is an array.
LEMMA SeqIsArray ==
  ASSUME NEW S, NEW s \in Seq(S)
  PROVE  IsArray(s)
<1>1. Len(s) \in Nat /\ s \in [1 .. Len(s) -> S] /\ DOMAIN s = 1 .. Len(s)
  BY LenProperties
<1>2. \A i \in 1 .. Len(s) : s[i] \in ToSet(s)
  BY <1>1 DEF ToSet
<1>3. s \in [1 .. Len(s) -> ToSet(s)]
  BY <1>1, <1>2
<1>4. s \in Seq(ToSet(s))
  BY <1>1, <1>3, IsASeq
<1> QED  BY <1>4 DEF IsArray

\* A function on the numbers up to n is an array.
LEMMA FunctionIsArray ==
  ASSUME NEW n \in Nat, NEW s, DOMAIN s = 1 .. n, s = [i \in 1 .. n |-> s[i]]
  PROVE  IsArray(s) /\ Len(s) = n
<1>1. s \in [1 .. n -> ToSet(s)]
  <2>1. \A i \in 1 .. n : s[i] \in ToSet(s)
    BY DEF ToSet
  <2> QED  BY <2>1
<1>2. s \in Seq(ToSet(s))
  BY <1>1, IsASeq
<1>3. Len(s) = n
  BY <1>2, LenProperties
<1> QED  BY <1>2, <1>3 DEF IsArray

\* One element more.
LEMMA AppendArray ==
  ASSUME NEW s, IsArray(s), NEW x
  PROVE  /\ IsArray(Append(s, x)) /\ Len(Append(s, x)) = Len(s) + 1
         /\ \A i \in 1 .. Len(s) : Append(s, x)[i] = s[i]
         /\ Append(s, x)[Len(s) + 1] = x
<1> DEFINE S == ToSet(s) \cup {x}
<1>1. s \in Seq(S)
  <2>1. s \in Seq(ToSet(s)) /\ ToSet(s) \subseteq S
    BY DEF IsArray
  <2> QED  BY <2>1, SeqMonotonic
<1>2. x \in S
  OBVIOUS
<1> HIDE DEF S
<1>3. Append(s, x) \in Seq(S)
  BY <1>1, <1>2, AppendProperties
<1>4. Len(Append(s, x)) = Len(s) + 1
      /\ (\A i \in 1 .. Len(s) : Append(s, x)[i] = s[i])
      /\ Append(s, x)[Len(s) + 1] = x
  BY <1>1, <1>2, AppendProperties
<1> QED  BY <1>3, <1>4, SeqIsArray

\* All but the first.
LEMMA TailArray ==
  ASSUME NEW s, IsArray(s), s # << >>
  PROVE  /\ IsArray(Tail(s)) /\ Len(Tail(s)) = Len(s) - 1 /\ Len(s) \in Nat \ {0}
         /\ Head(s) = s[1]
         /\ \A i \in 1 .. Len(Tail(s)) : Tail(s)[i] = s[i + 1]
<1>1. s \in Seq(ToSet(s))
  BY DEF IsArray
<1>2. /\ Tail(s) \in Seq(ToSet(s)) /\ Len(Tail(s)) = Len(s) - 1
      /\ Head(s) = s[1]
      /\ \A i \in 1 .. Len(Tail(s)) : Tail(s)[i] = s[i + 1]
  BY <1>1, HeadTailProperties
<1>3. Len(s) \in Nat /\ Len(s) # 0
  BY <1>1, ArrayProperties
<1> QED  BY <1>2, <1>3, SeqIsArray

\* f computes by recursion, up to n, from base by `step`.
Computes(f, n, base, step) ==
  f = [i \in 0 .. n |-> IF i = 0 THEN base ELSE step[<< f[i - 1], i >>]]

\* There is such a function, and its values are those of the step.
LEMMA ComputesExists ==
  ASSUME NEW S, NEW base \in S, NEW n \in Nat, NEW step \in [S \X (1 .. n) -> S]
  PROVE  \E f \in [0 .. n -> S] : Computes(f, n, base, step)
<1> DEFINE Bad == {m \in 0 .. n : ~ \E f \in [0 .. m -> S] : Computes(f, m, base, step)}
<1>1. SUFFICES ASSUME Bad # {} PROVE FALSE
  OBVIOUS
<1>2. PICK m \in Bad : \A k \in Bad : m <= k
  <2>1. Bad \in SUBSET Nat
    OBVIOUS
  <2> HIDE DEF Bad
  <2> QED  BY <2>1, <1>1, NatMin
<1>3. m \in 0 .. n
  BY <1>2
<1>4. CASE m = 0
  <2>1. PICK f : f = [i \in 0 .. 0 |-> base]
    OBVIOUS
  <2>2. f \in [0 .. 0 -> S]
    BY <2>1
  <2>3. f = [i \in 0 .. 0 |-> IF i = 0 THEN base ELSE step[<< f[i - 1], i >>]]
    BY <2>1
  <2> QED  BY <2>2, <2>3, <1>2, <1>4 DEF Computes
<1>5. CASE m # 0
  <2>1. m - 1 \in 0 .. n /\ ~(m <= m - 1) /\ m \in 1 .. n
    BY <1>3, <1>5
  <2>2. m - 1 \notin Bad
    BY <2>1, <1>2
  <2>3. PICK g \in [0 .. m - 1 -> S] : Computes(g, m - 1, base, step)
    BY <2>1, <2>2
  <2>4. g[m - 1] \in S /\ << g[m - 1], m >> \in S \X (1 .. n)
    BY <2>1
  <2>5. step[<< g[m - 1], m >>] \in S
    BY <2>4
  <2>6. PICK h : h = [i \in 0 .. m |-> IF i = m THEN step[<< g[m - 1], m >>] ELSE g[i]]
    OBVIOUS
  <2>7. \A i \in 0 .. m : i = m \/ i \in 0 .. m - 1
    BY <1>3
  <2>8. h \in [0 .. m -> S]
    <3>1. \A i \in 0 .. m : h[i] \in S
      BY <2>5, <2>6, <2>7
    <3> QED  BY <3>1, <2>6
  <2>9. ASSUME NEW i \in 0 .. m
        PROVE  h[i] = IF i = 0 THEN base ELSE step[<< h[i - 1], i >>]
    <3>1. i # 0 => i - 1 \in 0 .. m /\ i - 1 # m /\ h[i - 1] = g[i - 1]
      BY <2>6, <1>3
    <3>2. CASE i = m
      BY <3>1, <3>2, <2>6, <1>5
    <3>3. CASE i # m
      <4>1. i \in 0 .. m - 1 /\ h[i] = g[i]
        BY <3>3, <2>6, <2>7
      <4> QED  BY <4>1, <3>1, <2>3 DEF Computes
    <3> QED  BY <3>2, <3>3
  <2>10. Computes(h, m, base, step)
    <3>1. h = [i \in 0 .. m |-> h[i]]
      BY <2>6
    <3> QED  BY <3>1, <2>9 DEF Computes
  <2> QED  BY <2>8, <2>10, <1>2
<1> QED  BY <1>4, <1>5

\* What holds of the base, and is kept from one value to the next, holds of all.
LEMMA StaysIn ==
  ASSUME NEW S, NEW n \in Nat, NEW g, g[0] \in S,
         \A i \in 1 .. n : g[i - 1] \in S => g[i] \in S
  PROVE  \A i \in 0 .. n : g[i] \in S
<1> DEFINE Bad == {m \in 0 .. n : g[m] \notin S}
<1>1. SUFFICES ASSUME Bad # {} PROVE FALSE
  OBVIOUS
<1>2. PICK m \in Bad : \A k \in Bad : m <= k
  <2>1. Bad \in SUBSET Nat
    OBVIOUS
  <2> HIDE DEF Bad
  <2> QED  BY <2>1, <1>1, NatMin
<1>3. m \in 0 .. n /\ m # 0
  BY <1>2
<1>4. m \in 1 .. n /\ m - 1 \in 0 .. n /\ ~(m <= m - 1)
  BY <1>3
<1>5. g[m - 1] \in S
  BY <1>2, <1>4
<1> QED  BY <1>2, <1>4, <1>5

-----------------------------------------------------------------------------
(* The arguments. *)

\* The arguments but --user and --system are words.
LEMMA ArgumentsType ==
  ASSUME line \in CommandLines
  PROVE  Arguments \in Seq(STRING)
<1>1. line \in Seq(STRING) /\ Len(line) \in Nat
  BY CliAssumption, LenProperties
<1>2. PICK step : step = [p \in Seq(STRING) \X (1 .. Len(line)) |->
                            IF line[p[2]] \in Globals THEN p[1] ELSE Append(p[1], line[p[2]])]
  OBVIOUS
<1>3. \A s \in Seq(STRING), i \in 1 .. Len(line) :
        /\ step[<< s, i >>] = IF line[i] \in Globals THEN s ELSE Append(s, line[i])
        /\ step[<< s, i >>] \in Seq(STRING)
  <2> SUFFICES ASSUME NEW s \in Seq(STRING), NEW i \in 1 .. Len(line)
               PROVE  /\ step[<< s, i >>] = IF line[i] \in Globals THEN s ELSE Append(s, line[i])
                      /\ step[<< s, i >>] \in Seq(STRING)
    OBVIOUS
  <2>1. step[<< s, i >>] = IF line[i] \in Globals THEN s ELSE Append(s, line[i])
    BY <1>2
  <2>2. line[i] \in STRING
    BY <1>1, ElementOfSeq
  <2>3. Append(s, line[i]) \in Seq(STRING)
    BY <2>2, AppendProperties
  <2> QED  BY <2>1, <2>3
<1>4. step \in [Seq(STRING) \X (1 .. Len(line)) -> Seq(STRING)]
  <2>1. \A p \in Seq(STRING) \X (1 .. Len(line)) : step[p] \in Seq(STRING)
    BY <1>3
  <2> QED  BY <2>1, <1>2
<1>5. << >> \in Seq(STRING)
  BY EmptySeq
<1>6. PICK f \in [0 .. Len(line) -> Seq(STRING)] : Computes(f, Len(line), << >>, step)
  BY <1>1, <1>4, <1>5, ComputesExists
<1>7. f = [i \in 0 .. Len(line) |->
             IF i = 0 THEN << >>
             ELSE IF line[i] \in Globals THEN f[i - 1] ELSE Append(f[i - 1], line[i])]
  <2>1. DOMAIN f = 0 .. Len(line) /\ f = [i \in 0 .. Len(line) |-> f[i]]
    OBVIOUS
  <2>2. ASSUME NEW i \in 0 .. Len(line)
        PROVE  f[i] = IF i = 0 THEN << >>
                      ELSE IF line[i] \in Globals THEN f[i - 1] ELSE Append(f[i - 1], line[i])
    <3>1. f[i] = IF i = 0 THEN << >> ELSE step[<< f[i - 1], i >>]
      BY <1>6 DEF Computes
    <3>2. i # 0 => i \in 1 .. Len(line) /\ f[i - 1] \in Seq(STRING)
      BY <1>1
    <3> QED  BY <3>1, <3>2, <1>3
  <2> QED  BY <2>1, <2>2
<1> DEFINE g == CHOOSE kept : kept = [i \in 0 .. Len(line) |->
             IF i = 0 THEN << >>
             ELSE IF line[i] \in Globals THEN kept[i - 1] ELSE Append(kept[i - 1], line[i])]
<1>8. Arguments = g[Len(line)]
  BY DEF Arguments
<1>9. g = [i \in 0 .. Len(line) |->
             IF i = 0 THEN << >>
             ELSE IF line[i] \in Globals THEN g[i - 1] ELSE Append(g[i - 1], line[i])]
  BY <1>7
<1> HIDE DEF g
<1>10. g[0] \in Seq(STRING)
  BY <1>1, <1>5, <1>9
<1>11. ASSUME NEW i \in 1 .. Len(line), g[i - 1] \in Seq(STRING)
       PROVE  g[i] \in Seq(STRING)
  <2>1. i \in 0 .. Len(line) /\ i # 0
    BY <1>1
  <2>2. g[i] = IF line[i] \in Globals THEN g[i - 1] ELSE Append(g[i - 1], line[i])
    BY <2>1, <1>9
  <2>3. line[i] \in STRING
    BY <1>1, ElementOfSeq
  <2>4. Append(g[i - 1], line[i]) \in Seq(STRING)
    BY <2>3, <1>11, AppendProperties
  <2> QED  BY <2>2, <2>4, <1>11
<1>12. \A i \in 0 .. Len(line) : g[i] \in Seq(STRING)
  BY <1>1, <1>10, <1>11, StaysIn
<1> QED  BY <1>1, <1>8, <1>12

\* The words that options hold.  (The provers do not know that a literal is a STRING.)
Words == STRING \cup {"", "."}

Awaitable == {"", "name", "watch", "cwd", "user", "restart_sec"}

Options == [name : Words, watch : Words, cwd : Words, user : Words, restart_sec : Int,
            target : Words, yes : BOOLEAN, awaits : Awaitable]

\* A word more leaves the options what they are.
LEMMA TakeWordType ==
  ASSUME NEW options \in Options, NEW word \in Words
  PROVE  TakeWord(options, word) \in Options
<1>1. ASSUME NEW rest \in Options
      PROVE  Option(rest, word) \in Options
  <2>1. OptionOf(word) \in {"name", "watch", "cwd", "user", "restart_sec", "yes", "unknown",
                            "target"}
    BY DEF OptionOf
  <2>2. CASE OptionOf(word) = "yes"
    BY <2>2 DEF Option, Options
  <2>3. CASE OptionOf(word) = "watch"
    <3>1. Option(rest, word) = [rest EXCEPT !.watch = ".", !.awaits = "watch"]
      BY <2>3 DEF Option
    <3>2. PICK here \in Words : here = "."
      BY DEF Words
    <3>3. Option(rest, word) = [rest EXCEPT !.watch = here, !.awaits = "watch"]
      BY <3>1, <3>2
    <3> QED  BY <3>3 DEF Options, Awaitable
  <2>4. CASE OptionOf(word) = "target"
    BY <2>4 DEF Option, Options
  <2>5. CASE OptionOf(word) = "unknown"
    BY <2>5 DEF Option, Options
  <2>6. CASE OptionOf(word) \in {"name", "cwd", "user", "restart_sec"}
    BY <2>6 DEF Option, Options, Awaitable
  <2> QED  BY <2>1, <2>2, <2>3, <2>4, <2>5, <2>6
<1>2. PICK rest : rest = [options EXCEPT !.awaits = ""]
  OBVIOUS
<1>3. rest \in Options
  BY <1>2 DEF Options, Awaitable
<1>4. CASE options.awaits = "" \/ (options.awaits = "watch" /\ word \in Dashed)
  <2>1. TakeWord(options, word) = Option(rest, word)
    BY <1>2, <1>4 DEF TakeWord
  <2> QED  BY <2>1, <1>1, <1>3
<1>5. CASE options.awaits = "restart_sec"
  <2>1. ToNumber(word) \in Int
    <3>1. CASE word \in DOMAIN Numbers
      BY <3>1, CliAssumption DEF ToNumber
    <3>2. CASE word \notin DOMAIN Numbers
      BY <3>2 DEF ToNumber
    <3> QED  BY <3>1, <3>2
  <2>2. TakeWord(options, word) = [rest EXCEPT !.restart_sec = ToNumber(word)]
    BY <1>2, <1>5 DEF TakeWord
  <2> QED  BY <2>1, <2>2, <1>3 DEF Options
<1>6. CASE ~(options.awaits = "" \/ (options.awaits = "watch" /\ word \in Dashed))
           /\ options.awaits # "restart_sec"
  <2>1. TakeWord(options, word) = [rest EXCEPT ![options.awaits] = word]
    BY <1>2, <1>6 DEF TakeWord
  <2>2. options.awaits \in {"name", "watch", "cwd", "user"}
    BY <1>6 DEF Options, Awaitable
  <2>3. CASE options.awaits = "name"
    BY <2>1, <2>3, <1>3 DEF Options
  <2>4. CASE options.awaits = "watch"
    BY <2>1, <2>4, <1>3 DEF Options
  <2>5. CASE options.awaits = "cwd"
    BY <2>1, <2>5, <1>3 DEF Options
  <2>6. CASE options.awaits = "user"
    BY <2>1, <2>6, <1>3 DEF Options
  <2> QED  BY <2>2, <2>3, <2>4, <2>5, <2>6
<1> QED  BY <1>4, <1>5, <1>6

\* The options of start are complete, whatever the words after it.
LEMMA StartOptionsType ==
  ASSUME line \in CommandLines, Arguments # << >>
  PROVE  StartOptions \in Options
<1> DEFINE words == Tail(Arguments)
<1>1. words \in Seq(STRING)
  BY ArgumentsType, HeadTailProperties
<1>2. Len(words) \in Nat /\ \A i \in 1 .. Len(words) : words[i] \in Words
  BY <1>1, LenProperties, ElementOfSeq DEF Words
<1> DEFINE g == CHOOSE taken : taken = [i \in 0 .. Len(words) |->
                  IF i = 0 THEN NoOptions ELSE TakeWord(taken[i - 1], words[i])]
<1>3. StartOptions = g[Len(words)]
  BY DEF StartOptions
<1> HIDE DEF words
<1>4. PICK step : step = [p \in Options \X (1 .. Len(words)) |-> TakeWord(p[1], words[p[2]])]
  OBVIOUS
<1>5. \A o \in Options, i \in 1 .. Len(words) :
        step[<< o, i >>] = TakeWord(o, words[i]) /\ step[<< o, i >>] \in Options
  <2> SUFFICES ASSUME NEW o \in Options, NEW i \in 1 .. Len(words)
               PROVE  step[<< o, i >>] = TakeWord(o, words[i]) /\ step[<< o, i >>] \in Options
    OBVIOUS
  <2>1. step[<< o, i >>] = TakeWord(o, words[i])
    BY <1>4
  <2>2. TakeWord(o, words[i]) \in Options
    BY <1>2, TakeWordType
  <2> QED  BY <2>1, <2>2
<1>6. step \in [Options \X (1 .. Len(words)) -> Options]
  <2>1. \A p \in Options \X (1 .. Len(words)) : step[p] \in Options
    BY <1>5
  <2> QED  BY <2>1, <1>4
<1>7. NoOptions \in Options
  BY DEF NoOptions, Options, Words, Awaitable
<1>8. PICK f \in [0 .. Len(words) -> Options] : Computes(f, Len(words), NoOptions, step)
  BY <1>2, <1>6, <1>7, ComputesExists
<1>9. f = [i \in 0 .. Len(words) |->
             IF i = 0 THEN NoOptions ELSE TakeWord(f[i - 1], words[i])]
  <2>1. f = [i \in 0 .. Len(words) |-> f[i]]
    OBVIOUS
  <2>2. ASSUME NEW i \in 0 .. Len(words)
        PROVE  f[i] = IF i = 0 THEN NoOptions ELSE TakeWord(f[i - 1], words[i])
    <3>1. f[i] = IF i = 0 THEN NoOptions ELSE step[<< f[i - 1], i >>]
      BY <1>8 DEF Computes
    <3>2. i # 0 => i \in 1 .. Len(words) /\ f[i - 1] \in Options
      BY <1>2
    <3> QED  BY <3>1, <3>2, <1>5
  <2> QED  BY <2>1, <2>2
<1>10. g = [i \in 0 .. Len(words) |->
              IF i = 0 THEN NoOptions ELSE TakeWord(g[i - 1], words[i])]
  BY <1>9
<1> HIDE DEF g
<1>11. g[0] \in Options
  BY <1>2, <1>7, <1>10
<1>12. ASSUME NEW i \in 1 .. Len(words), g[i - 1] \in Options
       PROVE  g[i] \in Options
  <2>1. i \in 0 .. Len(words) /\ i # 0
    BY <1>2
  <2>2. g[i] = TakeWord(g[i - 1], words[i])
    BY <2>1, <1>10
  <2> QED  BY <2>2, <1>2, <1>12, TakeWordType
<1>13. \A i \in 0 .. Len(words) : g[i] \in Options
  BY <1>2, <1>11, <1>12, StaysIn
<1> QED  BY <1>2, <1>3, <1>13

-----------------------------------------------------------------------------
(* What is planned. *)

\* The apps a command asks for: those of the file, or the one it describes.
Plan ==
  IF IsConfig THEN Load(FileNamed(command.options.target), command.scope)
  ELSE << Single(command.options, command.scope) >>

\* The apps of a file are a sequence, whatever name is asked for.
LEMMA ItemsArray ==
  ASSUME files \in FileSets, NEW name
  PROVE  IsArray(Items(FileNamed(name)))
<1>1. CASE name \in DOMAIN files
  BY <1>1, CliAssumption DEF FileNamed
<1>2. CASE name \notin DOMAIN files
  <2>1. FileNamed(name) = Missing
    BY <1>2 DEF FileNamed
  <2>2. Missing.type = "missing"
    BY DEF Missing, Json
  <2>3. FirstOf(Missing, "apps", "services") = Missing
    BY <2>2 DEF FirstOf, Get
  <2>4. Items(Missing) = << >>
    BY <2>2, <2>3 DEF Items
  <2>5. << >> \in Seq({})
    BY EmptySeq
  <2> QED  BY <2>1, <2>4, <2>5, SeqIsArray
<1> QED  BY <1>1, <1>2

\* A file is loaded as a whole, or not at all.
LEMMA LoadArray ==
  ASSUME NEW file, NEW scope, IsArray(Items(file))
  PROVE  /\ IsArray(Load(file, scope))
         /\ \/ Load(file, scope) = << >>
            \/ /\ \A i \in DOMAIN Items(file) : Proper(Items(file)[i])
               /\ DOMAIN Load(file, scope) = DOMAIN Items(file)
               /\ Len(Load(file, scope)) = Len(Items(file))
               /\ \A i \in DOMAIN Items(file) : Load(file, scope)[i] = ParseItem(Items(file)[i], scope)
<1> DEFINE items == Items(file)
<1>1. Len(items) \in Nat /\ DOMAIN items = 1 .. Len(items)
  BY ArrayProperties
<1>2. CASE \E i \in DOMAIN items : ~Proper(items[i])
  <2>1. Load(file, scope) = << >>
    BY <1>2 DEF Load
  <2>2. << >> \in Seq({})
    BY EmptySeq
  <2> QED  BY <2>1, <2>2, SeqIsArray
<1>3. CASE \A i \in DOMAIN items : Proper(items[i])
  <2>1. Load(file, scope) = [i \in DOMAIN items |-> ParseItem(items[i], scope)]
    BY <1>3 DEF Load
  <2> HIDE DEF items
  <2>2. PICK apps : apps = [i \in 1 .. Len(items) |-> ParseItem(items[i], scope)]
    OBVIOUS
  <2>3. IsArray(apps) /\ Len(apps) = Len(items)
    BY <1>1, <2>2, FunctionIsArray
  <2>4. apps = Load(file, scope)
    BY <1>1, <2>1, <2>2
  <2>5. \A i \in DOMAIN items : apps[i] = ParseItem(items[i], scope)
    BY <2>2, <1>1
  <2>6. DOMAIN apps = DOMAIN items
    BY <2>2, <1>1
  <2> QED  BY <2>3, <2>4, <2>5, <2>6, <1>3 DEF items
<1> QED  BY <1>2, <1>3

\* So the plan is one.
LEMMA PlanArray ==
  ASSUME files \in FileSets
  PROVE  IsArray(Plan)
<1>1. CASE IsConfig
  BY <1>1, ItemsArray, LoadArray DEF Plan
<1>2. CASE ~IsConfig
  <2>1. Plan = << Single(command.options, command.scope) >>
    BY <1>2 DEF Plan
  <2>2. PICK app : app = Single(command.options, command.scope)
    OBVIOUS
  <2>3. << app >> \in Seq({app})
    OBVIOUS
  <2> QED  BY <2>1, <2>2, <2>3, SeqIsArray
<1> QED  BY <1>1, <1>2

\* The watch of an app is where it should be.
WatchInside(app) ==
  \/ app.watch = << >> \/ IsPrefix(app.cwd, app.watch)
  \/ Len(app.watch) = 1 /\ app.watch[1] \in Absolute

\* A sequence is the beginning of itself and of itself with one element more.
LEMMA PrefixItself ==
  ASSUME NEW s, IsArray(s)
  PROVE  IsPrefix(s, s) /\ \A x : IsPrefix(s, Append(s, x))
<1>1. Len(s) \in Nat /\ IsPrefix(s, s)
  BY ArrayProperties DEF IsPrefix
<1>2. ASSUME NEW x
      PROVE  IsPrefix(s, Append(s, x))
  <2> DEFINE S == ToSet(s) \cup {x}
  <2>1. s \in Seq(S)
    <3>1. s \in Seq(ToSet(s)) /\ ToSet(s) \subseteq S
      BY DEF IsArray
    <3> QED  BY <3>1, SeqMonotonic
  <2>2. x \in S
    OBVIOUS
  <2> HIDE DEF S
  <2>3. << x >> \in Seq(S) /\ Append(s, x) = s \o << x >>
    BY <2>1, <2>2, AppendIsConcat
  <2>4. SubSeq(s \o << x >>, 1, Len(s)) = s
    BY <2>1, <2>3, ConcatSimplifications, SubSeqOfConcat1, SubSeqFull
  <2>5. SubSeq(s, 1, Len(s)) = s
    BY <2>1, SubSeqFull
  <2>6. Len(Append(s, x)) = Len(s) + 1
    BY AppendArray
  <2> QED  BY <1>1, <2>3, <2>4, <2>5, <2>6 DEF IsPrefix
<1> QED  BY <1>1, <1>2

\* A path under a directory lies in it, or is absolute.
LEMMA UnderInside ==
  ASSUME NEW cwd, IsArray(cwd), NEW word, NEW app, app.cwd = cwd, app.watch = Under(cwd, word)
  PROVE  WatchInside(app)
<1>1. CASE word \in Absolute
  BY <1>1 DEF Under, WatchInside
<1>2. CASE word \notin Absolute
  BY <1>2, PrefixItself DEF Under, WatchInside
<1> QED  BY <1>1, <1>2

\* What a plan says of an app: it has a name, and a watch in its directory.
Planned(app) == {"name", "cwd", "watch", "user"} \subseteq DOMAIN app /\ WatchInside(app)

\* An item of a file, whatever it says of its directory and its watch.
LEMMA ItemPlanned ==
  ASSUME NEW item, NEW scope
  PROVE  Planned(ParseItem(item, scope)) /\ ParseItem(item, scope).name = Get(item, "name").value
<1> DEFINE app == ParseItem(item, scope)
           cwd == CwdOf(item)
<1>1. /\ app.cwd = cwd /\ app.watch = WatchOf(item, cwd)
      /\ app.name = Get(item, "name").value
      /\ {"name", "cwd", "watch", "user"} \subseteq DOMAIN app
  BY DEF ParseItem
<1>2. IsArray(cwd)
  <2>1. PICK v : v = Get(item, "cwd").value
    OBVIOUS
  <2>2. cwd = << Here >> \/ cwd = << Here, v >> \/ cwd = << v >>
    BY <2>1 DEF CwdOf
  <2>3. << Here >> \in Seq({Here, v}) /\ << Here, v >> \in Seq({Here, v}) /\ << v >> \in Seq({Here, v})
    OBVIOUS
  <2> QED  BY <2>2, <2>3, SeqIsArray
<1> HIDE DEF cwd, app
<1>3. PICK watch, word : /\ watch = Get(item, "watch")
                         /\ word = IF watch.type = "array" /\ watch.value # << >>
                                   THEN watch.value[1] ELSE watch
  OBVIOUS
<1>4. \/ app.watch = cwd \/ app.watch = << >>
      \/ app.watch = Under(cwd, word.value)
  BY <1>1, <1>3 DEF WatchOf
<1>5. WatchInside(app)
  <2>1. CASE app.watch = cwd
    BY <2>1, <1>1, <1>2, PrefixItself DEF WatchInside
  <2>2. CASE app.watch = << >>
    BY <2>2 DEF WatchInside
  <2>3. CASE app.watch = Under(cwd, word.value)
    BY <2>3, <1>1, <1>2, UnderInside
  <2> QED  BY <1>4, <2>1, <2>2, <2>3
<1> QED  BY <1>1, <1>5 DEF Planned, app

\* The app a command line describes, whatever its options.
LEMMA SinglePlanned ==
  ASSUME NEW options, NEW scope
  PROVE  Planned(Single(options, scope))
<1> DEFINE app == Single(options, scope)
<1>1. PICK cwd : cwd = IF options.cwd = "" THEN << Here >> ELSE << options.cwd >>
  OBVIOUS
<1>2. /\ app.cwd = cwd
      /\ app.watch = IF options.watch = "" THEN << >> ELSE Under(cwd, options.watch)
      /\ {"name", "cwd", "watch", "user"} \subseteq DOMAIN app
  BY <1>1 DEF Single
<1>3. IsArray(cwd)
  <2>1. PICK v : v = options.cwd
    OBVIOUS
  <2>2. cwd = << Here >> \/ cwd = << v >>
    BY <1>1, <2>1
  <2>3. << Here >> \in Seq({Here, v}) /\ << v >> \in Seq({Here, v})
    OBVIOUS
  <2> QED  BY <2>2, <2>3, SeqIsArray
<1> HIDE DEF app
<1>4. CASE options.watch = ""
  BY <1>2, <1>4 DEF WatchInside, Planned, app
<1>5. CASE options.watch # ""
  <2>1. WatchInside(app)
    BY <1>2, <1>3, <1>5, UnderInside
  <2> QED  BY <2>1, <1>2 DEF Planned, app
<1> QED  BY <1>4, <1>5

\* Every app of a plan is planned, and of a file in the file's order.
LEMMA PlanPlanned ==
  ASSUME files \in FileSets
  PROVE  /\ \A i \in 1 .. Len(Plan) : Planned(Plan[i])
         /\ IsConfig => Plan = << >> \/
              LET items == Items(FileNamed(command.options.target))
              IN /\ \A i \in DOMAIN items : Proper(items[i])
                 /\ DOMAIN items = 1 .. Len(Plan) /\ Len(items) = Len(Plan)
                 /\ \A i \in DOMAIN items : Plan[i].name = Get(items[i], "name").value
<1>0. IsArray(Plan) /\ Len(Plan) \in Nat /\ (Plan = << >> => Len(Plan) = 0)
  BY PlanArray, ArrayProperties
<1>1. CASE IsConfig
  <2> DEFINE file == FileNamed(command.options.target)
  <2>1. Plan = Load(file, command.scope) /\ IsArray(Items(file))
    BY <1>1, ItemsArray DEF Plan
  <2> HIDE DEF file
  <2>2. CASE Plan = << >>
    BY <2>2, <1>0
  <2>3. CASE Plan # << >>
    <3>1. /\ \A i \in DOMAIN Items(file) : Proper(Items(file)[i])
          /\ DOMAIN Plan = DOMAIN Items(file) /\ Len(Plan) = Len(Items(file))
          /\ \A i \in DOMAIN Items(file) : Plan[i] = ParseItem(Items(file)[i], command.scope)
      BY <2>1, <2>3, LoadArray
    <3>2. DOMAIN Items(file) = 1 .. Len(Plan)
      BY <3>1, <1>0, ArrayProperties
    <3> QED  BY <3>1, <3>2, ItemPlanned DEF file
  <2> QED  BY <2>2, <2>3
<1>2. CASE ~IsConfig
  <2>1. Plan = << Single(command.options, command.scope) >>
    BY <1>2 DEF Plan
  <2>2. Len(Plan) = 1 /\ Plan[1] = Single(command.options, command.scope)
    BY <2>1
  <2> QED  BY <2>2, <1>2, SinglePlanned
<1> QED  BY <1>1, <1>2

-----------------------------------------------------------------------------
(* The invariant. *)

Before  == {"parse", "choose", "ask", "load", "single"}
Listing == {"list", "show", "each", "memory"}

\* What is known of the command: nothing at first, then what start is told, and
\* where the way to the file and the way to the one app part.
CommandKnown ==
  /\ files \in FileSets /\ line \in CommandLines
  /\ phase = "parse" => command = NoCommand
  /\ phase = "choose" => command \in [options : Options, scope : Scopes, found : {FALSE}]
  /\ phase \in {"ask", "load"} => IsConfig
  /\ phase = "single" => ~IsConfig

SameApp(app, planned) ==
  app.name = planned.name /\ app.cwd = planned.cwd /\ app.watch = planned.watch

\* What is still to be deployed is the rest of the plan, and there was one.
Remains ==
  /\ IsConfig => Plan # << >>
  /\ IsArray(todo) /\ Len(deployed) + Len(todo) = Len(Plan)
  /\ \A i \in 1 .. Len(todo) : todo[i] = Plan[Len(deployed) + i]

\* What was deployed is the beginning of the plan, all of it once the list is
\* printed of a file, and nothing before the plan is made.
HandedOver ==
  /\ IsArray(deployed)
  /\ phase \in Before => deployed = << >>
  /\ \A i \in 1 .. Len(deployed) :
       i \in 1 .. Len(Plan) /\ SameApp(deployed[i], Plan[i]) /\ deployed[i].name \in Valid
  /\ phase = "deploy" => Remains
  /\ IsConfig /\ phase \in Listing => Len(deployed) = Len(Plan) /\ Plan # << >>

\* What is passed on names a unit that may exist.
CalledValid ==
  called.command \in {"stop", "restart", "delete", "logs"} =>
    called.target \in Valid \cup {"all"} \/ (called.command = "logs" /\ called.target = "")

\* A file nobody named or agreed to goes no further than the question.
NotBeyondAsk ==
  command.found /\ stdin \in {"n", "EOF"} /\ ~command.options.yes =>
    phase \in {"ask", "ended"} /\ deployed = << >>

IInv == CommandKnown /\ HandedOver /\ CalledValid /\ NotBeyondAsk

\* The empty sequence has no places.
LEMMA NothingDeployed == IsArray(<< >>) /\ Len(<< >>) = 0 /\ 1 .. Len(<< >>) = {}
<1>1. << >> \in Seq({})
  BY EmptySeq
<1>2. IsArray(<< >>)
  BY <1>1, SeqIsArray
<1>3. Len(<< >>) = 0
  BY EmptySeq
<1> QED  BY <1>2, <1>3

\* It holds at first.
LEMMA InitIInv == Init => IInv
<1> SUFFICES ASSUME Init PROVE IInv
  OBVIOUS
<1>1. phase = "parse" /\ line \in CommandLines /\ files \in FileSets
      /\ command = NoCommand /\ deployed = << >> /\ called = NoCall
  BY DEF Init
<1>2. CommandKnown
  BY <1>1 DEF CommandKnown
<1>3. HandedOver
  BY <1>1, NothingDeployed DEF HandedOver, Listing
<1>4. called.command = ""
  BY <1>1 DEF NoCall
<1>5. CalledValid
  BY <1>4 DEF CalledValid
<1>6. command.found = FALSE
  BY <1>1 DEF NoCommand
<1>7. NotBeyondAsk
  BY <1>6 DEF NotBeyondAsk
<1> QED  BY <1>2, <1>3, <1>5, <1>7 DEF IInv

\* The plan changes with the command only.
LEMMA PlanSame ==
  ASSUME UNCHANGED << command, files >>
  PROVE  Plan' = Plan /\ IsConfig' = IsConfig
<1>1. IsConfig' = IsConfig
  BY DEF IsConfig
<1>2. FileNamed(command.options.target)' = FileNamed(command.options.target)
  BY DEF FileNamed
<1> QED  BY <1>1, <1>2 DEF Plan

\* A step that deploys nothing and leaves the command alone keeps it, if it does
\* not go back, and goes on to deploy or to list only with what that takes.
LEMMA QuietKeeps ==
  ASSUME IInv, UNCHANGED << input, command, history >>,
         phase' \notin {"parse", "choose", "ask", "load", "single"} \/ phase' = phase,
         phase' = "deploy" => Remains',
         phase' \in Listing => phase \in Listing \/ (phase = "deploy" /\ todo = << >>),
         phase = "ask" => phase' = "ask" \/ phase' = "ended" \/ stdin = "y",
         phase = "ended" => phase' = "ended"
  PROVE  IInv'
<1>1. Plan' = Plan /\ IsConfig' = IsConfig
  BY PlanSame DEF input
<1>2. CommandKnown'
  BY <1>1 DEF IInv, CommandKnown, input
<1>3. HandedOver'
  <2>1. IsArray(deployed)' /\ (phase \in Before => deployed = << >>)'
    BY DEF IInv, HandedOver, history, Before
  <2>2. (\A i \in 1 .. Len(deployed) :
           i \in 1 .. Len(Plan) /\ SameApp(deployed[i], Plan[i]) /\ deployed[i].name \in Valid)'
    BY <1>1 DEF IInv, HandedOver, history
  <2>3. ASSUME IsConfig', phase' \in Listing
        PROVE  Len(deployed') = Len(Plan') /\ Plan' # << >>
    <3>1. CASE phase \in Listing
      BY <1>1, <2>3, <3>1 DEF IInv, HandedOver, history
    <3>2. CASE phase = "deploy" /\ todo = << >>
      <4>1. Remains /\ Len(todo) = 0
        BY <3>2, NothingDeployed DEF IInv, HandedOver
      <4>2. Len(deployed) + 0 = Len(Plan) /\ Len(deployed) \in Nat
        BY <4>1, ArrayProperties DEF Remains, IInv, HandedOver
      <4> QED  BY <1>1, <2>3, <4>1, <4>2 DEF history, Remains
    <3> QED  BY <2>3, <3>1, <3>2
  <2> QED  BY <2>1, <2>2, <2>3 DEF HandedOver
<1>4. CalledValid'
  BY DEF IInv, CalledValid, history
<1>5. NotBeyondAsk'
  BY DEF IInv, NotBeyondAsk, input, history
<1> QED  BY <1>2, <1>3, <1>4, <1>5 DEF IInv

-----------------------------------------------------------------------------
(* The steps. *)

\* A step after which nothing is deployed, with no file to deploy, keeps the
\* invariant if it keeps what is known of the command.
LEMMA NotBegun ==
  ASSUME deployed' = << >>, phase' # "deploy", CommandKnown', CalledValid', NotBeyondAsk',
         phase' \in Listing => ~IsConfig'
  PROVE  IInv'
<1>1. IsArray(deployed') /\ 1 .. Len(deployed') = {}
  BY NothingDeployed
<1>2. HandedOver'
  BY <1>1 DEF HandedOver
<1> QED  BY <1>2 DEF IInv

\* Dispatch passes on a valid target, gives up, lists, or starts with all options.
LEMMA DispatchKeeps == IInv /\ Dispatch => IInv'
<1> SUFFICES ASSUME IInv, Dispatch PROVE IInv'
  OBVIOUS
<1>1. /\ command = NoCommand /\ deployed = << >> /\ phase = "parse"
      /\ files \in FileSets /\ line \in CommandLines
      /\ files' = files /\ line' = line /\ stdin' = stdin
  BY DEF IInv, CommandKnown, HandedOver, Before, Dispatch, input
<1>2. command.found = FALSE
  BY <1>1 DEF NoCommand
<1>3. CalledValid
  BY DEF IInv
<1>4. ASSUME GivesUp
      PROVE  IInv'
  <2>1. phase' = "ended" /\ command' = command /\ deployed' = << >> /\ called' = called
    BY <1>1, <1>4 DEF GivesUp, history
  <2>2. CommandKnown' /\ CalledValid' /\ NotBeyondAsk' /\ phase' \notin Listing
    BY <1>1, <1>2, <1>3, <2>1 DEF CommandKnown, CalledValid, NotBeyondAsk, Listing
  <2> QED  BY <2>1, <2>2, NotBegun
<1>5. ASSUME NEW verb, NEW target, PassOn(verb, target),
             \/ verb \notin {"stop", "restart", "delete", "logs"}
             \/ target \in Valid \cup {"all"}
             \/ verb = "logs" /\ target = ""
      PROVE  IInv'
  <2>1. /\ phase' = "ended" /\ command' = command /\ deployed' = << >>
        /\ called'.command = verb /\ called'.target = target
    BY <1>1, <1>5 DEF PassOn
  <2>2. CommandKnown' /\ CalledValid' /\ NotBeyondAsk' /\ phase' \notin Listing
    BY <1>1, <1>2, <1>5, <2>1 DEF CommandKnown, CalledValid, NotBeyondAsk, Listing
  <2> QED  BY <2>1, <2>2, NotBegun
<1>6. ASSUME Lists
      PROVE  IInv'
  <2>1. /\ phase' = "list" /\ deployed' = << >> /\ called' = called
        /\ command' = [NoCommand EXCEPT !.scope = ScopeGiven]
    BY <1>1, <1>6 DEF Lists, history
  <2>2. command'.found = FALSE /\ command'.options.target = ""
    BY <2>1 DEF NoCommand, NoOptions
  <2>3. ~IsConfig'
    BY <2>2, CliAssumption DEF IsConfig
  <2>4. CommandKnown' /\ CalledValid' /\ NotBeyondAsk'
    BY <1>1, <1>3, <2>1, <2>2 DEF CommandKnown, CalledValid, NotBeyondAsk
  <2> QED  BY <2>1, <2>3, <2>4, NotBegun
<1>7. ASSUME Starts, Arguments # << >>
      PROVE  IInv'
  <2>1. /\ phase' = "choose" /\ deployed' = << >> /\ called' = called
        /\ command' = [options |-> StartOptions, scope |-> ScopeGiven, found |-> FALSE]
    BY <1>1, <1>7 DEF Starts, history
  <2>2. StartOptions \in Options /\ ScopeGiven \in Scopes
    BY <1>1, <1>7, StartOptionsType DEF ScopeGiven, Scopes
  <2>3. command' \in [options : Options, scope : Scopes, found : {FALSE}]
    BY <2>1, <2>2
  <2>4. command'.found = FALSE
    BY <2>1
  <2>5. CommandKnown' /\ CalledValid' /\ NotBeyondAsk' /\ phase' \notin Listing
    BY <1>1, <1>3, <2>1, <2>3, <2>4 DEF CommandKnown, CalledValid, NotBeyondAsk, Listing
  <2> QED  BY <2>1, <2>5, NotBegun
<1>8. ASSUME NEW verb, Named(verb)
      PROVE  IInv'
  <2>1. CASE verb \in {"stop", "restart", "delete"}
    <3>1. ((Target = "all" \/ Target \in Valid) /\ PassOn(verb, Target)) \/ GivesUp
      BY <1>8, <2>1 DEF Named
    <3> QED  BY <3>1, <1>4, <1>5
  <2>2. CASE verb = "save"
    BY <1>8, <2>2, <1>5 DEF Named
  <2>3. CASE verb = "update"
    BY <1>8, <2>3, <1>5 DEF Named
  <2>4. CASE verb = "logs"
    <3>1. (LogsAsked.target \in Valid \cup {""} /\ PassOn(verb, LogsAsked.target)) \/ GivesUp
      BY <1>8, <2>4 DEF Named
    <3> QED  BY <3>1, <2>4, <1>4, <1>5
  <2>5. CASE verb \notin {"stop", "restart", "delete", "save", "update", "logs"}
    <3>1. GivesUp
      BY <1>8, <2>5 DEF Named
    <3> QED  BY <3>1, <1>4
  <2> QED  BY <2>1, <2>2, <2>3, <2>4, <2>5
<1>9. CASE Urgent # << >>
  <2>1. PassOn("update", "") \/ GivesUp
    BY <1>9 DEF Dispatch
  <2> QED  BY <2>1, <1>4, <1>5
<1>10. CASE Urgent = << >> /\ (Arguments = << >> \/ Head(Arguments) = "monit")
  <2>1. PassOn("monit", "")
    BY <1>10 DEF Dispatch
  <2> QED  BY <2>1, <1>5
<1>11. CASE ~(Urgent # << >>) /\ ~(Arguments = << >> \/ Head(Arguments) = "monit")
  <2>1. Arguments # << >> /\ (Starts \/ Lists \/ Named(Verb))
    BY <1>11 DEF Dispatch
  <2> QED  BY <2>1, <1>6, <1>7, <1>8
<1> QED  BY <1>9, <1>10, <1>11

\* A target that was found is asked about, unless -y or a pipe says not to.
LEMMA ChooseKeeps == IInv /\ Choose => IInv'
<1> SUFFICES ASSUME IInv, Choose PROVE IInv'
  OBVIOUS
<1> DEFINE target == command.options.target
           default == FindDefault(files)
<1>1. /\ phase = "choose" /\ deployed = << >> /\ deployed' = << >> /\ called' = called
      /\ files \in FileSets /\ line \in CommandLines
      /\ files' = files /\ line' = line /\ stdin' = stdin
      /\ CalledValid
      /\ command \in [options : Options, scope : Scopes, found : {FALSE}]
  BY DEF IInv, CommandKnown, HandedOver, Before, Choose, input, history
<1>2. CalledValid'
  BY <1>1 DEF CalledValid
<1>3. CASE target \in JsonNames
  <2>1. phase' = "load" /\ command' = command
    BY <1>3, CliAssumption DEF Choose
  <2>2. IsConfig'
    BY <1>3, <2>1 DEF IsConfig
  <2>3. CommandKnown' /\ NotBeyondAsk' /\ phase' \notin Listing
    BY <1>1, <2>1, <2>2 DEF CommandKnown, NotBeyondAsk, Listing
  <2> QED  BY <1>1, <1>2, <2>1, <2>3, NotBegun
<1>4. CASE target = "" /\ default # << >>
  <2>1. target \notin JsonNames
    BY <1>4, CliAssumption
  <2>2. /\ command' = [command EXCEPT !.options.target = default[1], !.found = TRUE]
        /\ phase' = IF stdin # "pipe" /\ ~command.options.yes THEN "ask" ELSE "load"
    BY <1>4, <2>1 DEF Choose
  <2>3. command'.found = TRUE /\ command'.options.yes = command.options.yes
    BY <1>1, <2>2 DEF Options
  <2>4. IsConfig'
    BY <2>3 DEF IsConfig
  <2>5. CommandKnown' /\ phase' \notin Listing /\ phase' # "deploy"
    BY <1>1, <2>2, <2>4 DEF CommandKnown, Listing
  <2>6. NotBeyondAsk'
    <3>1. CASE stdin # "pipe" /\ ~command.options.yes
      BY <1>1, <2>2, <3>1 DEF NotBeyondAsk
    <3>2. CASE stdin = "pipe"
      BY <1>1, <3>2 DEF NotBeyondAsk
    <3>3. CASE command.options.yes
      <4>1. command'.options.yes
        BY <2>3, <3>3
      <4> QED  BY <4>1 DEF NotBeyondAsk
    <3> QED  BY <3>1, <3>2, <3>3
  <2> QED  BY <1>1, <1>2, <2>5, <2>6, NotBegun
<1>5. CASE target = "" /\ default = << >>
  <2>1. target \notin JsonNames
    BY <1>5, CliAssumption
  <2>2. phase' = "ended" /\ command' = command
    BY <1>5, <2>1 DEF Choose
  <2>3. CommandKnown' /\ NotBeyondAsk' /\ phase' \notin Listing
    BY <1>1, <2>2 DEF CommandKnown, NotBeyondAsk, Listing
  <2> QED  BY <1>1, <1>2, <2>2, <2>3, NotBegun
<1>6. CASE target \notin JsonNames /\ target # ""
  <2>1. phase' = "single" /\ command' = command
    BY <1>6 DEF Choose
  <2>2. ~IsConfig'
    BY <1>1, <1>6, <2>1 DEF IsConfig
  <2>3. CommandKnown' /\ NotBeyondAsk' /\ phase' \notin Listing
    BY <1>1, <2>1, <2>2 DEF CommandKnown, NotBeyondAsk, Listing
  <2> QED  BY <1>1, <1>2, <2>1, <2>3, NotBegun
<1> QED  BY <1>3, <1>4, <1>5, <1>6

\* The question.
LEMMA AskKeeps == IInv /\ Ask => IInv'
<1> SUFFICES ASSUME IInv, Ask PROVE IInv'
  OBVIOUS
<1>1. /\ phase = "ask" /\ deployed = << >> /\ deployed' = << >> /\ called' = called
      /\ files \in FileSets /\ line \in CommandLines
      /\ files' = files /\ line' = line /\ stdin' = stdin
      /\ command' = command /\ IsConfig /\ CalledValid
      /\ phase' = IF stdin = "y" THEN "load" ELSE "ended"
  BY DEF IInv, CommandKnown, HandedOver, Before, Ask, Agreed, input, history
<1>2. CalledValid' /\ IsConfig'
  BY <1>1 DEF CalledValid, IsConfig
<1>3. CommandKnown' /\ phase' \notin Listing /\ phase' # "deploy"
  BY <1>1, <1>2 DEF CommandKnown, Listing
<1>4. NotBeyondAsk'
  BY <1>1 DEF NotBeyondAsk
<1> QED  BY <1>1, <1>2, <1>3, <1>4, NotBegun

\* A plan nothing of which is deployed yet remains.
LEMMA AllRemains ==
  ASSUME deployed = << >>, IsArray(Plan), NEW apps, apps = Plan
  PROVE  IsArray(apps) /\ Len(deployed) + Len(apps) = Len(Plan)
         /\ \A i \in 1 .. Len(apps) : apps[i] = Plan[Len(deployed) + i]
<1>1. Len(deployed) = 0 /\ Len(Plan) \in Nat
  BY NothingDeployed, ArrayProperties
<1> QED  BY <1>1

\* The file, as a whole or not at all.
LEMMA ConfigLoadKeeps == IInv /\ ConfigLoad => IInv'
<1> SUFFICES ASSUME IInv, ConfigLoad PROVE IInv'
  OBVIOUS
<1>1. /\ phase = "load" /\ deployed = << >> /\ IsConfig /\ files \in FileSets
      /\ UNCHANGED << input, command, history >>
      /\ todo' = Load(FileNamed(command.options.target), command.scope)
      /\ phase' = IF todo' = << >> THEN "ended" ELSE "deploy"
  BY DEF IInv, CommandKnown, HandedOver, Before, ConfigLoad
<1>2. todo' = Plan /\ Plan' = Plan /\ deployed' = deployed
  BY <1>1, PlanSame DEF Plan, input, history
<1>3. phase' = "deploy" => Remains'
  <2>1. phase' = "deploy" => Plan' # << >>
    BY <1>1, <1>2
  <2> QED  BY <1>1, <1>2, <2>1, PlanArray, AllRemains DEF Remains
<1>4. phase' \in {"ended", "deploy"}
  BY <1>1
<1> QED  BY <1>1, <1>3, <1>4, QuietKeeps DEF Listing

\* The one app.
LEMMA StartSingleKeeps == IInv /\ StartSingle => IInv'
<1> SUFFICES ASSUME IInv, StartSingle PROVE IInv'
  OBVIOUS
<1>1. /\ phase = "single" /\ deployed = << >> /\ ~IsConfig /\ files \in FileSets
      /\ UNCHANGED << input, command, history >>
      /\ \/ phase' = "ended"
         \/ phase' = "deploy" /\ todo' = << Single(command.options, command.scope) >>
  BY DEF IInv, CommandKnown, HandedOver, Before, StartSingle
<1>2. Plan' = Plan /\ deployed' = deployed
  BY <1>1, PlanSame DEF input, history
<1>3. phase' = "deploy" => Remains'
  <2> SUFFICES ASSUME phase' = "deploy" PROVE Remains'
    OBVIOUS
  <2>1. todo' = Plan /\ IsConfig' = IsConfig
    BY <1>1, PlanSame DEF Plan, input
  <2> QED  BY <1>1, <1>2, <2>1, PlanArray, AllRemains DEF Remains
<1>4. phase' \in {"ended", "deploy"}
  BY <1>1
<1> QED  BY <1>1, <1>3, <1>4, QuietKeeps DEF Listing

\* The next app is handed over, whatever comes of it.
LEMMA DeployKeeps == IInv /\ Deploy => IInv'
<1> SUFFICES ASSUME IInv, Deploy PROVE IInv'
  OBVIOUS
<1>1. /\ phase = "deploy" /\ phase' = "deploy" /\ todo # << >> /\ Head(todo).name \in Valid
      /\ todo' = Tail(todo) /\ files \in FileSets
      /\ UNCHANGED << input, command, called >>
      /\ IsArray(deployed) /\ Remains
  BY DEF IInv, CommandKnown, HandedOver, Deploy, MayDeploy
<1>2. PICK app : /\ app = [Head(todo) EXCEPT !.user = IF command.options.user = "" THEN @
                                                      ELSE command.options.user]
                 /\ deployed' = Append(deployed, app)
  BY DEF Deploy
<1>3. /\ IsArray(Tail(todo)) /\ Len(Tail(todo)) = Len(todo) - 1 /\ Len(todo) \in Nat \ {0}
      /\ Head(todo) = todo[1] /\ \A i \in 1 .. Len(Tail(todo)) : Tail(todo)[i] = todo[i + 1]
  BY <1>1, TailArray DEF Remains
<1>4. Len(deployed) \in Nat /\ Len(Plan) \in Nat /\ Len(deployed) + Len(todo) = Len(Plan)
  BY <1>1, PlanArray, ArrayProperties DEF Remains
<1>5. Head(todo) = Plan[Len(deployed) + 1] /\ Len(deployed) + 1 \in 1 .. Len(Plan)
  BY <1>1, <1>3, <1>4 DEF Remains
<1>6. Planned(Head(todo))
  BY <1>1, <1>5, PlanPlanned
<1>7. SameApp(app, Head(todo)) /\ app.name \in Valid
  <2>1. PICK user : app = [Head(todo) EXCEPT !.user = user]
    BY <1>2
  <2>2. /\ app.name = Head(todo).name /\ app.cwd = Head(todo).cwd
        /\ app.watch = Head(todo).watch
    BY <2>1, <1>6 DEF Planned
  <2> QED  BY <1>1, <2>2 DEF SameApp
<1>8. Plan' = Plan /\ IsConfig' = IsConfig
  BY <1>1, PlanSame DEF input
<1>9. /\ IsArray(deployed') /\ Len(deployed') = Len(deployed) + 1
      /\ \A i \in 1 .. Len(deployed) : deployed'[i] = deployed[i]
      /\ deployed'[Len(deployed) + 1] = app
  <2>1. /\ IsArray(Append(deployed, app)) /\ Len(Append(deployed, app)) = Len(deployed) + 1
        /\ \A i \in 1 .. Len(deployed) : Append(deployed, app)[i] = deployed[i]
        /\ Append(deployed, app)[Len(deployed) + 1] = app
    BY <1>1, AppendArray
  <2> QED  BY <1>2, <2>1
<1>10. CommandKnown'
  BY <1>1, <1>8 DEF CommandKnown, IInv, input
<1>11. HandedOver'
  <2>1. ASSUME NEW i \in 1 .. Len(deployed')
        PROVE  i \in 1 .. Len(Plan) /\ SameApp(deployed'[i], Plan[i]) /\ deployed'[i].name \in Valid
    <3>1. CASE i \in 1 .. Len(deployed)
      BY <3>1, <1>9 DEF IInv, HandedOver
    <3>2. CASE i = Len(deployed) + 1
      BY <3>2, <1>5, <1>7, <1>9
    <3> QED  BY <3>1, <3>2, <1>4, <1>9
  <2>2. Remains'
    <3>1. Len(deployed') + Len(todo') = Len(Plan)
      BY <1>1, <1>3, <1>4, <1>9
    <3>2. ASSUME NEW i \in 1 .. Len(todo')
          PROVE  todo'[i] = Plan[Len(deployed') + i]
      <4>1. todo'[i] = todo[i + 1] /\ i + 1 \in 1 .. Len(todo)
        BY <1>1, <1>3
      <4>2. todo[i + 1] = Plan[Len(deployed) + (i + 1)]
        BY <4>1, <1>1 DEF Remains
      <4>3. Len(deployed) + (i + 1) = Len(deployed') + i
        BY <1>3, <1>4, <1>9
      <4> QED  BY <4>1, <4>2, <4>3
    <3> QED  BY <1>1, <1>3, <1>8, <3>1, <3>2 DEF Remains
  <2> QED  BY <1>1, <1>8, <1>9, <2>1, <2>2 DEF HandedOver, Before, Listing
<1>12. CalledValid'
  BY <1>1 DEF CalledValid, IInv
<1>13. NotBeyondAsk'
  BY <1>1 DEF NotBeyondAsk, IInv, input
<1> QED  BY <1>10, <1>11, <1>12, <1>13 DEF IInv

\* A name that is not valid; the last app; and the list.
LEMMA ListKeeps == IInv /\ (Refuse \/ Deployed \/ List) => IInv'
<1> SUFFICES ASSUME IInv, Refuse \/ Deployed \/ List PROVE IInv'
  OBVIOUS
<1>1. UNCHANGED << input, command, history >>
  BY DEF Refuse, Deployed, List, ListNames, Show, ShowNothing, ShowFails, ShowEach, ReadMemory
<1>2. \/ phase = "deploy" /\ phase' = "ended"
      \/ phase = "deploy" /\ todo = << >> /\ phase' = "list"
      \/ phase \in Listing /\ phase' \in Listing \cup {"ended"}
  BY DEF Refuse, Deployed, List, ListNames, Show, ShowNothing, ShowFails, ShowEach, ReadMemory,
         Listing
<1> QED  BY <1>1, <1>2, QuietKeeps DEF Listing

\* What others do concerns the units only.
LEMMA OthersKeep ==
  ASSUME IInv, UNCHANGED << phase, input, command, todo, history >>
  PROVE  IInv'
<1>1. Plan' = Plan /\ IsConfig' = IsConfig
  BY PlanSame DEF input
<1>2. phase' = "deploy" => Remains'
  BY <1>1 DEF IInv, HandedOver, Remains, history
<1> QED  BY <1>2, QuietKeeps DEF Listing

LEMMA OthersLeave ==
  ASSUME NEW s \in Scopes, NEW n \in Valid, Others(s, n)
  PROVE  UNCHANGED << phase, input, command, todo, history, rows >>
BY DEF Others, Registers, Deletes, Stops, Restarts, Links, Becomes

LEMMA NextKeeps == IInv /\ [Next]_vars => IInv'
<1> SUFFICES ASSUME IInv, [Next]_vars PROVE IInv'
  OBVIOUS
<1>1. CASE Dispatch
  BY <1>1, DispatchKeeps
<1>2. CASE Start
  BY <1>2, ChooseKeeps, AskKeeps, ConfigLoadKeeps, StartSingleKeeps, DeployKeeps, ListKeeps
     DEF Start
<1>3. CASE List
  BY <1>3, ListKeeps
<1>4. ASSUME NEW s \in Scopes, NEW n \in Valid, Others(s, n)
      PROVE  IInv'
  BY <1>4, OthersLeave, OthersKeep
<1>5. CASE UNCHANGED vars
  BY <1>5, OthersKeep DEF vars
<1> QED  BY <1>1, <1>2, <1>3, <1>4, <1>5 DEF Next

LEMMA SpecIInv == Spec => []IInv
BY InitIInv, NextKeeps, PTL DEF Spec

-----------------------------------------------------------------------------
(* The theorems. *)

\* Whatever the arguments and files say, no command is passed on to the units and
\* no app deployed under a name that is not valid (cmd_start, start_single_app,
\* cmd_stop, cmd_restart, cmd_delete, cmd_logs).
THEOREM NamesValid == Spec => []ValidOnly
<1>1. IInv => ValidOnly
  <2> SUFFICES ASSUME IInv PROVE ValidOnly
    OBVIOUS
  <2>1. DOMAIN deployed = 1 .. Len(deployed)
    BY ArrayProperties DEF IInv, HandedOver
  <2> QED  BY <2>1 DEF IInv, HandedOver, CalledValid, ValidOnly
<1> QED  BY <1>1, SpecIInv, PTL

\* At a terminal, a file nobody named is deployed only with -y or a typed y
\* (cmd_start).
THEOREM AskedFirst == Spec => []Consent
<1>1. IInv => Consent
  BY DEF IInv, NotBeyondAsk, Consent
<1> QED  BY <1>1, SpecIInv, PTL

\* A file is deployed in its order, a beginning of it only when a name was refused,
\* and not at all unless each of its apps is complete (config_load, cmd_start).
THEOREM FileInOrder == Spec => []PrefixDeployed
<1>1. IInv => PrefixDeployed
  <2> SUFFICES ASSUME IInv, IsConfig PROVE PrefixDeployed
    BY DEF PrefixDeployed
  <2> DEFINE items == Items(FileNamed(command.options.target))
  <2>1. /\ files \in FileSets /\ IsArray(deployed) /\ DOMAIN deployed = 1 .. Len(deployed)
        /\ Len(deployed) \in Nat
    BY ArrayProperties DEF IInv, CommandKnown, HandedOver
  <2>2. \A i \in 1 .. Len(deployed) : i \in 1 .. Len(Plan) /\ deployed[i].name = Plan[i].name
    BY DEF IInv, HandedOver, SameApp
  <2>3. phase \in Listing => Len(deployed) = Len(Plan) /\ Plan # << >>
    BY DEF IInv, HandedOver
  <2>4. CASE Plan = << >>
    <3>1. 1 .. Len(deployed) = {}
      BY <2>2, <2>4, NothingDeployed
    <3>2. deployed = << >>
      BY <2>1, <3>1, ArrayProperties
    <3> QED  BY <2>1, <2>3, <2>4, <3>1, <3>2 DEF PrefixDeployed, Listing
  <2>5. CASE Plan # << >>
    <3>1. /\ \A i \in DOMAIN items : Proper(items[i])
          /\ DOMAIN items = 1 .. Len(Plan) /\ Len(items) = Len(Plan)
          /\ \A i \in DOMAIN items : Plan[i].name = Get(items[i], "name").value
      BY <2>1, <2>5, PlanPlanned
    <3> QED  BY <2>1, <2>2, <2>3, <3>1 DEF PrefixDeployed, Listing
  <2> QED  BY <2>4, <2>5
<1> QED  BY <1>1, SpecIInv, PTL

\* A watch that is not an absolute path lies in the directory its app runs in
\* (parse_app_item, cmd_start).
THEOREM WatchInCwd == Spec => []WatchUnderCwd
<1>1. IInv => WatchUnderCwd
  <2> SUFFICES ASSUME IInv, NEW i \in DOMAIN deployed PROVE WatchInside(deployed[i])
    BY DEF WatchUnderCwd, WatchInside
  <2>1. i \in 1 .. Len(Plan) /\ SameApp(deployed[i], Plan[i]) /\ files \in FileSets
    BY ArrayProperties DEF IInv, CommandKnown, HandedOver
  <2>2. WatchInside(Plan[i])
    BY <2>1, PlanPlanned DEF Planned
  <2> QED  BY <2>1, <2>2 DEF WatchInside, SameApp
<1> QED  BY <1>1, SpecIInv, PTL

=============================================================================
