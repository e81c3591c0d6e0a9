----------------------- MODULE HerdrConfigMergeProofs -----------------------
(***************************************************************************)
(* Theorems about the merge of HerdrConfigMerge, for configs of any length. *)
(* A fact about what the loop has after i lines is shown by looking at the *)
(* first i for which it would be wrong.                                    *)
(***************************************************************************)
EXTENDS HerdrConfigMerge, Integers, FiniteSetTheorems, SequenceTheorems,
        WellFoundedInduction, TLAPS

\* A set of natural numbers has a least element.
LEMMA LeastOf ==
  ASSUME NEW S, S \subseteq Nat, S # {}
  PROVE  \E x \in S : \A y \in S : x <= y
<1>1. PICK R : IsWellFoundedOn(R, Nat) /\ \A x, y \in Nat : x < y => <<x, y>> \in R
  BY NatLessThanWellFounded DEF OpToRel
<1>2. IsWellFoundedOn(R, Nat)
  BY <1>1
<1>3. \E x \in S : \A y \in S : ~ (<<y, x>> \in R)
  BY ONLY <1>2, S \subseteq Nat, S # {}, WFMin, Zenon
<1>4. PICK x \in S : \A y \in S : ~ (<<y, x>> \in R)
  BY <1>3
<1>5. \A y \in S : ~(y < x)
  BY <1>1, <1>4
<1>6. \A y \in S : x <= y
  BY <1>4, <1>5
<1> QED
  BY <1>4, <1>6

\* The form it is used in: B are the counterexamples of a statement about 0..n.
LEMMA NoneFirst ==
  ASSUME NEW n \in Nat, NEW B, B \subseteq 0..n, 0 \notin B,
         \A i \in B : i > 0 => i - 1 \in B
  PROVE  B = {}
<1> SUFFICES ASSUME B # {} PROVE FALSE
  OBVIOUS
<1>1. B \subseteq Nat
  OBVIOUS
<1>2. PICK i \in B : \A j \in B : i <= j
  BY <1>1, LeastOf
<1>3. i \in Nat /\ i # 0
  BY <1>1
<1> QED
  BY <1>2, <1>3

\* What stands where in two sequences put together.
LEMMA ConcatAt ==
  ASSUME NEW S, NEW a \in Seq(S), NEW b \in Seq(S)
  PROVE  /\ a \o b \in Seq(S) /\ Len(a \o b) = Len(a) + Len(b)
         /\ \A k \in 1..Len(a) : (a \o b)[k] = a[k]
         /\ \A k \in 1..Len(b) : (a \o b)[Len(a) + k] = b[k]
<1>1. Len(a) \in Nat /\ Len(b) \in Nat
  OBVIOUS
<1>2. /\ a \o b \in Seq(S) /\ Len(a \o b) = Len(a) + Len(b)
      /\ \A k \in 1..(Len(a) + Len(b)) :
           (a \o b)[k] = IF k <= Len(a) THEN a[k] ELSE b[k - Len(a)]
  BY ConcatProperties
<1>3. \A k \in 1..Len(a) : k \in 1..(Len(a) + Len(b)) /\ k <= Len(a)
  BY <1>1
<1>4. \A k \in 1..Len(b) : /\ Len(a) + k \in 1..(Len(a) + Len(b))
                           /\ ~(Len(a) + k <= Len(a)) /\ Len(a) + k - Len(a) = k
  BY <1>1
<1> QED
  BY <1>2, <1>3, <1>4

-----------------------------------------------------------------------------
(* The loop. *)

States == [out : Seq(Lines), inTerminal : BOOLEAN, found : BOOLEAN]
Before == [out |-> <<>>, inTerminal |-> FALSE, found |-> FALSE]

IsLoop(f, c, n) ==
  f = [i \in 0..n |-> IF i = 0 THEN Before ELSE MergeLine(f[i - 1], c[i])]

\* The loop takes one step with each line.
LEMMA MergingSteps ==
  ASSUME NEW c \in Seq(Lines)
  PROVE  /\ Merging(c)[0] = Before
         /\ \A i \in 1..Len(c) : Merging(c)[i] = MergeLine(Merging(c)[i - 1], c[i])
<1> DEFINE Bad == {n \in 0..Len(c) : ~ \E f : IsLoop(f, c, n)}
<1>1. 0 \notin Bad
  <2>1. IsLoop([i \in 0..0 |-> Before], c, 0)
    BY DEF IsLoop
  <2> QED
    BY <2>1
<1>2. ASSUME NEW n \in Bad, n > 0, n - 1 \notin Bad PROVE FALSE
  <2>1. n \in Nat /\ n - 1 \in 0..Len(c)
    BY <1>2
  <2>2. PICK g : IsLoop(g, c, n - 1)
    BY <1>2, <2>1
  <2> DEFINE f == [i \in 0..n |-> IF i = n THEN MergeLine(g[n - 1], c[n]) ELSE g[i]]
  <2>3. \A i \in 0..(n - 1) : g[i] = IF i = 0 THEN Before ELSE MergeLine(g[i - 1], c[i])
    BY <2>1, <2>2 DEF IsLoop
  <2>4. \A i \in 0..n : i # n => i \in 0..(n - 1) /\ (i # 0 => i - 1 \in 0..n /\ i - 1 # n)
    BY <2>1
  <2>5. f[n - 1] = g[n - 1]
    BY <1>2, <2>1
  <2>6. ASSUME NEW i \in 0..n
        PROVE  f[i] = IF i = 0 THEN Before ELSE MergeLine(f[i - 1], c[i])
    <3>1. CASE i = n
      BY <1>2, <2>1, <2>5, <3>1
    <3>2. CASE i # n /\ i = 0
      BY <2>3, <2>4, <3>2
    <3>3. CASE i # n /\ i # 0
      <4>1. f[i] = g[i] /\ f[i - 1] = g[i - 1]
        BY <2>4, <3>3
      <4>2. g[i] = MergeLine(g[i - 1], c[i])
        BY <2>3, <2>4, <3>3
      <4> QED
        BY <4>1, <4>2, <3>3
    <3> QED
      BY <3>1, <3>2, <3>3
  <2> HIDE DEF f
  <2>7. f = [i \in 0..n |-> f[i]]
    BY DEF f
  <2>8. IsLoop(f, c, n)
    BY <2>6, <2>7 DEF IsLoop
  <2> QED
    BY <2>8
<1>3. Bad = {}
  <2> HIDE DEF Bad
  <2>1. Len(c) \in Nat /\ Bad \subseteq 0..Len(c)
    BY DEF Bad
  <2> QED
    BY <1>1, <1>2, <2>1, NoneFirst
<1>4. \E f : IsLoop(f, c, Len(c))
  <2>1. Len(c) \in 0..Len(c)
    OBVIOUS
  <2> QED
    BY <1>3, <2>1
<1>5. IsLoop(Merging(c), c, Len(c))
  BY <1>4 DEF IsLoop, Merging, Before
<1> QED
  BY <1>5 DEF IsLoop

\* What the merge puts in are lines, which open nothing.
LEMMA FleetLine ==
  ASSUME NEW form \in {"table", "key"}, NEW name \in Names
  PROVE  Fleet(form, name) \in Lines /\ Fleet(form, name).turns[Nothing] = Nothing
<1>1. Nothing \in Contexts /\ Nothing \notin Arrays
  BY OpenAssumption DEF Contexts
<1>2. FleetTurns \in [Contexts -> Contexts \cup {Broken}] /\ FleetTurns[Nothing] = Nothing
  BY <1>1 DEF FleetTurns
<1> HIDE DEF FleetTurns, Contexts
<1>3. Fleet(form, name) \in [form : {"table", "array", "key", "dotted", "text"}, name : Names,
                             plain : BOOLEAN, turns : [Contexts -> Contexts \cup {Broken}],
                             by : {"user", "fleet"}]
  BY <1>2 DEF Fleet
<1>4. Fleet(form, name).turns = FleetTurns
  BY DEF Fleet
<1> QED
  BY <1>2, <1>3, <1>4 DEF Lines

LEMMA ManagedIsLines ==
  /\ Managed \in Seq(Lines) /\ Len(Managed) = 2
  /\ Managed[1] = Fleet("key", "default_shell")
  /\ Managed[2] = Fleet("key", "shell_mode")
  /\ Fleet("table", "terminal") \in Lines
<1>1. {"default_shell", "shell_mode", "terminal"} \subseteq Names
  BY NamesAssumption DEF ManagedKeys
<1>2. /\ Fleet("key", "default_shell") \in Lines
      /\ Fleet("key", "shell_mode") \in Lines
      /\ Fleet("table", "terminal") \in Lines
  BY <1>1, FleetLine
<1> QED
  BY <1>2 DEF Managed

\* They are settings of [terminal] by their form.
LEMMA ManagedForm ==
  ASSUME NEW d \in {1, 2}
  PROVE  /\ Managed[d].form = "key" /\ Managed[d].plain /\ Managed[d].by = "fleet"
         /\ Managed[d].name \in ManagedKeys /\ Managed[d].turns[Nothing] = Nothing
         /\ Managed[1].name # Managed[2].name
<1>1. {"default_shell", "shell_mode"} \subseteq Names
  BY NamesAssumption DEF ManagedKeys
<1>2. /\ Fleet("key", "default_shell").turns[Nothing] = Nothing
      /\ Fleet("key", "shell_mode").turns[Nothing] = Nothing
  BY <1>1, FleetLine
<1>3. Managed[d].turns[Nothing] = Nothing
  BY <1>2, ManagedIsLines
<1>4. /\ Managed[d].form = "key" /\ Managed[d].plain /\ Managed[d].by = "fleet"
      /\ Managed[d].name \in ManagedKeys /\ Managed[1].name # Managed[2].name
  BY ManagedIsLines DEF Fleet, ManagedKeys
<1> QED
  BY <1>3, <1>4

\* What one step does, in order: after a header of [terminal] come the managed
\* lines, other lines are copied, and those that are replaced are not.
LEMMA OpeningStep ==
  ASSUME NEW d \in States, NEW line \in Lines, LooksLikeTerminal(line), NEW e, e = MergeLine(d, line)
  PROVE  /\ e \in States /\ e.inTerminal /\ e.found /\ Len(e.out) = Len(d.out) + 3
         /\ \A k \in 1..Len(d.out) : e.out[k] = d.out[k]
         /\ e.out[Len(d.out) + 1] = line
         /\ e.out[Len(d.out) + 2] = Managed[1] /\ e.out[Len(d.out) + 3] = Managed[2]
<1> DEFINE a == Append(d.out, line)
<1>1. /\ d.out \in Seq(Lines) /\ Len(d.out) \in Nat
      /\ a \in Seq(Lines) /\ Len(a) = Len(d.out) + 1 /\ a[Len(d.out) + 1] = line
      /\ \A k \in 1..Len(d.out) : a[k] = d.out[k]
  BY DEF States
<1> HIDE DEF a
<1>2. e = [out |-> a \o Managed, inTerminal |-> TRUE, found |-> TRUE]
  BY DEF MergeLine, LooksLikeTerminal, States, a
<1>3. e.out = a \o Managed /\ e.inTerminal = TRUE /\ e.found = TRUE
  BY <1>2
<1>4. /\ e.out \in Seq(Lines) /\ Len(e.out) = Len(a) + 2
      /\ \A k \in 1..Len(a) : e.out[k] = a[k]
      /\ \A k \in 1..2 : e.out[Len(a) + k] = Managed[k]
  <2>1. a \in Seq(Lines) /\ Managed \in Seq(Lines) /\ Len(Managed) = 2
    BY <1>1, ManagedIsLines
  <2>2. /\ a \o Managed \in Seq(Lines) /\ Len(a \o Managed) = Len(a) + Len(Managed)
        /\ \A k \in 1..Len(a) : (a \o Managed)[k] = a[k]
        /\ \A k \in 1..Len(Managed) : (a \o Managed)[Len(a) + k] = Managed[k]
    BY <2>1, ConcatAt
  <2> HIDE DEF a
  <2> QED
    BY <1>3, <2>1, <2>2
<1>5. e \in States
  BY <1>2, <1>3, <1>4 DEF States
<1>6. /\ Len(e.out) = Len(d.out) + 3 /\ \A k \in 1..Len(d.out) : e.out[k] = d.out[k]
      /\ e.out[Len(d.out) + 1] = line
  BY <1>1, <1>4
<1>7. e.out[Len(d.out) + 2] = Managed[1] /\ e.out[Len(d.out) + 3] = Managed[2]
  BY <1>1, <1>4
<1> QED
  BY <1>3, <1>5, <1>6, <1>7

LEMMA CopyingStep ==
  ASSUME NEW d \in States, NEW line \in Lines, ~LooksLikeTerminal(line),
         line.form = "table" \/ ~Replaced(d.inTerminal, line),
         NEW e, e = MergeLine(d, line)
  PROVE  /\ e \in States /\ e.found = d.found /\ Len(e.out) = Len(d.out) + 1
         /\ e.inTerminal = (d.inTerminal /\ line.form # "table")
         /\ \A k \in 1..Len(d.out) : e.out[k] = d.out[k]
         /\ e.out[Len(d.out) + 1] = line
<1>1. /\ d.out \in Seq(Lines) /\ d.inTerminal \in BOOLEAN /\ d.found \in BOOLEAN
      /\ Append(d.out, line) \in Seq(Lines)
  BY DEF States
<1>2. e.out = Append(d.out, line) /\ e.found = d.found
      /\ e.inTerminal = (d.inTerminal /\ line.form # "table") /\ e \in States
  <2>1. CASE line.form = "table"
    <3>1. e = [out |-> Append(d.out, line) \o <<>>, inTerminal |-> FALSE, found |-> d.found]
      BY <1>1, <2>1 DEF MergeLine, LooksLikeTerminal
    <3>2. Append(d.out, line) \o <<>> = Append(d.out, line)
      BY <1>1, ConcatEmptySeq
    <3>3. e.out = Append(d.out, line) /\ e.inTerminal = FALSE /\ e.found = d.found
      BY <3>1, <3>2
    <3>4. e \in States
      BY <1>1, <3>1, <3>2 DEF States
    <3> QED
      BY <2>1, <3>3, <3>4
  <2>2. CASE line.form # "table"
    <3>1. e = [d EXCEPT !.out = Append(@, line)]
      BY <2>2 DEF MergeLine
    <3> QED
      BY <1>1, <2>2, <3>1 DEF States
  <2> QED
    BY <2>1, <2>2
<1> QED
  BY <1>1, <1>2, AppendProperties

LEMMA DroppingStep ==
  ASSUME NEW d, NEW line, line.form # "table", Replaced(d.inTerminal, line)
  PROVE  MergeLine(d, line) = d
BY DEF MergeLine

-----------------------------------------------------------------------------
(* The loop, line by line. *)

\* What the loop has put out after i lines; where it puts a line it copies.
Out(c, i)     == Merging(c)[i].out
Place(c, i)   == Len(Out(c, i - 1)) + 1
Dropped(c, i) == c[i].form # "table" /\ Replaced(Merging(c)[i - 1].inTerminal, c[i])

\* The loop state is always one.
LEMMA MergingType ==
  ASSUME NEW c \in Seq(Lines)
  PROVE  \A i \in 0..Len(c) : Merging(c)[i] \in States
<1> DEFINE Bad == {i \in 0..Len(c) : Merging(c)[i] \notin States}
<1>1. 0 \notin Bad
  <2>1. Before \in States
    BY EmptySeq DEF Before, States
  <2>2. Merging(c)[0] = Before
    BY MergingSteps
  <2> QED
    BY <2>1, <2>2
<1>2. ASSUME NEW i \in Bad, i > 0, i - 1 \notin Bad PROVE FALSE
  <2>1. i \in 1..Len(c) /\ i - 1 \in 0..Len(c)
    BY <1>2
  <2>2. Merging(c)[i - 1] \in States /\ c[i] \in Lines
    BY <1>2, <2>1
  <2>3. Merging(c)[i] = MergeLine(Merging(c)[i - 1], c[i])
    BY <2>1, MergingSteps
  <2>4. Merging(c)[i] \in States
    BY <2>2, <2>3, OpeningStep, CopyingStep, DroppingStep
  <2> QED
    BY <2>4
<1> HIDE DEF Bad
<1>3. Len(c) \in Nat /\ Bad \subseteq 0..Len(c)
  BY DEF Bad
<1>4. Bad = {}
  BY <1>1, <1>2, <1>3, NoneFirst
<1> QED
  BY <1>4 DEF Bad

\* What line i adds to the output, and what it leaves as it is.
LEMMA LineAdds ==
  ASSUME NEW c \in Seq(Lines), NEW i \in 1..Len(c)
  PROVE  /\ c[i] \in Lines /\ i - 1 \in 0..Len(c)
         /\ Out(c, i) \in Seq(Lines) /\ Out(c, i - 1) \in Seq(Lines)
         /\ Len(Out(c, i - 1)) <= Len(Out(c, i))
         /\ \A k \in 1..Len(Out(c, i - 1)) : Out(c, i)[k] = Out(c, i - 1)[k]
         /\ Dropped(c, i) => Out(c, i) = Out(c, i - 1)
         /\ ~Dropped(c, i) => Out(c, i)[Place(c, i)] = c[i]
         /\ ~Dropped(c, i) /\ ~LooksLikeTerminal(c[i]) => Len(Out(c, i)) = Place(c, i)
         /\ LooksLikeTerminal(c[i]) => /\ Len(Out(c, i)) = Place(c, i) + 2
                           /\ Out(c, i)[Place(c, i) + 1] = Managed[1]
                           /\ Out(c, i)[Place(c, i) + 2] = Managed[2]
<1> DEFINE d == Merging(c)[i - 1]
           e == Merging(c)[i]
<1>1. c[i] \in Lines /\ i - 1 \in 0..Len(c) /\ i \in 0..Len(c)
  OBVIOUS
<1>2. d \in States /\ e \in States /\ e = MergeLine(d, c[i])
  BY <1>1, MergingType, MergingSteps
<1>3. Out(c, i) = e.out /\ Out(c, i - 1) = d.out /\ Place(c, i) = Len(d.out) + 1
  BY DEF Out, Place
<1>4. Dropped(c, i) <=> c[i].form # "table" /\ Replaced(d.inTerminal, c[i])
  BY DEF Dropped
<1> HIDE DEF d, e
<1>5. e.out \in Seq(Lines) /\ d.out \in Seq(Lines) /\ Len(d.out) \in Nat
  BY <1>2 DEF States
<1>6. CASE LooksLikeTerminal(c[i])
  <2>1. ~Dropped(c, i)
    BY <1>4, <1>6 DEF LooksLikeTerminal
  <2>2. /\ Len(e.out) = Len(d.out) + 3
        /\ \A k \in 1..Len(d.out) : e.out[k] = d.out[k]
        /\ e.out[Len(d.out) + 1] = c[i]
        /\ e.out[Len(d.out) + 2] = Managed[1] /\ e.out[Len(d.out) + 3] = Managed[2]
    BY <1>1, <1>2, <1>6, OpeningStep, SMTT(60)
  <2>3. Place(c, i) + 1 = Len(d.out) + 2 /\ Place(c, i) + 2 = Len(d.out) + 3
    BY <1>3, <1>5
  <2> QED
    BY <1>1, <1>3, <1>5, <1>6, <2>1, <2>2, <2>3, SMTT(60)
<1>7. CASE ~LooksLikeTerminal(c[i]) /\ ~Dropped(c, i)
  <2>1. /\ Len(e.out) = Len(d.out) + 1
        /\ \A k \in 1..Len(d.out) : e.out[k] = d.out[k]
        /\ e.out[Len(d.out) + 1] = c[i]
    BY <1>1, <1>2, <1>4, <1>7, CopyingStep, SMTT(60)
  <2> QED
    BY <1>1, <1>3, <1>5, <1>7, <2>1
<1>8. CASE Dropped(c, i)
  <2>1. ~LooksLikeTerminal(c[i])
    BY <1>4, <1>8 DEF LooksLikeTerminal
  <2>2. e = d
    BY <1>2, <1>4, <1>8, DroppingStep
  <2> QED
    BY <1>1, <1>3, <1>5, <1>8, <2>1, <2>2
<1> QED
  BY <1>6, <1>7, <1>8

\* What is out stays out.
LEMMA OutGrows ==
  ASSUME NEW c \in Seq(Lines), NEW i \in 0..Len(c)
  PROVE  \A j \in i..Len(c) :
           /\ Len(Out(c, j)) \in Nat /\ Len(Out(c, i)) <= Len(Out(c, j))
           /\ \A k \in 1..Len(Out(c, i)) : Out(c, j)[k] = Out(c, i)[k]
<1> DEFINE Good(j) == /\ Len(Out(c, i)) <= Len(Out(c, j))
                      /\ \A k \in 1..Len(Out(c, i)) : Out(c, j)[k] = Out(c, i)[k]
           Bad == {j \in 0..Len(c) : j >= i /\ ~Good(j)}
<1>1. \A j \in 0..Len(c) : Len(Out(c, j)) \in Nat
  BY MergingType DEF States, Out
<1>2. Good(i)
  BY <1>1
<1>3. 0 \notin Bad
  BY <1>2
<1>4. ASSUME NEW j \in Bad, j > 0, j - 1 \notin Bad PROVE FALSE
  <2>1. j \in 1..Len(c) /\ j - 1 \in 0..Len(c) /\ j >= i
    BY <1>4
  <2>2. CASE j = i
    BY <1>2, <1>4, <2>2
  <2>3. CASE j # i
    <3>1. Good(j - 1)
      BY <1>4, <2>1, <2>3
    <3>2. /\ \A k \in 1..Len(Out(c, j - 1)) : Out(c, j)[k] = Out(c, j - 1)[k]
          /\ Len(Out(c, j - 1)) <= Len(Out(c, j))
      BY <2>1, LineAdds
    <3>3. Len(Out(c, i)) \in Nat /\ Len(Out(c, j - 1)) \in Nat /\ Len(Out(c, j)) \in Nat
      BY <1>1, <2>1
    <3>4. Good(j)
      BY <3>1, <3>2, <3>3
    <3> QED
      BY <1>4, <3>4
  <2> QED
    BY <2>2, <2>3
<1>5. Len(c) \in Nat /\ Bad \subseteq 0..Len(c)
  OBVIOUS
<1> HIDE DEF Bad
<1>6. Bad = {}
  BY <1>3, <1>4, <1>5, NoneFirst
<1> QED
  BY <1>1, <1>6, SMTT(60) DEF Bad

\* The lines that are copied keep their order.
LEMMA PlacesGrow ==
  ASSUME NEW c \in Seq(Lines), NEW i \in 1..Len(c), ~Dropped(c, i)
  PROVE  /\ Place(c, i) \in Nat \ {0}
         /\ Place(c, i) <= Len(Out(c, i))
         /\ \A j \in 1..Len(c) : i < j =>
              /\ Place(c, j) \in Nat /\ Place(c, i) < Place(c, j)
              /\ LooksLikeTerminal(c[i]) => Place(c, i) + 2 < Place(c, j)
<1>1. \A j \in 0..Len(c) : Len(Out(c, j)) \in Nat
  BY MergingType DEF States, Out
<1>2. i \in 0..Len(c) /\ i - 1 \in 0..Len(c)
  OBVIOUS
<1>3. /\ Place(c, i) \in Nat \ {0} /\ Place(c, i) = Len(Out(c, i - 1)) + 1
      /\ Place(c, i) <= Len(Out(c, i))
      /\ LooksLikeTerminal(c[i]) => Place(c, i) + 2 = Len(Out(c, i))
  <2>1. /\ ~LooksLikeTerminal(c[i]) => Len(Out(c, i)) = Place(c, i)
        /\ LooksLikeTerminal(c[i]) => Len(Out(c, i)) = Place(c, i) + 2
    BY LineAdds
  <2>2. Place(c, i) = Len(Out(c, i - 1)) + 1
    BY DEF Place
  <2> QED
    BY <1>1, <1>2, <2>1, <2>2
<1>4. ASSUME NEW j \in 1..Len(c), i < j
      PROVE  Place(c, j) \in Nat /\ Len(Out(c, i)) < Place(c, j)
  <2>1. j - 1 \in i..Len(c) /\ j - 1 \in 0..Len(c)
    BY <1>4
  <2>2. Len(Out(c, i)) <= Len(Out(c, j - 1))
    BY <1>2, <2>1, OutGrows
  <2>3. Place(c, j) = Len(Out(c, j - 1)) + 1
    BY DEF Place
  <2> QED
    BY <1>1, <1>2, <2>1, <2>2, <2>3
<1> QED
  BY <1>1, <1>2, <1>3, <1>4

\* Where a line of the output comes from.
LEMMA OutFrom ==
  ASSUME NEW c \in Seq(Lines)
  PROVE  \A i \in 0..Len(c) : \A k \in 1..Len(Out(c, i)) :
           \E j \in 1..i : /\ ~Dropped(c, j)
                           /\ \/ k = Place(c, j)
                              \/ LooksLikeTerminal(c[j]) /\ k \in {Place(c, j) + 1, Place(c, j) + 2}
<1> DEFINE From(j, k) == /\ ~Dropped(c, j)
                         /\ \/ k = Place(c, j)
                            \/ LooksLikeTerminal(c[j]) /\ k \in {Place(c, j) + 1, Place(c, j) + 2}
           Good(i) == \A k \in 1..Len(Out(c, i)) : \E j \in 1..i : From(j, k)
           Bad == {i \in 0..Len(c) : ~Good(i)}
<1>1. 0 \notin Bad
  <2>1. Out(c, 0) = <<>>
    BY MergingSteps DEF Out, Before
  <2> QED
    BY <2>1
<1>2. ASSUME NEW i \in Bad, i > 0, i - 1 \notin Bad PROVE FALSE
  <2>1. i \in 1..Len(c) /\ i - 1 \in 0..Len(c) /\ i \in 0..Len(c)
    BY <1>2
  <2>2. Good(i - 1)
    BY <1>2, <2>1
  <2>3. Len(Out(c, i)) \in Nat /\ Len(Out(c, i - 1)) \in Nat
    BY <2>1, MergingType DEF States, Out
  <2>4. ASSUME NEW k \in 1..Len(Out(c, i)) PROVE \E j \in 1..i : From(j, k)
    <3>1. CASE k <= Len(Out(c, i - 1))
      <4>1. \E j \in 1..(i - 1) : From(j, k)
        BY <2>2, <2>3, <3>1
      <4>2. 1..(i - 1) \subseteq 1..i
        BY <2>1
      <4> QED
        BY <4>1, <4>2
    <3>2. CASE k > Len(Out(c, i - 1))
      <4> HIDE DEF Good, Bad
      <4>1. Place(c, i) = Len(Out(c, i - 1)) + 1
        BY DEF Place
      <4>2. ~Dropped(c, i)
        BY <2>1, <2>3, <3>2, LineAdds
      <4>3. /\ ~LooksLikeTerminal(c[i]) => Len(Out(c, i)) = Place(c, i)
            /\ LooksLikeTerminal(c[i]) => Len(Out(c, i)) = Place(c, i) + 2
        BY <2>1, <4>2, LineAdds
      <4>4. From(i, k)
        BY <2>3, <3>2, <4>1, <4>2, <4>3
      <4>5. i \in 1..i
        BY <2>1
      <4> QED
        BY <4>4, <4>5
    <3> QED
      BY <2>3, <3>1, <3>2
  <2> QED
    BY <1>2, <2>4
<1>3. Len(c) \in Nat /\ Bad \subseteq 0..Len(c)
  OBVIOUS
<1>4. Bad = {}
  <2> HIDE DEF Bad
  <2> QED
    BY <1>1, <1>2, <1>3, NoneFirst
<1> QED
  BY <1>4

\* The flags of the loop say what they are called.
LEMMA FlagsSay ==
  ASSUME NEW c \in Seq(Lines)
  PROVE  \A i \in 0..Len(c) :
           /\ Merging(c)[i].found <=> \E j \in 1..i : LooksLikeTerminal(c[j])
           /\ Merging(c)[i].inTerminal <=> LastTableIsTerminal(c, i)
<1> DEFINE Good(i) == /\ Merging(c)[i].found <=> \E j \in 1..i : LooksLikeTerminal(c[j])
                      /\ Merging(c)[i].inTerminal <=>
                           \E j \in 1..i : /\ LooksLikeTerminal(c[j])
                                           /\ \A k \in 1..i : c[k].form = "table" => k <= j
           Bad == {i \in 0..Len(c) : ~Good(i)}
<1>1. 0 \notin Bad
  BY MergingSteps DEF Before
<1>2. ASSUME NEW i \in Bad, i > 0, i - 1 \notin Bad PROVE FALSE
  <2>1. i \in 1..Len(c) /\ i - 1 \in 0..Len(c) /\ i \in 0..Len(c) /\ c[i] \in Lines
    BY <1>2
  <2>2. Good(i - 1)
    BY <1>2, <2>1
  <2> DEFINE d == Merging(c)[i - 1]
             e == Merging(c)[i]
  <2>3. d \in States /\ e \in States /\ e = MergeLine(d, c[i])
    BY <2>1, MergingType, MergingSteps
  <2>4. /\ 1..i = 1..(i - 1) \cup {i} /\ i \notin 1..(i - 1)
        /\ \A j \in 1..(i - 1) : j <= i /\ ~(i <= j)
    BY <2>1
  <2>5. CASE LooksLikeTerminal(c[i])
    <3>1. e.found /\ e.inTerminal
      BY <2>1, <2>3, <2>5, OpeningStep
    <3>2. i <= i
      BY <2>1
    <3> QED
      BY <1>2, <2>4, <2>5, <3>1, <3>2
  <2>6. CASE ~LooksLikeTerminal(c[i]) /\ c[i].form = "table"
    <3>1. e.found = d.found /\ e.inTerminal = (d.inTerminal /\ c[i].form # "table")
      BY <2>1, <2>3, <2>6, CopyingStep
    <3> QED
      BY <1>2, <2>2, <2>4, <2>6, <3>1
  <2>7. CASE c[i].form # "table"
    <3>1. ~LooksLikeTerminal(c[i])
      BY <2>7 DEF LooksLikeTerminal
    <3>2. e.found = d.found /\ e.inTerminal = d.inTerminal
      <4>1. d.inTerminal \in BOOLEAN
        BY <2>3 DEF States
      <4> QED
        BY <2>1, <2>3, <2>7, <3>1, <4>1, CopyingStep, DroppingStep
    <3> QED
      BY <1>2, <2>2, <2>4, <2>7, <3>1, <3>2
  <2> QED
    BY <2>5, <2>6, <2>7
<1>3. Len(c) \in Nat /\ Bad \subseteq 0..Len(c)
  OBVIOUS
<1>4. Bad = {}
  <2> HIDE DEF Bad
  <2> QED
    BY <1>1, <1>2, <1>3, NoneFirst
<1>5. \A i \in 0..Len(c) : Good(i)
  BY <1>4
<1>6. \A i \in 0..Len(c) :
        LastTableIsTerminal(c, i) <=>
          \E j \in 1..i : /\ LooksLikeTerminal(c[j])
                          /\ \A k \in 1..i : c[k].form = "table" => k <= j
  BY DEF LastTableIsTerminal, LooksLikeTerminal
<1> QED
  BY <1>5, <1>6

-----------------------------------------------------------------------------
(* The merged config. *)

OwnTable == <<Fleet("table", "terminal")>> \o Managed
End(c) == Len(Out(c, Len(c)))

\* It is what the loop put out, and [terminal] if there was none.
LEMMA MergedIs ==
  ASSUME NEW c \in Seq(Lines)
  PROVE  LET m == Merge(c) IN
         /\ m \in Seq(Lines) /\ End(c) \in Nat /\ End(c) <= Len(m)
         /\ \A k \in 1..End(c) : m[k] = Out(c, Len(c))[k]
         /\ (\E j \in 1..Len(c) : LooksLikeTerminal(c[j])) => Len(m) = End(c)
         /\ ~(\E j \in 1..Len(c) : LooksLikeTerminal(c[j])) =>
              /\ Len(m) = End(c) + 3
              /\ m[End(c) + 1] = Fleet("table", "terminal")
              /\ m[End(c) + 2] = Managed[1] /\ m[End(c) + 3] = Managed[2]
<1> DEFINE out == Out(c, Len(c))
           found == Merging(c)[Len(c)].found
           head == <<Fleet("table", "terminal")>>
<1>1. Len(c) \in 0..Len(c) /\ Len(c) \in Nat
  OBVIOUS
<1>2. out \in Seq(Lines) /\ Len(out) \in Nat /\ End(c) = Len(out)
  BY <1>1, MergingType DEF States, Out, End
<1>3. found <=> \E j \in 1..Len(c) : LooksLikeTerminal(c[j])
  BY <1>1, FlagsSay
<1>4. /\ OwnTable \in Seq(Lines) /\ Len(OwnTable) = 3
      /\ OwnTable[1] = Fleet("table", "terminal")
      /\ OwnTable[2] = Managed[1] /\ OwnTable[3] = Managed[2]
  <2>1. /\ head \in Seq(Lines) /\ Len(head) = 1 /\ head[1] = Fleet("table", "terminal")
        /\ Managed \in Seq(Lines) /\ Len(Managed) = 2
    BY ManagedIsLines
  <2> HIDE DEF head
  <2>2. head \in Seq(Lines) /\ Managed \in Seq(Lines)
    BY <2>1
  <2>3. /\ head \o Managed \in Seq(Lines) /\ Len(head \o Managed) = Len(head) + Len(Managed)
        /\ \A k \in 1..Len(head) : (head \o Managed)[k] = head[k]
        /\ \A k \in 1..Len(Managed) : (head \o Managed)[Len(head) + k] = Managed[k]
    BY <2>2, ConcatAt
  <2>4. OwnTable = head \o Managed
    BY DEF OwnTable, head
  <2> QED
    BY <2>1, <2>3, <2>4
<1>5. CASE found
  <2>1. Merge(c) = out \o <<>>
    BY <1>5 DEF Merge, Out
  <2>2. Merge(c) = out
    BY <1>2, <2>1, ConcatEmptySeq
  <2> QED
    BY <1>2, <1>3, <1>5, <2>2
<1>6. CASE ~found
  <2>1. Merge(c) = out \o OwnTable
    BY <1>6 DEF Merge, Out, OwnTable
  <2> HIDE DEF out, found
  <2>2. out \in Seq(Lines) /\ OwnTable \in Seq(Lines)
    BY <1>2, <1>4
  <2>3. /\ out \o OwnTable \in Seq(Lines) /\ Len(out \o OwnTable) = Len(out) + Len(OwnTable)
        /\ \A k \in 1..Len(out) : (out \o OwnTable)[k] = out[k]
        /\ \A k \in 1..Len(OwnTable) : (out \o OwnTable)[Len(out) + k] = OwnTable[k]
    BY <2>2, ConcatAt
  <2>4. /\ Len(Merge(c)) = End(c) + 3 /\ Merge(c) \in Seq(Lines)
        /\ \A k \in 1..End(c) : Merge(c)[k] = out[k]
    BY <1>2, <1>4, <2>1, <2>3
  <2>5. Merge(c)[End(c) + 1] = OwnTable[1] /\ Merge(c)[End(c) + 2] = OwnTable[2]
        /\ Merge(c)[End(c) + 3] = OwnTable[3]
    BY <1>2, <1>4, <2>1, <2>3
  <2> QED
    BY <1>2, <1>3, <1>4, <1>6, <2>4, <2>5 DEF out
<1> QED
  BY <1>5, <1>6

\* A line that is not dropped stands at its place, with the managed lines after
\* it if it opens [terminal].
LEMMA CopiedAt ==
  ASSUME NEW c \in Seq(Lines), NEW i \in 1..Len(c), ~Dropped(c, i)
  PROVE  LET m == Merge(c) IN
         /\ Place(c, i) \in 1..End(c) /\ Place(c, i) \in DOMAIN m /\ m[Place(c, i)] = c[i]
         /\ LooksLikeTerminal(c[i]) =>
              /\ Place(c, i) + 1 \in 1..End(c) /\ m[Place(c, i) + 1] = Managed[1]
              /\ Place(c, i) + 2 \in 1..End(c) /\ m[Place(c, i) + 2] = Managed[2]
<1>1. /\ i \in 0..Len(c) /\ Len(c) \in i..Len(c) /\ Len(c) \in Nat
      /\ Merge(c) \in Seq(Lines) /\ End(c) \in Nat /\ End(c) <= Len(Merge(c))
  BY MergedIs
<1>2. /\ Place(c, i) \in Nat \ {0} /\ Place(c, i) <= Len(Out(c, i))
      /\ LooksLikeTerminal(c[i]) => Place(c, i) + 2 = Len(Out(c, i))
  BY PlacesGrow, LineAdds
<1>3. /\ Len(Out(c, i)) \in Nat /\ Len(Out(c, i)) <= End(c)
      /\ \A k \in 1..Len(Out(c, i)) : Out(c, Len(c))[k] = Out(c, i)[k]
  <2>1. i \in i..Len(c)
    OBVIOUS
  <2> QED
    BY <1>1, <2>1, OutGrows DEF End
<1>4. \A k \in 1..Len(Out(c, i)) : k \in 1..End(c) /\ Merge(c)[k] = Out(c, i)[k]
  <2>1. \A k \in 1..Len(Out(c, i)) : k \in 1..End(c)
    BY <1>1, <1>3
  <2>2. \A k \in 1..End(c) : Merge(c)[k] = Out(c, Len(c))[k]
    BY MergedIs
  <2> QED
    BY <1>3, <2>1, <2>2
<1>5. Place(c, i) \in 1..Len(Out(c, i)) /\ Out(c, i)[Place(c, i)] = c[i]
  BY <1>2, <1>3, LineAdds
<1>6. LooksLikeTerminal(c[i]) =>
        /\ Place(c, i) + 1 \in 1..Len(Out(c, i)) /\ Out(c, i)[Place(c, i) + 1] = Managed[1]
        /\ Place(c, i) + 2 \in 1..Len(Out(c, i)) /\ Out(c, i)[Place(c, i) + 2] = Managed[2]
  BY <1>2, <1>3, LineAdds, SMTT(60)
<1>7. \A k \in 1..End(c) : k \in DOMAIN Merge(c)
  BY <1>1
<1> QED
  BY <1>4, <1>5, <1>6, <1>7

-----------------------------------------------------------------------------
(* Headers. *)

\* A set of natural numbers up to a bound has a greatest element.
LEMMA GreatestOf ==
  ASSUME NEW n \in Nat, NEW S, S \subseteq 1..n, S # {}
  PROVE  \E x \in S : \A y \in S : y <= x
<1> DEFINE T == {n - x : x \in S}
<1>1. T \subseteq Nat /\ T # {}
  OBVIOUS
<1>2. PICK t \in T : \A u \in T : t <= u
  BY <1>1, LeastOf
<1>3. PICK x \in S : t = n - x
  OBVIOUS
<1>4. ASSUME NEW y \in S PROVE y <= x
  <2>1. t <= n - y
    BY <1>2
  <2>2. x \in 1..n /\ y \in 1..n
    OBVIOUS
  <2> QED
    BY <1>3, <2>1, <2>2
<1> QED
  BY <1>4

\* The header of a line is the last one down to it.
LEMMA HeaderIs ==
  ASSUME NEW s, NEW i \in Nat
  PROVE  /\ HeaderOf(s, i) \in 0..i
         /\ HeaderOf(s, i) = 0 => HeadersTo(s, i) = {}
         /\ HeaderOf(s, i) # 0 => /\ HeaderOf(s, i) \in HeadersTo(s, i)
                                  /\ \A k \in HeadersTo(s, i) : k <= HeaderOf(s, i)
<1>1. HeadersTo(s, i) \subseteq 1..i
  BY DEF HeadersTo
<1>2. CASE HeadersTo(s, i) = {}
  BY <1>2 DEF HeaderOf
<1>3. CASE HeadersTo(s, i) # {}
  <2>1. \E h \in HeadersTo(s, i) : \A k \in HeadersTo(s, i) : k <= h
    BY <1>1, <1>3, GreatestOf
  <2>2. HeaderOf(s, i) = CHOOSE h \in HeadersTo(s, i) : \A k \in HeadersTo(s, i) : k <= h
    BY <1>3 DEF HeaderOf
  <2>3. HeaderOf(s, i) \in HeadersTo(s, i) /\ \A k \in HeadersTo(s, i) : k <= HeaderOf(s, i)
    BY <2>1, <2>2
  <2>4. HeaderOf(s, i) \in 1..i
    BY <1>1, <2>3
  <2> QED
    BY <2>3, <2>4
<1> QED
  BY <1>2, <1>3

\* And that characterizes it.
LEMMA HeaderIsThe ==
  ASSUME NEW s, NEW i \in Nat, NEW h \in HeadersTo(s, i), \A k \in HeadersTo(s, i) : k <= h
  PROVE  HeaderOf(s, i) = h
<1>1. HeadersTo(s, i) \subseteq 1..i
  BY DEF HeadersTo
<1>2. HeaderOf(s, i) # 0
  BY HeaderIs
<1>3. HeaderOf(s, i) \in HeadersTo(s, i) /\ HeaderOf(s, i) >= h
  BY <1>2, HeaderIs
<1>4. HeaderOf(s, i) <= h /\ h \in 1..i /\ HeaderOf(s, i) \in 1..i
  BY <1>1, <1>3
<1> QED
  BY <1>3, <1>4

-----------------------------------------------------------------------------
(* What is open. *)

IsReading(f, c, n) ==
  f = [i \in 0..n |-> IF i = 0 THEN Nothing ELSE After(f[i - 1], c[i])]

\* Each line turns what the one before it has left open.
LEMMA OpenSteps ==
  ASSUME NEW c \in Seq(Lines)
  PROVE  /\ OpenAfter(c)[0] = Nothing
         /\ \A i \in 1..Len(c) : OpenAfter(c)[i] = After(OpenAfter(c)[i - 1], c[i])
<1> DEFINE Bad == {n \in 0..Len(c) : ~ \E f : IsReading(f, c, n)}
<1>1. 0 \notin Bad
  <2>1. IsReading([i \in 0..0 |-> Nothing], c, 0)
    BY DEF IsReading
  <2> QED
    BY <2>1
<1>2. ASSUME NEW n \in Bad, n > 0, n - 1 \notin Bad PROVE FALSE
  <2>1. n \in Nat /\ n - 1 \in 0..Len(c)
    BY <1>2
  <2>2. PICK g : IsReading(g, c, n - 1)
    BY <1>2, <2>1
  <2> DEFINE f == [i \in 0..n |-> IF i = n THEN After(g[n - 1], c[n]) ELSE g[i]]
  <2>3. \A i \in 0..(n - 1) : g[i] = IF i = 0 THEN Nothing ELSE After(g[i - 1], c[i])
    BY <2>1, <2>2 DEF IsReading
  <2>4. \A i \in 0..n : i # n => i \in 0..(n - 1) /\ (i # 0 => i - 1 \in 0..n /\ i - 1 # n)
    BY <2>1
  <2>5. f[n - 1] = g[n - 1]
    BY <1>2, <2>1
  <2>6. ASSUME NEW i \in 0..n
        PROVE  f[i] = IF i = 0 THEN Nothing ELSE After(f[i - 1], c[i])
    <3>1. CASE i = n
      BY <1>2, <2>1, <2>5, <3>1
    <3>2. CASE i # n /\ i = 0
      BY <2>3, <2>4, <3>2
    <3>3. CASE i # n /\ i # 0
      <4>1. f[i] = g[i] /\ f[i - 1] = g[i - 1]
        BY <2>4, <3>3
      <4>2. g[i] = After(g[i - 1], c[i])
        BY <2>3, <2>4, <3>3
      <4> QED
        BY <4>1, <4>2, <3>3
    <3> QED
      BY <3>1, <3>2, <3>3
  <2> HIDE DEF f
  <2>7. f = [i \in 0..n |-> f[i]]
    BY DEF f
  <2>8. IsReading(f, c, n)
    BY <2>6, <2>7 DEF IsReading
  <2> QED
    BY <2>8
<1>3. Bad = {}
  <2> HIDE DEF Bad
  <2>1. Len(c) \in Nat /\ Bad \subseteq 0..Len(c)
    BY DEF Bad
  <2> QED
    BY <1>1, <1>2, <2>1, NoneFirst
<1>4. \E f : IsReading(f, c, Len(c))
  <2>1. Len(c) \in 0..Len(c)
    OBVIOUS
  <2> QED
    BY <1>3, <2>1
<1>5. IsReading(OpenAfter(c), c, Len(c))
  BY <1>4 DEF IsReading, OpenAfter
<1> QED
  BY <1>5 DEF IsReading

\* A line that breaks the file leaves it broken.
LEMMA NeverBroken ==
  ASSUME NEW c \in Seq(Lines), Valid(c)
  PROVE  \A i \in 0..Len(c) : OpenAfter(c)[i] # Broken
<1> DEFINE n == Len(c)
           Bad == {j \in 0..n : OpenAfter(c)[n - j] = Broken}
<1>1. n \in Nat /\ n - 0 = n
  OBVIOUS
<1>2. 0 \notin Bad
  BY <1>1 DEF Valid, Nothing, Broken
<1>3. ASSUME NEW j \in Bad, j > 0, j - 1 \notin Bad PROVE FALSE
  <2>1. j \in 1..n /\ n - (j - 1) \in 1..n /\ (n - (j - 1)) - 1 = n - j /\ j - 1 \in 0..n
    BY <1>1, <1>3
  <2>2. OpenAfter(c)[n - (j - 1)] = After(OpenAfter(c)[n - j], c[n - (j - 1)])
    BY <2>1, OpenSteps
  <2>3. OpenAfter(c)[n - (j - 1)] = Broken
    BY <1>3, <2>2 DEF After
  <2> QED
    BY <1>3, <2>1, <2>3
<1>4. Bad = {}
  <2>1. Bad \subseteq 0..n
    OBVIOUS
  <2> HIDE DEF Bad
  <2> QED
    BY <1>1, <1>2, <1>3, <2>1, NoneFirst
<1>5. ASSUME NEW i \in 0..n PROVE OpenAfter(c)[i] # Broken
  <2>1. n - i \in 0..n /\ n - (n - i) = i
    BY <1>1
  <2>2. n - i \notin Bad
    BY <1>4
  <2> QED
    BY <2>1, <2>2
<1> QED
  BY <1>5

\* A line that opens nothing leaves nothing open.
LEMMA NothingOpens ==
  ASSUME NEW c \in Seq(Lines), NEW i \in 1..Len(c), Begins(c, i)
  PROVE  /\ OpenAfter(c)[i] = c[i].turns[Nothing]
         /\ c[i].form \notin {"key", "dotted"} => OpenAfter(c)[i] \in {Nothing, Broken}
<1>1. OpenAfter(c)[i] = After(Nothing, c[i])
  BY OpenSteps DEF Begins
<1>2. OpenAfter(c)[i] = c[i].turns[Nothing]
  BY <1>1 DEF After, Nothing, Broken
<1>3. c[i] \in Lines
  OBVIOUS
<1> QED
  BY <1>2, <1>3 DEF Lines

-----------------------------------------------------------------------------
(* Paths. *)

\* The two forms of a path.
RootPath(line) ==
  [table |-> IF line.form = "dotted" THEN "terminal" ELSE "", element |-> 0,
   inner |-> FALSE, key |-> line.name]
TablePath(header, n, line) ==
  [table |-> header.name, element |-> IF header.form = "array" THEN n ELSE 0,
   inner |-> line.form = "dotted", key |-> line.name]
ManagedPath(name) ==
  [table |-> "terminal", element |-> 0, inner |-> FALSE, key |-> name]

LEMMA PathIs ==
  ASSUME NEW s, NEW i \in Nat
  PROVE  LET h == HeaderOf(s, i) IN
         /\ h = 0 => PathOf(s, i) = RootPath(s[i])
         /\ h # 0 => PathOf(s, i) = TablePath(s[h], Cardinality(HeadersTo(s, i)), s[i])
<1> DEFINE h == HeaderOf(s, i)
<1>1. h \in Nat
  BY HeaderIs
<1>2. CASE h = 0
  BY <1>2 DEF PathOf, RootPath
<1>3. CASE h # 0
  <2>1. h > 0
    BY <1>1, <1>3
  <2> QED
    BY <1>3, <2>1 DEF PathOf, TablePath
<1> QED
  BY <1>2, <1>3

\* A managed setting has no other path than that of its name.
LEMMA ManagedPathIs ==
  ASSUME NEW s, NEW i \in Nat, IsManaged(PathOf(s, i))
  PROVE  PathOf(s, i) = ManagedPath(s[i].name)
<1>1. ASSUME NEW line, IsManaged(RootPath(line)) PROVE RootPath(line) = ManagedPath(line.name)
  <2>1. RootPath(line).table = "terminal"
    BY <1>1 DEF IsManaged
  <2>2. line.form = "dotted"
    BY <2>1 DEF RootPath
  <2> QED
    BY <2>2 DEF RootPath, ManagedPath
<1>2. ASSUME NEW head, NEW n, NEW line, IsManaged(TablePath(head, n, line))
      PROVE  TablePath(head, n, line) = ManagedPath(line.name)
  <2>1. /\ TablePath(head, n, line).table = "terminal" /\ TablePath(head, n, line).element = 0
        /\ ~TablePath(head, n, line).inner
    BY <1>2 DEF IsManaged
  <2>2. head.name = "terminal" /\ (IF head.form = "array" THEN n ELSE 0) = 0
        /\ line.form # "dotted"
    BY <2>1 DEF TablePath
  <2>3. (line.form = "dotted") = FALSE
    BY <2>2
  <2> QED
    BY <2>2, <2>3 DEF TablePath, ManagedPath
<1> QED
  BY <1>1, <1>2, PathIs

\* The keys right after a header of [terminal] are in it.
LEMMA InTerminal ==
  ASSUME NEW s, NEW h \in Nat \ {0}, NEW k \in Nat, h < k, LooksLikeTerminal(s[h]), Begins(s, h),
         \A j \in (h + 1)..k : s[j].form = "key"
  PROVE  HeaderOf(s, k) = h /\ PathOf(s, k) = ManagedPath(s[k].name)
<1>1. h \in HeadersTo(s, k)
  BY DEF HeadersTo, LooksLikeTerminal, IsHeader
<1>2. \A j \in HeadersTo(s, k) : j <= h
  BY DEF HeadersTo, IsHeader
<1>3. HeaderOf(s, k) = h
  BY <1>1, <1>2, HeaderIsThe
<1>4. s[h].name = "terminal" /\ s[h].form # "array"
  BY DEF LooksLikeTerminal
<1>5. PathOf(s, k) = TablePath(s[h], Cardinality(HeadersTo(s, k)), s[k])
  BY <1>3, PathIs
<1>6. (s[k].form = "dotted") = FALSE
  <2>1. k \in (h + 1)..k
    OBVIOUS
  <2> QED
    BY <2>1
<1> QED
  BY <1>3, <1>4, <1>5, <1>6 DEF TablePath, ManagedPath

-----------------------------------------------------------------------------
(* Where the lines of the merged config come from, and what they mean there. *)

\* The headers of [terminal] that managed lines follow.
Opening(c, h) ==
  \/ \E j \in 1..Len(c) : LooksLikeTerminal(c[j]) /\ h = Place(c, j)
  \/ (\A j \in 1..Len(c) : ~LooksLikeTerminal(c[j])) /\ h = End(c) + 1

LEMMA HeadersAreCopied ==
  ASSUME NEW c \in Seq(Lines), NEW i \in 1..Len(c), c[i].form \in {"table", "array"}
  PROVE  ~Dropped(c, i)
BY DEF Dropped, Replaced, LooksManaged

LEMMA OpeningLines ==
  ASSUME NEW c \in Seq(Lines), NEW h, Opening(c, h)
  PROVE  LET m == Merge(c) IN
         /\ h \in Nat \ {0} /\ h \in 1..Len(m) /\ LooksLikeTerminal(m[h])
         /\ \A d \in {1, 2} : h + d \in 1..Len(m) /\ m[h + d] = Managed[d]
<1> DEFINE m == Merge(c)
           Followed == /\ h \in Nat \ {0} /\ LooksLikeTerminal(m[h])
                       /\ h + 1 \in 1..Len(m) /\ m[h + 1] = Managed[1]
                       /\ h + 2 \in 1..Len(m) /\ m[h + 2] = Managed[2]
<1>1. Followed
  <2>1. ASSUME NEW j \in 1..Len(c), LooksLikeTerminal(c[j]), h = Place(c, j) PROVE Followed
    <3>1. ~Dropped(c, j)
      BY <2>1, HeadersAreCopied DEF LooksLikeTerminal
    <3>2. /\ Place(c, j) \in 1..End(c) /\ m[h] = c[j]
          /\ Place(c, j) + 1 \in 1..End(c) /\ m[Place(c, j) + 1] = Managed[1]
          /\ Place(c, j) + 2 \in 1..End(c) /\ m[Place(c, j) + 2] = Managed[2]
      BY <2>1, <3>1, CopiedAt
    <3>3. m \in Seq(Lines) /\ End(c) \in Nat /\ End(c) <= Len(m)
      BY MergedIs
    <3>4. 1..End(c) \subseteq 1..Len(m)
      BY <3>3
    <3> QED
      BY <2>1, <3>2, <3>3, <3>4
  <2>2. ASSUME \A j \in 1..Len(c) : ~LooksLikeTerminal(c[j]), h = End(c) + 1 PROVE Followed
    <3>1. /\ m \in Seq(Lines) /\ End(c) \in Nat /\ Len(m) = End(c) + 3
          /\ m[End(c) + 1] = Fleet("table", "terminal")
          /\ m[End(c) + 2] = Managed[1] /\ m[End(c) + 3] = Managed[2]
      BY <2>2, MergedIs
    <3>2. LooksLikeTerminal(m[h])
      BY <2>2, <3>1 DEF LooksLikeTerminal, Fleet
    <3>3. h + 1 = End(c) + 2 /\ h + 2 = End(c) + 3
      BY <2>2, <3>1
    <3> QED
      BY <2>2, <3>1, <3>2, <3>3
  <2> QED
    BY <2>1, <2>2 DEF Opening
<1>2. m \in Seq(Lines) /\ Len(m) \in Nat
  BY MergedIs
<1>3. h \in 1..Len(m)
  BY <1>1, <1>2
<1> QED
  BY <1>1, <1>3

\* Where such a header begins, so do the managed settings, and nothing is open
\* after them.
LEMMA OpeningIs ==
  ASSUME NEW c \in Seq(Lines), NEW h, Opening(c, h),
         Begins(Merge(c), h), OpenAfter(Merge(c))[h] # Broken
  PROVE  LET m == Merge(c) IN
         /\ IsHeader(m, h) /\ OpenAfter(m)[h + 2] = Nothing
         /\ \A d \in {1, 2} :
              /\ IsSetting(m, h + d) /\ HeaderOf(m, h + d) = h
              /\ PathOf(m, h + d) = ManagedPath(Managed[d].name)
<1> DEFINE m == Merge(c)
<1>1. /\ m \in Seq(Lines) /\ h \in Nat \ {0} /\ h \in 1..Len(m) /\ LooksLikeTerminal(m[h])
      /\ \A d \in {1, 2} : h + d \in 1..Len(m) /\ m[h + d] = Managed[d]
  BY MergedIs, OpeningLines
<1>2. h + 1 \in 1..Len(m) /\ h + 2 \in 1..Len(m) /\ (h + 1) - 1 = h /\ (h + 2) - 1 = h + 1
  BY <1>1
<1>3. Begins(m, h) /\ OpenAfter(m)[h] # Broken
  OBVIOUS
<1> HIDE DEF m
<1>4. OpenAfter(m)[h] = Nothing
  <2>1. m[h].form \notin {"key", "dotted"}
    BY <1>1 DEF LooksLikeTerminal
  <2> QED
    BY <1>1, <1>3, <2>1, NothingOpens
<1>5. \A d \in {1, 2} : Managed[d].form = "key" /\ Managed[d].turns[Nothing] = Nothing
  BY ManagedForm
<1>6. Begins(m, h + 1) /\ OpenAfter(m)[h + 1] = Nothing
  <2>1. Begins(m, h + 1)
    BY <1>2, <1>4 DEF Begins
  <2>2. OpenAfter(m)[h + 1] = m[h + 1].turns[Nothing]
    BY <1>1, <1>2, <2>1, NothingOpens
  <2> QED
    BY <1>1, <1>5, <2>1, <2>2
<1>7. Begins(m, h + 2) /\ OpenAfter(m)[h + 2] = Nothing
  <2>1. Begins(m, h + 2)
    BY <1>2, <1>6 DEF Begins
  <2>2. OpenAfter(m)[h + 2] = m[h + 2].turns[Nothing]
    BY <1>1, <1>2, <2>1, NothingOpens
  <2> QED
    BY <1>1, <1>5, <2>1, <2>2
<1>8. IsHeader(m, h)
  BY <1>1, <1>3 DEF IsHeader, LooksLikeTerminal
<1>9. ASSUME NEW d \in {1, 2}
      PROVE  /\ IsSetting(m, h + d) /\ HeaderOf(m, h + d) = h
             /\ PathOf(m, h + d) = ManagedPath(Managed[d].name)
  <2>1. m[h + d] = Managed[d] /\ h + d \in Nat /\ h < h + d /\ Begins(m, h + d)
    BY <1>1, <1>6, <1>7
  <2>2. IsSetting(m, h + d)
    BY <1>5, <2>1 DEF IsSetting
  <2>3. \A j \in (h + 1)..(h + d) : j = h + 1 \/ j = h + 2
    BY <1>1
  <2>4. \A j \in (h + 1)..(h + d) : m[j].form = "key"
    BY <1>1, <1>5, <2>3
  <2>5. HeaderOf(m, h + d) = h /\ PathOf(m, h + d) = ManagedPath(m[h + d].name)
    BY <1>1, <1>3, <2>1, <2>4, InTerminal
  <2> QED
    BY <2>1, <2>2, <2>5
<1> QED
  BY <1>7, <1>8, <1>9 DEF m

\* Every line is a copied one, the header at the end, or a managed one.
LEMMA MergedFrom ==
  ASSUME NEW c \in Seq(Lines), NEW k \in DOMAIN Merge(c)
  PROVE  \/ \E j \in 1..Len(c) : ~Dropped(c, j) /\ k = Place(c, j)
         \/ (\A j \in 1..Len(c) : ~LooksLikeTerminal(c[j])) /\ k = End(c) + 1
         \/ \E h : Opening(c, h) /\ \E d \in {1, 2} : k = h + d
<1> DEFINE m == Merge(c)
<1>1. /\ m \in Seq(Lines) /\ End(c) \in Nat /\ k \in 1..Len(m)
      /\ (\E j \in 1..Len(c) : LooksLikeTerminal(c[j])) => Len(m) = End(c)
      /\ ~(\E j \in 1..Len(c) : LooksLikeTerminal(c[j])) => Len(m) = End(c) + 3
  BY MergedIs
<1>2. CASE k <= End(c)
  <2>1. Len(c) \in 0..Len(c) /\ k \in 1..Len(Out(c, Len(c)))
    BY <1>1, <1>2 DEF End
  <2>2. PICK j \in 1..Len(c) : /\ ~Dropped(c, j)
                               /\ \/ k = Place(c, j)
                                  \/ LooksLikeTerminal(c[j]) /\ k \in {Place(c, j) + 1, Place(c, j) + 2}
    BY <2>1, OutFrom
  <2>3. CASE k = Place(c, j)
    BY <2>2, <2>3
  <2>4. CASE LooksLikeTerminal(c[j]) /\ k \in {Place(c, j) + 1, Place(c, j) + 2}
    <3>1. Opening(c, Place(c, j))
      BY <2>4 DEF Opening
    <3> QED
      BY <2>4, <3>1
  <2> QED
    BY <2>2, <2>3, <2>4
<1>3. CASE k > End(c)
  <2>1. (\A j \in 1..Len(c) : ~LooksLikeTerminal(c[j])) /\ k \in {End(c) + 1, End(c) + 2, End(c) + 3}
    BY <1>1, <1>3
  <2>2. CASE k = End(c) + 1
    BY <2>1, <2>2
  <2>3. CASE k \in {End(c) + 2, End(c) + 3}
    <3>1. Opening(c, End(c) + 1)
      BY <2>1 DEF Opening
    <3>2. k = (End(c) + 1) + 1 \/ k = (End(c) + 1) + 2
      BY <1>1, <2>3
    <3> QED
      BY <3>1, <3>2
  <2> QED
    BY <2>1, <2>2, <2>3
<1> QED
  BY <1>1, <1>2, <1>3

-----------------------------------------------------------------------------
(* The launcher governs. *)

\* If the result is valid and what looks like the header [terminal] is one somewhere,
\* then the launcher governs: managed lines follow that header, and no second setting
\* has the path of one.
THEOREM ValidMergeGoverns ==
  ASSUME NEW c \in Seq(Lines), Valid(Merge(c)), ShowsTerminal(Merge(c))
  PROVE  Governs(Merge(c))
<1> DEFINE m == Merge(c)
           At(name) == {i \in SettingsOf(m) : IsManaged(PathOf(m, i)) /\ m[i].name = name}
<1>1. PICK h : Opening(c, h) /\ Begins(m, h)
  <2>1. PICK k \in DOMAIN m : LooksLikeTerminal(m[k]) /\ Begins(m, k)
    <3>1. PICK g : Opening(c, g)
      BY DEF Opening
    <3>2. g \in DOMAIN m /\ LooksLikeTerminal(m[g])
      BY <3>1, OpeningLines, MergedIs
    <3> QED
      BY <3>2 DEF ShowsTerminal
  <2>2. ASSUME NEW g, Opening(c, g), NEW d \in {1, 2}, k = g + d PROVE FALSE
    <3>1. m[k] = Managed[d] /\ Managed[d].form = "key"
      BY <2>2, OpeningLines, ManagedForm
    <3> QED
      BY <2>1, <3>1 DEF LooksLikeTerminal
  <2>3. ASSUME NEW j \in 1..Len(c), ~Dropped(c, j), k = Place(c, j) PROVE Opening(c, k)
    <3>1. LooksLikeTerminal(c[j])
      BY <2>1, <2>3, CopiedAt
    <3> QED
      BY <2>3, <3>1 DEF Opening
  <2>4. Opening(c, k)
    BY <2>2, <2>3, MergedFrom DEF Opening
  <2> QED
    BY <2>1, <2>4
<1>2. \A d \in {1, 2} : /\ h + d \in 1..Len(m) /\ m[h + d] = Managed[d]
                        /\ IsSetting(m, h + d) /\ PathOf(m, h + d) = ManagedPath(Managed[d].name)
  <2>1. /\ h \in 1..Len(m) /\ LooksLikeTerminal(m[h]) /\ m \in Seq(Lines)
        /\ \A d \in {1, 2} : h + d \in 1..Len(m) /\ m[h + d] = Managed[d]
    BY <1>1, OpeningLines, MergedIs
  <2>2. Begins(m, h)
    BY <1>1
  <2>3. OpenAfter(m)[h] # Broken
    <3> HIDE DEF m
    <3>1. h \in 0..Len(m)
      BY <2>1
    <3> QED
      BY <2>1, <3>1, NeverBroken DEF m
  <2> QED
    BY <1>1, <2>1, <2>2, <2>3, OpeningIs
<1>3. ASSUME NEW d \in {1, 2}
      PROVE  h + d \in At(Managed[d].name) /\ m[h + d].by = "fleet"
  <2>1. h + d \in 1..Len(m) /\ m[h + d] = Managed[d] /\ IsSetting(m, h + d)
        /\ PathOf(m, h + d) = ManagedPath(Managed[d].name) /\ m \in Seq(Lines)
    BY <1>2, MergedIs
  <2>2. Managed[d].name \in ManagedKeys /\ Managed[d].by = "fleet"
    BY ManagedForm
  <2>3. IsManaged(PathOf(m, h + d))
    BY <2>1, <2>2 DEF IsManaged, ManagedPath
  <2> HIDE DEF m
  <2> QED
    BY <2>1, <2>2, <2>3 DEF SettingsOf
<1>4. ASSUME NEW name, NEW i \in At(name), NEW j \in At(name) PROVE i = j
  <2>1. i \in SettingsOf(m) /\ j \in SettingsOf(m) /\ m[i].name = m[j].name
    OBVIOUS
  <2>2. i \in Nat /\ j \in Nat
    BY MergedIs DEF SettingsOf
  <2> HIDE DEF m
  <2>3. PathOf(m, i) = ManagedPath(m[i].name) /\ PathOf(m, j) = ManagedPath(m[j].name)
    BY <2>2, ManagedPathIs
  <2> QED
    BY <2>1, <2>3 DEF Valid, m
<1>5. ASSUME NEW name \in ManagedKeys
      PROVE  Cardinality(At(name)) = 1 /\ \A i \in At(name) : m[i].by = "fleet"
  <2>1. PICK d \in {1, 2} : name = Managed[d].name
    BY ManagedIsLines DEF ManagedKeys, Fleet
  <2>2. h + d \in At(name) /\ m[h + d].by = "fleet"
    BY <1>3, <2>1
  <2> HIDE DEF At
  <2>3. At(name) = {h + d}
    BY <1>4, <2>2
  <2> QED
    BY <2>2, <2>3, FS_Singleton
<1> QED
  BY <1>5 DEF Governs

-----------------------------------------------------------------------------
(* Configs that the merge understands. *)

\* What looks like [terminal] is read as its header.
LEMMA TerminalIsHeader ==
  ASSUME NEW c, Understood(c), NEW i \in DOMAIN c, LooksLikeTerminal(c[i])
  PROVE  Begins(c, i) /\ IsHeader(c, i)
BY DEF Understood, IsHeader, LooksLikeTerminal

\* What it drops are the settings that are its own to give.
LEMMA DroppedIsManaged ==
  ASSUME NEW c \in Seq(Lines), Understood(c), NEW i \in 1..Len(c)
  PROVE  Dropped(c, i) <=> ManagedAt(c, i)
<1> DEFINE h == HeaderOf(c, i)
           ours == c[i].name \in ManagedKeys
           in == LastTableIsTerminal(c, i)
<1>1. c[i] \in Lines /\ i \in Nat /\ i \in DOMAIN c /\ \A k \in 1..i : k \in DOMAIN c
  OBVIOUS
<1>2. /\ ~Begins(c, i) => ~LooksManaged(c[i])
      /\ ManagedAt(c, i) =>
           /\ c[i].plain
           /\ c[i].form = "key" => \A k \in (h + 1)..i : c[k].form # "table"
      /\ IsSetting(c, i) => /\ c[i].form = "key" /\ ours => ~InTerminalArray(c, i)
                            /\ c[i].form = "dotted" => (h = 0 <=> ours)
  BY <1>1 DEF Understood
<1>3. in <=> \E j \in 1..i : /\ LooksLikeTerminal(c[j])
                             /\ \A k \in 1..i : c[k].form = "table" => k <= j
  BY DEF LastTableIsTerminal, LooksLikeTerminal
<1>4. LooksManaged(c[i]) => (Merging(c)[i - 1].inTerminal <=> in)
  <2> SUFFICES ASSUME LooksManaged(c[i]) PROVE Merging(c)[i - 1].inTerminal <=> in
    OBVIOUS
  <2>1. i - 1 \in 0..Len(c) /\ i \in 0..Len(c)
    OBVIOUS
  <2>2. Merging(c)[i - 1] \in States /\ c[i].form # "table"
    BY <2>1, MergingType DEF LooksManaged
  <2>3. Merging(c)[i].inTerminal <=> Merging(c)[i - 1].inTerminal
    <3>1. ~LooksLikeTerminal(c[i])
      BY <2>2 DEF LooksLikeTerminal
    <3>2. Merging(c)[i - 1].inTerminal \in BOOLEAN
      BY <2>2 DEF States
    <3>3. Merging(c)[i] = MergeLine(Merging(c)[i - 1], c[i])
      BY MergingSteps
    <3> QED
      BY <1>1, <2>2, <3>1, <3>2, <3>3, CopyingStep, DroppingStep
  <2> QED
    BY <2>1, <2>3, FlagsSay
<1>5. Dropped(c, i) <=> LooksManaged(c[i]) /\ c[i].form = IF in THEN "key" ELSE "dotted"
  BY <1>1, <1>4 DEF Dropped, Replaced, LooksManaged
<1>6. Dropped(c, i) => IsSetting(c, i) /\ ours
  BY <1>2, <1>5 DEF IsSetting, LooksManaged
<1>7. ManagedAt(c, i) => IsSetting(c, i) /\ c[i].plain /\ ours
  <2>1. RootPath(c[i]).key = c[i].name
    BY DEF RootPath
  <2>2. \A n : TablePath(c[h], n, c[i]).key = c[i].name
    BY DEF TablePath
  <2>3. PathOf(c, i).key = c[i].name
    <3>1. h = 0 => PathOf(c, i) = RootPath(c[i])
      BY <1>1, PathIs
    <3>2. h # 0 => PathOf(c, i) = TablePath(c[h], Cardinality(HeadersTo(c, i)), c[i])
      BY <1>1, PathIs
    <3> HIDE DEF h
    <3> QED
      BY <2>1, <2>2, <3>1, <3>2
  <2> QED
    BY <1>2, <2>3 DEF ManagedAt, IsManaged
<1>8. SUFFICES ASSUME IsSetting(c, i), ours, c[i].plain
      PROVE  (c[i].form = IF in THEN "key" ELSE "dotted") <=> IsManaged(PathOf(c, i))
  BY <1>5, <1>6, <1>7 DEF ManagedAt, LooksManaged, IsSetting
<1>9. c[i].form \in {"key", "dotted"}
  BY <1>8 DEF IsSetting
<1>10. h \in 0..i /\ (h = 0 => HeadersTo(c, i) = {}) /\ (h # 0 => h \in HeadersTo(c, i))
      /\ \A k \in HeadersTo(c, i) : k <= h
  BY <1>1, HeaderIs
<1>11. \A k \in 1..i : LooksLikeTerminal(c[k]) => k \in HeadersTo(c, i)
  BY <1>1, TerminalIsHeader DEF HeadersTo
<1>12. CASE h = 0
  <2>1. ~in
    BY <1>3, <1>10, <1>11, <1>12
  <2>2. PathOf(c, i) = RootPath(c[i])
    BY <1>1, <1>12, PathIs
  <2>3. IsManaged(RootPath(c[i])) <=> c[i].form = "dotted"
    BY <1>8 DEF IsManaged, RootPath
  <2> QED
    BY <2>1, <2>2, <2>3
<1>13. CASE h # 0
  <2>1. c[i].form = "key"
    BY <1>2, <1>8, <1>9, <1>13
  <2>2. /\ h \in 1..i /\ IsHeader(c, h) /\ c[h].form \in {"table", "array"}
        /\ Cardinality(HeadersTo(c, i)) # 0
        /\ PathOf(c, i) = TablePath(c[h], Cardinality(HeadersTo(c, i)), c[i])
    <3>1. h \in 1..i /\ IsHeader(c, h) /\ c[h].form \in {"table", "array"}
      BY <1>10, <1>13 DEF HeadersTo, IsHeader
    <3>2. Cardinality(HeadersTo(c, i)) # 0
      <4>1. IsFiniteSet(1..i) /\ HeadersTo(c, i) \in SUBSET (1..i)
        BY <1>1, FS_Interval DEF HeadersTo
      <4>2. IsFiniteSet(HeadersTo(c, i))
        BY <4>1, FS_Subset
      <4> QED
        BY <1>10, <1>13, <4>2, FS_EmptySet
    <3> QED
      BY <1>1, <1>13, <3>1, <3>2, PathIs
  <2>3. IsManaged(PathOf(c, i)) <=> c[h].form = "table" /\ c[h].name = "terminal"
    <3> DEFINE n == Cardinality(HeadersTo(c, i))
               p == TablePath(c[h], n, c[i])
    <3>1. n # 0 /\ c[h].form \in {"table", "array"} /\ PathOf(c, i) = p
      BY <2>2
    <3> HIDE DEF h, n
    <3>2. /\ p.table = c[h].name /\ p.key = c[i].name
          /\ p.element = (IF c[h].form = "array" THEN n ELSE 0)
          /\ p.inner = (c[i].form = "dotted")
      BY DEF TablePath
    <3>3. ~p.inner
      BY <2>1, <3>2
    <3>4. p.element = 0 <=> c[h].form # "array"
      BY <3>1, <3>2
    <3> HIDE DEF p
    <3>5. IsManaged(p) <=> c[h].name = "terminal" /\ c[h].form # "array"
      BY <1>8, <3>2, <3>3, <3>4 DEF IsManaged
    <3> QED
      BY <3>1, <3>5
  <2>4. ASSUME c[h].form = "table", c[h].name = "terminal" PROVE in
    <3>1. c[h].plain
      <4>1. h \in DOMAIN c /\ AtRoot(c, h)
        BY <1>1, <2>2 DEF AtRoot
      <4> QED
        BY <2>4, <4>1 DEF Understood
    <3>2. LooksLikeTerminal(c[h])
      BY <2>4, <3>1 DEF LooksLikeTerminal
    <3>3. \A k \in (h + 1)..i : c[k].form # "table"
      <4>1. ManagedAt(c, i)
        BY <1>8, <2>3, <2>4 DEF ManagedAt
      <4> QED
        BY <1>2, <2>1, <4>1
    <3>4. \A k \in 1..i : c[k].form = "table" => k <= h
      <4> SUFFICES ASSUME NEW k \in 1..i, c[k].form = "table" PROVE k <= h
        OBVIOUS
      <4>1. k \notin (h + 1)..i
        BY <3>3
      <4> QED
        BY <2>2, <4>1
    <3> QED
      BY <1>3, <2>2, <3>2, <3>4
  <2>5. ASSUME in PROVE c[h].form = "table" /\ c[h].name = "terminal"
    <3>1. PICK j \in 1..i : /\ LooksLikeTerminal(c[j])
                            /\ \A k \in 1..i : c[k].form = "table" => k <= j
      BY <1>3, <2>5
    <3>2. c[h].form # "array"
      <4>1. c[h].form = "array" => InTerminalArray(c, i)
        BY <2>2, <2>5 DEF InTerminalArray
      <4> QED
        BY <1>2, <1>8, <2>1, <4>1
    <3>3. c[h].form = "table"
      BY <2>2, <3>2
    <3>4. h <= j /\ j <= h
      BY <1>10, <1>11, <2>2, <3>1, <3>3
    <3>5. h = j
      BY <2>2, <3>4
    <3> QED
      BY <3>1, <3>5 DEF LooksLikeTerminal
  <2> QED
    BY <2>1, <2>3, <2>4, <2>5
<1> QED
  BY <1>12, <1>13

\* After what the loop has put out for i lines, the same is open as in the config.
LEMMA OpenAt ==
  ASSUME NEW c \in Seq(Lines), Valid(c), Understood(c)
  PROVE  \A i \in 0..Len(c) : OpenAfter(Merge(c))[Len(Out(c, i))] = OpenAfter(c)[i]
<1> DEFINE m == Merge(c)
           Good(i) == OpenAfter(m)[Len(Out(c, i))] = OpenAfter(c)[i]
           Bad == {i \in 0..Len(c) : ~Good(i)}
<1>1. m \in Seq(Lines) /\ Len(m) \in Nat /\ End(c) \in Nat /\ End(c) <= Len(m)
  BY MergedIs
<1>2. 0 \notin Bad
  <2>1. Out(c, 0) = <<>> /\ OpenAfter(c)[0] = Nothing /\ OpenAfter(m)[0] = Nothing
    BY <1>1, MergingSteps, OpenSteps DEF Out, Before
  <2> QED
    BY <2>1
<1>3. ASSUME NEW i \in Bad, i > 0, i - 1 \notin Bad PROVE FALSE
  <2> DEFINE n == Len(Out(c, i - 1))
  <2>1. i \in 1..Len(c) /\ i - 1 \in 0..Len(c) /\ i \in DOMAIN c
    BY <1>3
  <2>2. OpenAfter(m)[n] = OpenAfter(c)[i - 1]
    BY <1>3, <2>1
  <2>3. n \in Nat /\ Place(c, i) = n + 1 /\ Len(Out(c, i)) \in Nat
    BY <2>1, MergingType DEF States, Out, Place
  <2>4. CASE Dropped(c, i)
    <3>1. Out(c, i) = Out(c, i - 1)
      BY <2>1, <2>4, LineAdds
    <3>2. ManagedAt(c, i)
      BY <2>1, <2>4, DroppedIsManaged
    <3>3. Begins(c, i) /\ c[i].turns[Nothing] = Nothing
      BY <2>1, <3>2 DEF Understood, ManagedAt, IsSetting
    <3>4. OpenAfter(c)[i] = Nothing /\ OpenAfter(c)[i - 1] = Nothing
      BY <2>1, <3>3, NothingOpens DEF Begins
    <3> QED
      BY <1>3, <2>2, <3>1, <3>4
  <2>5. CASE ~Dropped(c, i)
    <3>1. n + 1 \in 1..Len(m) /\ m[n + 1] = c[i] /\ (n + 1) - 1 = n
      BY <1>1, <2>1, <2>3, <2>5, CopiedAt
    <3>2. OpenAfter(m)[n + 1] = OpenAfter(c)[i]
      <4>1. OpenAfter(m)[n + 1] = After(OpenAfter(m)[(n + 1) - 1], m[n + 1])
        BY <1>1, <3>1, OpenSteps
      <4>2. OpenAfter(c)[i] = After(OpenAfter(c)[i - 1], c[i])
        BY <2>1, OpenSteps
      <4> QED
        BY <2>2, <3>1, <4>1, <4>2
    <3>3. CASE ~LooksLikeTerminal(c[i])
      <4>1. Len(Out(c, i)) = n + 1
        BY <2>1, <2>3, <2>5, <3>3, LineAdds
      <4> QED
        BY <1>3, <3>2, <4>1
    <3>4. CASE LooksLikeTerminal(c[i])
      <4>1. Len(Out(c, i)) = (n + 1) + 2
        <5>1. Len(Out(c, i)) = Place(c, i) + 2
          BY <2>1, <3>4, LineAdds
        <5> HIDE DEF n
        <5> QED
          BY <2>3, <5>1
      <4>2. Begins(c, i) /\ OpenAfter(c)[i] = Nothing
        <5>1. Begins(c, i) /\ c[i].form \notin {"key", "dotted"}
          BY <2>1, <3>4, TerminalIsHeader DEF LooksLikeTerminal
        <5>2. OpenAfter(c)[i] \in {Nothing, Broken} /\ OpenAfter(c)[i] # Broken
          BY <2>1, <5>1, NothingOpens, NeverBroken
        <5> QED
          BY <5>1, <5>2
      <4>3. Opening(c, n + 1)
        BY <2>1, <2>3, <3>4 DEF Opening
      <4>4. Begins(m, n + 1) /\ OpenAfter(m)[n + 1] # Broken
        <5>1. Nothing # Broken
          BY DEF Nothing, Broken
        <5> HIDE DEF m, n
        <5> QED
          BY <2>2, <3>1, <3>2, <4>2, <5>1 DEF Begins, n
      <4>5. OpenAfter(m)[(n + 1) + 2] = Nothing
        BY <4>3, <4>4, OpeningIs
      <4> QED
        BY <1>3, <4>1, <4>2, <4>5
    <3> QED
      BY <3>3, <3>4
  <2> QED
    BY <2>4, <2>5
<1>4. Len(c) \in Nat /\ Bad \subseteq 0..Len(c)
  OBVIOUS
<1>5. Bad = {}
  <2> HIDE DEF Bad
  <2> QED
    BY <1>2, <1>3, <1>4, NoneFirst
<1> QED
  BY <1>5

\* So a copied line is to the reader what it was.
LEMMA ReadAt ==
  ASSUME NEW c \in Seq(Lines), Valid(c), Understood(c), NEW i \in 1..Len(c), ~Dropped(c, i)
  PROVE  LET m == Merge(c) IN
         /\ OpenAfter(m)[Place(c, i)] = OpenAfter(c)[i]
         /\ Begins(m, Place(c, i)) <=> Begins(c, i)
         /\ IsHeader(m, Place(c, i)) <=> IsHeader(c, i)
         /\ IsSetting(m, Place(c, i)) <=> IsSetting(c, i)
<1> DEFINE m == Merge(c)
           p == Place(c, i)
<1>1. m \in Seq(Lines) /\ p \in 1..Len(m) /\ m[p] = c[i]
  BY MergedIs, CopiedAt
<1>2. OpenAfter(m)[p - 1] = OpenAfter(c)[i - 1]
  <2>1. i - 1 \in 0..Len(c) /\ Len(Out(c, i - 1)) \in Nat
    BY LineAdds
  <2>2. p - 1 = Len(Out(c, i - 1))
    BY <2>1 DEF Place
  <2> QED
    BY <2>1, <2>2, OpenAt
<1>3. OpenAfter(m)[p] = After(OpenAfter(m)[p - 1], m[p])
      /\ OpenAfter(c)[i] = After(OpenAfter(c)[i - 1], c[i])
  BY <1>1, OpenSteps
<1> QED
  BY <1>1, <1>2, <1>3 DEF Begins, IsHeader, IsSetting

\* Where the loop ends nothing is open, and every header that managed lines follow
\* is one.
LEMMA OpeningStands ==
  ASSUME NEW c \in Seq(Lines), Valid(c), Understood(c), NEW h, Opening(c, h)
  PROVE  LET m == Merge(c) IN
         /\ OpenAfter(m)[End(c)] = Nothing
         /\ IsHeader(m, h) /\ OpenAfter(m)[h + 2] = Nothing
         /\ \A d \in {1, 2} :
              /\ IsSetting(m, h + d) /\ HeaderOf(m, h + d) = h
              /\ PathOf(m, h + d) = ManagedPath(Managed[d].name)
<1> DEFINE m == Merge(c)
<1>1. OpenAfter(m)[End(c)] = Nothing
  <2>1. Len(c) \in 0..Len(c) /\ OpenAfter(c)[Len(c)] = Nothing
    BY DEF Valid
  <2> QED
    BY <2>1, OpenAt DEF End
<1>2. Begins(m, h) /\ OpenAfter(m)[h] # Broken
  <2>1. CASE \E j \in 1..Len(c) : LooksLikeTerminal(c[j]) /\ h = Place(c, j)
    <3>1. PICK j \in 1..Len(c) : LooksLikeTerminal(c[j]) /\ h = Place(c, j)
      BY <2>1
    <3>2. ~Dropped(c, j) /\ Begins(c, j) /\ j \in DOMAIN c /\ j \in 0..Len(c)
      BY <3>1, HeadersAreCopied, TerminalIsHeader DEF LooksLikeTerminal
    <3>3. OpenAfter(m)[h] = OpenAfter(c)[j] /\ Begins(m, h)
      BY <3>1, <3>2, ReadAt
    <3> QED
      BY <3>2, <3>3, NeverBroken
  <2>2. CASE (\A j \in 1..Len(c) : ~LooksLikeTerminal(c[j])) /\ h = End(c) + 1
    <3>1. m \in Seq(Lines) /\ End(c) \in Nat /\ Len(m) = End(c) + 3
          /\ m[h] = Fleet("table", "terminal")
      BY <2>2, MergedIs
    <3>2. h \in 1..Len(m) /\ h - 1 = End(c)
      BY <2>2, <3>1
    <3>3. Begins(m, h)
      BY <1>1, <3>2 DEF Begins
    <3>4. OpenAfter(m)[h] = m[h].turns[Nothing]
      <4> HIDE DEF m
      <4> QED
        BY <3>1, <3>2, <3>3, NothingOpens
    <3>5. Fleet("table", "terminal").turns[Nothing] = Nothing
      BY FleetLine, NamesAssumption
    <3> QED
      BY <3>1, <3>3, <3>4, <3>5 DEF Nothing, Broken
  <2> QED
    BY <2>1, <2>2 DEF Opening
<1> QED
  BY <1>1, <1>2, OpeningIs

\* Down to a copied line, the headers are those of the config.
LEMMA HeadersAt ==
  ASSUME NEW c \in Seq(Lines), Valid(c), Understood(c), NEW i \in 1..Len(c), ~Dropped(c, i)
  PROVE  HeadersTo(Merge(c), Place(c, i)) = {Place(c, h) : h \in HeadersTo(c, i)}
<1> DEFINE m == Merge(c)
<1>1. Place(c, i) \in Nat \ {0} /\ Place(c, i) \in 1..End(c)
  BY PlacesGrow, CopiedAt
<1>2. ASSUME NEW h \in HeadersTo(c, i)
      PROVE  Place(c, h) \in HeadersTo(m, Place(c, i))
  <2>1. h \in 1..Len(c) /\ h <= i /\ IsHeader(c, h) /\ c[h].form \in {"table", "array"}
    BY DEF HeadersTo, IsHeader
  <2>2. ~Dropped(c, h)
    BY <2>1, HeadersAreCopied
  <2>3. IsHeader(m, Place(c, h)) /\ Place(c, h) \in Nat \ {0}
    BY <2>1, <2>2, ReadAt, PlacesGrow
  <2>4. Place(c, h) <= Place(c, i)
    <3>1. CASE h = i
      BY <1>1, <3>1
    <3>2. CASE h < i
      <4>1. Place(c, h) < Place(c, i)
        BY <2>1, <2>2, <3>2, PlacesGrow
      <4> QED
        BY <1>1, <2>3, <4>1
    <3> QED
      BY <2>1, <3>1, <3>2
  <2> QED
    BY <1>1, <2>1, <2>3, <2>4 DEF HeadersTo
<1>3. ASSUME NEW k \in HeadersTo(m, Place(c, i))
      PROVE  \E h \in HeadersTo(c, i) : k = Place(c, h)
  <2>1. k \in 1..Place(c, i) /\ IsHeader(m, k) /\ m[k].form \in {"table", "array"}
    BY DEF HeadersTo, IsHeader
  <2>2. k \in DOMAIN m /\ k \in Nat /\ k <= End(c) /\ End(c) \in Nat
    <3>1. m \in Seq(Lines) /\ End(c) \in Nat /\ End(c) <= Len(m)
      BY MergedIs
    <3> QED
      BY <1>1, <2>1, <3>1
  <2>3. \A h : Opening(c, h) => \A d \in {1, 2} : k # h + d
    <3> SUFFICES ASSUME NEW h, Opening(c, h), NEW d \in {1, 2}, k = h + d
                 PROVE  FALSE
      OBVIOUS
    <3>1. m[k] = Managed[d] /\ Managed[d].form = "key"
      BY OpeningLines, ManagedForm
    <3> QED
      BY <2>1, <3>1
  <2>4. PICK j \in 1..Len(c) : ~Dropped(c, j) /\ k = Place(c, j)
    <3>1. k # End(c) + 1
      BY <2>2
    <3> QED
      BY <2>2, <2>3, <3>1, MergedFrom
  <2>5. IsHeader(c, j)
    BY <2>1, <2>4, ReadAt
  <2>6. ~(i < j)
    <3>1. i < j => Place(c, i) < Place(c, j)
      BY PlacesGrow
    <3> QED
      BY <1>1, <2>1, <2>4, <3>1
  <2>7. j \in HeadersTo(c, i)
    BY <2>5, <2>6 DEF HeadersTo
  <2> QED
    BY <2>4, <2>7
<1> QED
  BY <1>2, <1>3

\* So is the one that governs it.
LEMMA HeaderAt ==
  ASSUME NEW c \in Seq(Lines), Valid(c), Understood(c), NEW i \in 1..Len(c), ~Dropped(c, i)
  PROVE  LET h == HeaderOf(c, i) IN
         /\ HeaderOf(Merge(c), Place(c, i)) = IF h = 0 THEN 0 ELSE Place(c, h)
         /\ h # 0 => h \in 1..Len(c) /\ IsHeader(c, h) /\ h \in HeadersTo(c, i)
                     /\ Place(c, h) \in Nat \ {0} /\ Merge(c)[Place(c, h)] = c[h]
<1> DEFINE h == HeaderOf(c, i)
           m == Merge(c)
<1>1. Place(c, i) \in Nat
  BY PlacesGrow
<1>2. HeadersTo(m, Place(c, i)) = {Place(c, k) : k \in HeadersTo(c, i)}
  BY HeadersAt
<1>3. CASE h = 0
  <2>1. HeadersTo(c, i) = {}
    BY <1>3, HeaderIs
  <2>2. HeadersTo(m, Place(c, i)) = {}
    BY <1>2, <2>1
  <2> QED
    BY <1>1, <1>3, <2>2, HeaderIs
<1>4. CASE h # 0
  <2>1. h \in HeadersTo(c, i) /\ \A k \in HeadersTo(c, i) : k <= h
    BY <1>4, HeaderIs
  <2>2. \A k \in HeadersTo(c, i) : /\ k \in 1..Len(c) /\ IsHeader(c, k)
                                     /\ c[k].form \in {"table", "array"}
    BY DEF HeadersTo, IsHeader
  <2>3. \A k \in HeadersTo(c, i) : Place(c, k) <= Place(c, h)
    <3> SUFFICES ASSUME NEW k \in HeadersTo(c, i) PROVE Place(c, k) <= Place(c, h)
      OBVIOUS
    <3>1. ~Dropped(c, k) /\ ~Dropped(c, h) /\ k \in 1..Len(c) /\ h \in 1..Len(c)
      BY <2>1, <2>2, HeadersAreCopied
    <3>2. Place(c, k) \in Nat /\ Place(c, h) \in Nat /\ (k < h => Place(c, k) < Place(c, h))
      BY <3>1, PlacesGrow
    <3>3. k = h \/ k < h
      BY <2>1, <3>1
    <3> QED
      BY <3>2, <3>3
  <2>4. Place(c, h) \in HeadersTo(m, Place(c, i))
    BY <1>2, <2>1
  <2>5. \A k \in HeadersTo(m, Place(c, i)) : k <= Place(c, h)
    BY <1>2, <2>3
  <2>6. HeaderOf(m, Place(c, i)) = Place(c, h)
    BY <1>1, <2>4, <2>5, HeaderIsThe
  <2>7. h \in 1..Len(c) /\ IsHeader(c, h) /\ ~Dropped(c, h)
    BY <2>1, <2>2, HeadersAreCopied
  <2>8. Place(c, h) \in Nat \ {0} /\ m[Place(c, h)] = c[h]
    BY <2>7, PlacesGrow, CopiedAt
  <2> QED
    BY <1>4, <2>1, <2>6, <2>7, <2>8
<1> QED
  BY <1>3, <1>4

\* Copied lines are as many in the merged config.
LEMMA SameCount ==
  ASSUME NEW c \in Seq(Lines), NEW A, A \subseteq 1..Len(c), \A i \in A : ~Dropped(c, i)
  PROVE  Cardinality({Place(c, i) : i \in A}) = Cardinality(A)
<1> DEFINE B == {Place(c, i) : i \in A}
           f == [i \in A |-> Place(c, i)]
<1>1. \A i, j \in A : i # j => Place(c, i) # Place(c, j)
  <2> SUFFICES ASSUME NEW i \in A, NEW j \in A, i # j PROVE Place(c, i) # Place(c, j)
    OBVIOUS
  <2>1. i < j \/ j < i
    OBVIOUS
  <2>2. /\ Place(c, i) \in Nat /\ Place(c, j) \in Nat
        /\ i < j => Place(c, i) < Place(c, j)
        /\ j < i => Place(c, j) < Place(c, i)
    BY PlacesGrow
  <2> QED
    BY <2>1, <2>2
<1>2. f \in Bijection(A, B)
  BY <1>1 DEF Bijection, Injection, Surjection, IsInjective
<1>3. IsFiniteSet(A)
  <2>1. Len(c) \in Nat /\ IsFiniteSet(1..Len(c))
    BY FS_Interval
  <2> QED
    BY <2>1, FS_Subset
<1> QED
  BY <1>2, <1>3, FS_Bijection DEF ExistsBijection

\* A copied line stands where it stood.
LEMMA PathAt ==
  ASSUME NEW c \in Seq(Lines), Valid(c), Understood(c), NEW i \in 1..Len(c), ~Dropped(c, i)
  PROVE  PathOf(Merge(c), Place(c, i)) = PathOf(c, i)
<1> DEFINE m == Merge(c)
           h == HeaderOf(c, i)
           p == Place(c, i)
<1>1. m[p] = c[i]
  BY CopiedAt
<1>2. Cardinality(HeadersTo(m, p)) = Cardinality(HeadersTo(c, i))
  <2>1. HeadersTo(c, i) \subseteq 1..Len(c) /\ \A j \in HeadersTo(c, i) : c[j].form \in {"table", "array"}
    BY DEF HeadersTo, IsHeader
  <2>2. \A j \in HeadersTo(c, i) : ~Dropped(c, j)
    BY <2>1, HeadersAreCopied
  <2>3. HeadersTo(m, p) = {Place(c, j) : j \in HeadersTo(c, i)}
    BY HeadersAt
  <2>4. Cardinality({Place(c, j) : j \in HeadersTo(c, i)}) = Cardinality(HeadersTo(c, i))
    BY <2>1, <2>2, SameCount
  <2> QED
    BY <2>3, <2>4
<1>3. p \in Nat /\ i \in Nat
  BY PlacesGrow
<1>4. CASE h = 0
  <2>1. HeaderOf(m, p) = 0
    BY <1>4, HeaderAt
  <2>2. PathOf(c, i) = RootPath(c[i]) /\ PathOf(m, p) = RootPath(m[p])
    BY <1>3, <1>4, <2>1, PathIs
  <2> QED
    BY <1>1, <2>2
<1>5. CASE h # 0
  <2>1. HeaderOf(m, p) = Place(c, h) /\ Place(c, h) # 0 /\ m[Place(c, h)] = c[h]
    BY <1>5, HeaderAt
  <2>2. PathOf(c, i) = TablePath(c[h], Cardinality(HeadersTo(c, i)), c[i])
    BY <1>3, <1>5, PathIs
  <2>3. PathOf(m, p) = TablePath(m[Place(c, h)], Cardinality(HeadersTo(m, p)), m[p])
    BY <1>3, <2>1, PathIs
  <2> QED
    BY <1>1, <1>2, <2>1, <2>2, <2>3
<1> QED
  BY <1>4, <1>5

\* The lines of the merged config but its headers are those it keeps and its own.
LEMMA LinesFrom ==
  ASSUME NEW c \in Seq(Lines), Valid(c), Understood(c), NEW k \in DOMAIN Merge(c), ~IsHeader(Merge(c), k)
  PROVE  LET m == Merge(c) IN
         \/ \E j \in 1..Len(c) : /\ ~ManagedAt(c, j) /\ ~IsHeader(c, j) /\ ~Dropped(c, j)
                                 /\ k = Place(c, j) /\ PathOf(m, k) = PathOf(c, j)
                                 /\ ~ManagedAt(m, k) /\ (IsSetting(m, k) <=> IsSetting(c, j))
         \/ \E h : Opening(c, h) /\ \E d \in {1, 2} :
              /\ k = h + d /\ PathOf(m, k) = ManagedPath(Managed[d].name)
              /\ ManagedAt(m, k)
<1> DEFINE m == Merge(c)
<1>1. k \in DOMAIN m /\ ~IsHeader(m, k)
  OBVIOUS
<1>2. CASE \E j \in 1..Len(c) : ~Dropped(c, j) /\ k = Place(c, j)
  <2>1. PICK j \in 1..Len(c) : ~Dropped(c, j) /\ k = Place(c, j)
    BY <1>2
  <2>2. PathOf(m, k) = PathOf(c, j)
    BY <2>1, PathAt
  <2>3. ~IsHeader(c, j) /\ (IsSetting(m, k) <=> IsSetting(c, j))
    BY <1>1, <2>1, ReadAt
  <2>4. ~ManagedAt(c, j) /\ ~ManagedAt(m, k)
    BY <2>1, <2>2, <2>3, DroppedIsManaged DEF ManagedAt
  <2> QED
    BY <2>1, <2>2, <2>3, <2>4
<1>3. CASE (\A j \in 1..Len(c) : ~LooksLikeTerminal(c[j])) /\ k = End(c) + 1
  <2>1. Opening(c, k)
    BY <1>3 DEF Opening
  <2>2. IsHeader(m, k)
    BY <2>1, OpeningStands
  <2> QED
    BY <1>1, <2>2
<1>4. CASE \E h : Opening(c, h) /\ \E d \in {1, 2} : k = h + d
  <2>1. PICK h : Opening(c, h) /\ \E d \in {1, 2} : k = h + d
    BY <1>4
  <2>2. PICK d \in {1, 2} : k = h + d
    BY <2>1
  <2>3. PathOf(m, k) = ManagedPath(Managed[d].name) /\ IsSetting(m, k)
    BY <2>1, <2>2, OpeningStands
  <2>4. Managed[d].name \in ManagedKeys
    BY ManagedForm
  <2>5. IsManaged(ManagedPath(Managed[d].name))
    BY <2>4 DEF IsManaged, ManagedPath
  <2>6. ManagedAt(m, k)
    BY <2>3, <2>5 DEF ManagedAt
  <2> QED
    BY <2>1, <2>2, <2>3, <2>6
<1> QED
  BY <1>1, <1>2, <1>3, <1>4, MergedFrom

\* A valid config has one header of [terminal] at most.
LEMMA OneOpening ==
  ASSUME NEW c \in Seq(Lines), Valid(c), Understood(c), NEW g, Opening(c, g), NEW h, Opening(c, h)
  PROVE  g = h
<1>1. ASSUME NEW i \in 1..Len(c), NEW j \in 1..Len(c), LooksLikeTerminal(c[i]),
             LooksLikeTerminal(c[j])
      PROVE  i = j
  <2>1. IsHeader(c, i) /\ IsHeader(c, j) /\ i \in DOMAIN c /\ j \in DOMAIN c
    BY <1>1, TerminalIsHeader
  <2>2. /\ AtRoot(c, i) /\ AtRoot(c, j) /\ RootName(c, i) = RootName(c, j)
        /\ c[i].form \notin {"array", "dotted"}
    BY <1>1, <2>1 DEF LooksLikeTerminal, AtRoot, RootName
  <2> QED
    BY <2>1, <2>2 DEF Valid
<1> QED
  BY <1>1 DEF Opening

\* Of a config that is valid and that it understands the merge makes a valid one.
LEMMA MergeStaysValid ==
  ASSUME NEW c \in Seq(Lines), Valid(c), Understood(c)
  PROVE  Valid(Merge(c))
<1> DEFINE m == Merge(c)
<1>1. OpenAfter(m)[Len(m)] = Nothing
  <2>1. m \in Seq(Lines) /\ End(c) \in Nat
    BY MergedIs
  <2>2. CASE \E j \in 1..Len(c) : LooksLikeTerminal(c[j])
    <3>1. PICK j \in 1..Len(c) : LooksLikeTerminal(c[j])
      BY <2>2
    <3>2. Opening(c, Place(c, j)) /\ Len(m) = End(c)
      BY <3>1, MergedIs DEF Opening
    <3> QED
      BY <3>2, OpeningStands
  <2>3. CASE \A j \in 1..Len(c) : ~LooksLikeTerminal(c[j])
    <3>1. Opening(c, End(c) + 1) /\ Len(m) = End(c) + 3
      BY <2>3, MergedIs DEF Opening
    <3>2. OpenAfter(m)[(End(c) + 1) + 2] = Nothing
      BY <3>1, OpeningStands
    <3>3. (End(c) + 1) + 2 = Len(m)
      BY <2>1, <3>1
    <3> QED
      BY <3>2, <3>3
  <2> QED
    BY <2>2, <2>3
<1>2. ASSUME NEW k \in SettingsOf(m)
      PROVE  /\ k \in DOMAIN m /\ IsSetting(m, k) /\ ~IsHeader(m, k)
             /\ ManagedAt(m, k) <=> IsManaged(PathOf(m, k))
  BY DEF SettingsOf, IsSetting, IsHeader, ManagedAt
<1>3. ASSUME NEW p \in SettingsOf(m), NEW q \in SettingsOf(m), PathOf(m, p) = PathOf(m, q)
      PROVE  p = q
  <2>1. CASE IsManaged(PathOf(m, p))
    <3>1. PICK g : Opening(c, g) /\ \E d \in {1, 2} :
                     p = g + d /\ PathOf(m, p) = ManagedPath(Managed[d].name)
      BY <1>2, <2>1, LinesFrom
    <3>2. PICK h : Opening(c, h) /\ \E d \in {1, 2} :
                     q = h + d /\ PathOf(m, q) = ManagedPath(Managed[d].name)
      BY <1>2, <1>3, <2>1, LinesFrom
    <3>3. PICK d \in {1, 2} : p = g + d /\ PathOf(m, p).key = Managed[d].name
      BY <3>1 DEF ManagedPath
    <3>4. PICK e \in {1, 2} : q = h + e /\ PathOf(m, q).key = Managed[e].name
      BY <3>2 DEF ManagedPath
    <3>5. d = e
      BY <1>3, <3>3, <3>4, ManagedForm
    <3>6. g = h
      BY <3>1, <3>2, OneOpening
    <3> QED
      BY <3>3, <3>4, <3>5, <3>6
  <2>2. CASE ~IsManaged(PathOf(m, p))
    <3>1. PICK i \in 1..Len(c) : /\ p = Place(c, i) /\ PathOf(m, p) = PathOf(c, i)
                                 /\ IsSetting(m, p) <=> IsSetting(c, i)
      BY <1>2, <2>2, LinesFrom
    <3>2. PICK j \in 1..Len(c) : /\ q = Place(c, j) /\ PathOf(m, q) = PathOf(c, j)
                                 /\ IsSetting(m, q) <=> IsSetting(c, j)
      BY <1>2, <1>3, <2>2, LinesFrom
    <3>3. i \in SettingsOf(c) /\ j \in SettingsOf(c) /\ PathOf(c, i) = PathOf(c, j)
      BY <1>2, <1>3, <3>1, <3>2 DEF SettingsOf
    <3>4. i = j
      BY <3>3 DEF Valid
    <3> QED
      BY <3>1, <3>2, <3>4
  <2> QED
    BY <2>1, <2>2
<1>4. ASSUME NEW i \in 1..Len(c), ~Dropped(c, i), AtRoot(m, Place(c, i))
      PROVE  /\ AtRoot(c, i) /\ RootName(c, i) = RootName(m, Place(c, i))
             /\ c[i] = m[Place(c, i)]
  <2>1. /\ c[i] = m[Place(c, i)]
        /\ IsHeader(m, Place(c, i)) <=> IsHeader(c, i)
        /\ IsSetting(m, Place(c, i)) <=> IsSetting(c, i)
    BY <1>4, CopiedAt, ReadAt
  <2>2. HeaderOf(m, Place(c, i)) = 0 => HeaderOf(c, i) = 0
    BY <1>4, HeaderAt
  <2> QED
    BY <1>4, <2>1, <2>2 DEF AtRoot, RootName
<1>5. ASSUME NEW i \in 1..Len(c), ~Dropped(c, i), AtRoot(c, i), RootName(c, i) = "terminal"
      PROVE  LooksLikeTerminal(c[i])
  <2>1. i \in DOMAIN c /\ c[i].form # "dotted" => c[i].name = "terminal"
    BY <1>5 DEF RootName
  <2>2. CASE c[i].form = "dotted"
    <3>1. HeaderOf(c, i) = 0 /\ IsSetting(c, i)
      BY <1>5, <2>2 DEF AtRoot, IsHeader
    <3>2. c[i].name \in ManagedKeys
      BY <2>1, <2>2, <3>1 DEF Understood
    <3>3. PathOf(c, i) = RootPath(c[i])
      BY <3>1, PathIs
    <3>4. IsManaged(RootPath(c[i]))
      BY <2>2, <3>2 DEF IsManaged, RootPath
    <3>5. ManagedAt(c, i)
      BY <3>1, <3>3, <3>4 DEF ManagedAt
    <3> QED
      BY <1>5, <3>5, DroppedIsManaged
  <2>3. CASE c[i].form # "dotted"
    BY <1>5, <2>1, <2>3 DEF Understood, LooksLikeTerminal
  <2> QED
    BY <2>2, <2>3
<1>6. ASSUME NEW k \in DOMAIN m, AtRoot(m, k)
      PROVE  \/ \E i \in 1..Len(c) : ~Dropped(c, i) /\ k = Place(c, i)
             \/ /\ \A j \in 1..Len(c) : ~LooksLikeTerminal(c[j])
                /\ k = End(c) + 1 /\ RootName(m, k) = "terminal"
  <2>1. CASE \E h : Opening(c, h) /\ \E d \in {1, 2} : k = h + d
    <3>1. PICK h : Opening(c, h) /\ \E d \in {1, 2} : k = h + d
      BY <2>1
    <3>2. PICK d \in {1, 2} : k = h + d
      BY <3>1
    <3>3. HeaderOf(m, k) = h /\ h # 0 /\ m[k] = Managed[d]
      BY <3>1, <3>2, OpeningLines, OpeningStands
    <3>4. ~IsHeader(m, k)
      BY <3>3, ManagedForm DEF IsHeader
    <3> QED
      BY <1>6, <3>3, <3>4 DEF AtRoot
  <2>2. CASE (\A j \in 1..Len(c) : ~LooksLikeTerminal(c[j])) /\ k = End(c) + 1
    <3>1. RootName(m, k) = "terminal"
      BY <2>2, MergedIs DEF RootName, Fleet
    <3> QED
      BY <2>2, <3>1
  <2> QED
    BY <2>1, <2>2, MergedFrom
<1>7. ASSUME NEW p \in DOMAIN m, NEW q \in DOMAIN m, p # q, AtRoot(m, p), AtRoot(m, q),
             RootName(m, p) = RootName(m, q)
      PROVE  m[p].form = m[q].form /\ m[p].form \in {"array", "dotted"}
  <2>1. CASE \E i \in 1..Len(c) : ~Dropped(c, i) /\ p = Place(c, i)
    <3>1. PICK i \in 1..Len(c) : ~Dropped(c, i) /\ p = Place(c, i)
      BY <2>1
    <3>2. AtRoot(c, i) /\ RootName(c, i) = RootName(m, p) /\ c[i] = m[p]
      BY <1>4, <1>7, <3>1
    <3>3. CASE \E j \in 1..Len(c) : ~Dropped(c, j) /\ q = Place(c, j)
      <4>1. PICK j \in 1..Len(c) : ~Dropped(c, j) /\ q = Place(c, j)
        BY <3>3
      <4>2. AtRoot(c, j) /\ RootName(c, j) = RootName(m, q) /\ c[j] = m[q]
        BY <1>4, <1>7, <4>1
      <4>3. i # j /\ i \in DOMAIN c /\ j \in DOMAIN c
        BY <1>7, <3>1, <4>1
      <4> QED
        BY <1>7, <3>2, <4>2, <4>3 DEF Valid
    <3>4. CASE (\A j \in 1..Len(c) : ~LooksLikeTerminal(c[j])) /\ RootName(m, q) = "terminal"
      BY <1>5, <1>7, <3>1, <3>2, <3>4
    <3> QED
      BY <1>6, <1>7, <3>3, <3>4
  <2>2. CASE (\A j \in 1..Len(c) : ~LooksLikeTerminal(c[j])) /\ p = End(c) + 1 /\ RootName(m, p) = "terminal"
    <3>1. PICK j \in 1..Len(c) : ~Dropped(c, j) /\ q = Place(c, j)
      BY <1>6, <1>7, <2>2
    <3>2. AtRoot(c, j) /\ RootName(c, j) = "terminal"
      BY <1>4, <1>7, <2>2, <3>1
    <3> QED
      BY <1>5, <2>2, <3>1, <3>2
  <2> QED
    BY <1>6, <1>7, <2>1, <2>2
<1> HIDE DEF m
<1>8. Valid(m)
  BY <1>1, <1>3, <1>7 DEF Valid
<1> QED
  BY <1>8 DEF m

\* And it keeps every other line but the headers, where it stood and in the same order.
LEMMA MergeKeeps ==
  ASSUME NEW c \in Seq(Lines), Valid(c), Understood(c)
  PROVE  Kept(Merge(c)) = Kept(c)
<1> DEFINE m == Merge(c)
           A(i) == KeptTo(c, i)
<1>1. m \in Seq(Lines) /\ Len(m) \in Nat
  BY MergedIs
<1>2. ASSUME NEW i \in 0..Len(c), NEW j \in KeptTo(c, i)
      PROVE  /\ j \in 1..Len(c) /\ j <= i /\ ~Dropped(c, j)
             /\ Place(c, j) \in 1..Len(m) /\ Place(c, j) \in Nat /\ m[Place(c, j)] = c[j]
             /\ ~IsHeader(m, Place(c, j)) /\ ~ManagedAt(m, Place(c, j))
             /\ PathOf(m, Place(c, j)) = PathOf(c, j)
  <2>1. j \in 1..Len(c) /\ j <= i /\ ~IsHeader(c, j) /\ ~ManagedAt(c, j)
    BY <1>2 DEF KeptTo
  <2>2. ~Dropped(c, j)
    BY <2>1, DroppedIsManaged
  <2>3. Place(c, j) \in DOMAIN m /\ m[Place(c, j)] = c[j] /\ PathOf(m, Place(c, j)) = PathOf(c, j)
    BY <2>1, <2>2, CopiedAt, PathAt
  <2>4. ~IsHeader(m, Place(c, j)) /\ ~ManagedAt(m, Place(c, j))
    BY <2>1, <2>2, <2>3, ReadAt DEF ManagedAt
  <2> QED
    BY <1>1, <2>1, <2>2, <2>3, <2>4
<1>3. ASSUME NEW k \in 1..Len(m), ~IsHeader(m, k), ~ManagedAt(m, k)
      PROVE  \E j \in KeptTo(c, Len(c)) : k = Place(c, j)
  <2>1. k \in DOMAIN m
    BY <1>1, <1>3
  <2>2. PICK j \in 1..Len(c) : ~IsHeader(c, j) /\ ~ManagedAt(c, j) /\ k = Place(c, j)
    BY <1>3, <2>1, LinesFrom
  <2>3. j \in KeptTo(c, Len(c))
    BY <1>3, <2>2 DEF KeptTo
  <2> QED
    BY <2>2, <2>3
<1>4. Len(c) \in 0..Len(c) /\ Len(c) \in Nat
  OBVIOUS
<1>5. KeptTo(m, Len(m)) = {Place(c, j) : j \in KeptTo(c, Len(c))}
  <2>1. \A k \in KeptTo(m, Len(m)) : \E j \in KeptTo(c, Len(c)) : k = Place(c, j)
    BY <1>3 DEF KeptTo
  <2>2. \A j \in KeptTo(c, Len(c)) : Place(c, j) \in KeptTo(m, Len(m))
    BY <1>2, <1>4 DEF KeptTo
  <2> QED
    BY <2>1, <2>2
<1>6. ASSUME NEW i \in KeptTo(c, Len(c))
      PROVE  KeptTo(m, Place(c, i)) = {Place(c, j) : j \in KeptTo(c, i)}
  <2>1. /\ i \in 1..Len(c) /\ ~Dropped(c, i) /\ Place(c, i) \in Nat
        /\ Place(c, i) \in 1..Len(m)
    BY <1>2, <1>4
  <2>2. ASSUME NEW k \in KeptTo(m, Place(c, i))
        PROVE  \E j \in KeptTo(c, i) : k = Place(c, j)
    <3>1. k \in 1..Len(m) /\ k <= Place(c, i) /\ ~IsHeader(m, k) /\ ~ManagedAt(m, k)
      BY <1>1, <2>1 DEF KeptTo
    <3>2. PICK j \in KeptTo(c, Len(c)) : k = Place(c, j)
      BY <1>3, <3>1
    <3>3. j \in 1..Len(c) /\ ~Dropped(c, j) /\ Place(c, j) \in Nat
      BY <1>2, <1>4
    <3>4. j <= i
      <4>1. i < j => Place(c, i) < Place(c, j)
        BY <2>1, <3>3, PlacesGrow
      <4> QED
        BY <2>1, <3>1, <3>2, <3>3, <4>1
    <3>5. j \in KeptTo(c, i)
      BY <2>1, <3>3, <3>4 DEF KeptTo
    <3> QED
      BY <3>2, <3>5
  <2>3. ASSUME NEW j \in KeptTo(c, i)
        PROVE  Place(c, j) \in KeptTo(m, Place(c, i))
    <3>1. i \in 0..Len(c)
      BY <2>1
    <3>2. /\ j \in 1..Len(c) /\ j <= i /\ ~Dropped(c, j)
          /\ Place(c, j) \in 1..Len(m) /\ Place(c, j) \in Nat
          /\ ~IsHeader(m, Place(c, j)) /\ ~ManagedAt(m, Place(c, j))
      BY <1>2, <3>1
    <3>3. Place(c, j) <= Place(c, i)
      <4>1. j < i => Place(c, j) < Place(c, i)
        BY <2>1, <3>2, PlacesGrow
      <4>2. j = i \/ j < i
        BY <2>1, <3>2
      <4> QED
        BY <2>1, <3>2, <4>1, <4>2
    <3>4. Place(c, j) \in 1..Place(c, i)
      BY <2>1, <3>2, <3>3
    <3> QED
      BY <3>2, <3>4 DEF KeptTo
  <2> QED
    BY <2>2, <2>3
<1>7. ASSUME NEW i \in KeptTo(c, Len(c))
      PROVE  /\ Cardinality(KeptTo(m, Place(c, i))) = Cardinality(KeptTo(c, i))
             /\ PathOf(m, Place(c, i)) = PathOf(c, i) /\ m[Place(c, i)] = c[i]
  <2>1. i \in 1..Len(c) /\ i \in 0..Len(c)
    BY <1>2, <1>4
  <2>2. KeptTo(c, i) \subseteq 1..Len(c) /\ \A j \in KeptTo(c, i) : ~Dropped(c, j)
    BY <1>2, <2>1
  <2>3. Cardinality({Place(c, j) : j \in KeptTo(c, i)}) = Cardinality(KeptTo(c, i))
    BY <2>2, SameCount
  <2> QED
    BY <1>2, <1>4, <1>6, <2>3
<1> HIDE DEF m
<1>8. Kept(m) = {[place |-> Cardinality(KeptTo(m, Place(c, i))), path |-> PathOf(m, Place(c, i)),
                 line |-> m[Place(c, i)]] :
                  i \in KeptTo(c, Len(c))}
  BY <1>5 DEF Kept
<1>9. Kept(m) = Kept(c)
  BY <1>7, <1>8 DEF Kept
<1> QED
  BY <1>9 DEF m

\* The managed settings of the result are under a header.
LEMMA MergeShows ==
  ASSUME NEW c \in Seq(Lines), Valid(c), Understood(c)
  PROVE  ShowsTerminal(Merge(c))
<1> DEFINE m == Merge(c)
<1>1. PICK h : Opening(c, h)
  BY DEF Opening
<1>2. h \in DOMAIN m /\ LooksLikeTerminal(m[h])
  BY <1>1, OpeningLines, MergedIs
<1>3. Begins(m, h)
  BY <1>1, OpeningStands DEF IsHeader
<1> QED
  BY <1>2, <1>3 DEF ShowsTerminal

\* The config of a user who wrote valid TOML that the merge understands: the
\* result is valid, keeps every other setting, and makes Herdr use the launcher.
THEOREM UnderstoodMergeKeeps ==
  ASSUME NEW c \in Seq(Lines), Valid(c), Understood(c)
  PROVE  Valid(Merge(c)) /\ Kept(Merge(c)) = Kept(c) /\ Governs(Merge(c))
BY MergeStaysValid, MergeKeeps, MergeShows, ValidMergeGoverns

\* Appended one by one or as a whole.
LEMMA AppendThen ==
  ASSUME NEW S, NEW a \in Seq(S), NEW x \in S, NEW b \in Seq(S)
  PROVE  Append(a, x) \o b \in Seq(S) /\ Append(a, x) \o b = a \o (<<x>> \o b)
<1>1. ASSUME NEW w \in Seq(S) PROVE (a \o w) \o b = a \o (w \o b)
  BY ConcatAssociative, SMTT(60)
<1>2. <<x>> \in Seq(S) /\ Append(a, x) = a \o <<x>>
  BY AppendIsConcat
<1>3. Append(a, x) \o b \in Seq(S)
  OBVIOUS
<1> QED
  BY <1>1, <1>2, <1>3

\* What follows an opening header is dropped and put in again.
LEMMA ManagedDropped ==
  ASSUME NEW s \in Seq(Lines), NEW n \in 1..Len(s), LooksLikeTerminal(s[n]),
         n + 2 <= Len(s), s[n + 1] = Managed[1], s[n + 2] = Managed[2]
  PROVE  Merging(s)[n + 2] = Merging(s)[n]
<1>1. n - 1 \in 0..Len(s) /\ n \in 0..Len(s) /\ n + 1 \in 1..Len(s) /\ n + 2 \in 1..Len(s)
      /\ (n + 1) - 1 = n /\ (n + 2) - 1 = n + 1
  OBVIOUS
<1>2. Merging(s)[n].inTerminal
  <2>1. Merging(s)[n - 1] \in States /\ s[n] \in Lines
    BY <1>1, MergingType, SMTT(60)
  <2>2. Merging(s)[n] = MergeLine(Merging(s)[n - 1], s[n])
    BY MergingSteps
  <2> QED
    BY <2>1, <2>2, OpeningStep
<1>3. \A d \in {1, 2} : /\ Managed[d].form = "key" /\ Managed[d].form # "table"
                        /\ LooksManaged(Managed[d])
  BY ManagedForm DEF LooksManaged
<1>4. Merging(s)[n + 1] = Merging(s)[n]
  <2>1. Merging(s)[n + 1] = MergeLine(Merging(s)[n], Managed[1])
    BY <1>1, MergingSteps
  <2>2. Replaced(Merging(s)[n].inTerminal, Managed[1])
    BY <1>2, <1>3 DEF Replaced
  <2> QED
    BY <1>3, <2>1, <2>2, DroppingStep
<1>5. Merging(s)[n + 2] = Merging(s)[n + 1]
  <2>1. Merging(s)[n + 2] = MergeLine(Merging(s)[n + 1], Managed[2])
    BY <1>1, MergingSteps
  <2>2. Replaced(Merging(s)[n + 1].inTerminal, Managed[2])
    BY <1>2, <1>3, <1>4 DEF Replaced
  <2> QED
    BY <1>3, <2>1, <2>2, DroppingStep
<1> QED
  BY <1>4, <1>5

\* After what it has put out for i lines, the loop on the result is where it was.
LEMMA MergingAgain ==
  ASSUME NEW c \in Seq(Lines)
  PROVE  \A i \in 0..Len(c) : Merging(Merge(c))[Len(Out(c, i))] = Merging(c)[i]
<1> DEFINE m == Merge(c)
           Good(i) == Merging(m)[Len(Out(c, i))] = Merging(c)[i]
           Bad == {i \in 0..Len(c) : ~Good(i)}
<1>1. m \in Seq(Lines) /\ Len(m) \in Nat /\ End(c) \in Nat /\ End(c) <= Len(m)
  BY MergedIs
<1>2. 0 \notin Bad
  <2>1. Out(c, 0) = <<>> /\ Merging(c)[0] = Before /\ Merging(m)[0] = Before
    BY <1>1, MergingSteps DEF Out, Before
  <2> QED
    BY <2>1
<1>3. ASSUME NEW i \in Bad, i > 0, i - 1 \notin Bad PROVE FALSE
  <2> DEFINE n == Len(Out(c, i - 1))
  <2>1. i \in 1..Len(c) /\ i - 1 \in 0..Len(c)
    BY <1>3
  <2>2. Merging(m)[n] = Merging(c)[i - 1]
    BY <1>3, <2>1
  <2>3. n \in Nat /\ Place(c, i) = n + 1 /\ Len(Out(c, i)) \in Nat
    BY <2>1, MergingType DEF States, Out, Place
  <2>4. Merging(c)[i] = MergeLine(Merging(c)[i - 1], c[i])
    BY <2>1, MergingSteps
  <2>5. CASE Dropped(c, i)
    <3>1. Out(c, i) = Out(c, i - 1)
      BY <2>1, <2>5, LineAdds
    <3>2. Merging(c)[i] = Merging(c)[i - 1]
      BY <2>4, <2>5, DroppingStep DEF Dropped
    <3> QED
      BY <1>3, <2>2, <3>1, <3>2
  <2>6. CASE ~Dropped(c, i)
    <3>1. n + 1 \in 1..Len(m) /\ m[n + 1] = c[i]
      BY <1>1, <2>1, <2>3, <2>6, CopiedAt
    <3>2. Merging(m)[n + 1] = MergeLine(Merging(m)[n], m[n + 1])
      <4>1. (n + 1) - 1 = n
        BY <2>3
      <4> QED
        BY <1>1, <3>1, <4>1, MergingSteps
    <3>3. Merging(m)[n + 1] = Merging(c)[i]
      BY <2>2, <2>4, <3>1, <3>2
    <3>4. CASE ~LooksLikeTerminal(c[i])
      <4>1. Len(Out(c, i)) = n + 1
        BY <2>1, <2>3, <2>6, <3>4, LineAdds
      <4> QED
        BY <1>3, <3>3, <4>1
    <3>5. CASE LooksLikeTerminal(c[i])
      <4>1. Len(Out(c, i)) = (n + 1) + 2
        BY <2>1, <2>3, <3>5, LineAdds
      <4>2. /\ (n + 1) + 2 \in 1..End(c)
            /\ m[(n + 1) + 1] = Managed[1] /\ m[(n + 1) + 2] = Managed[2]
        BY <2>1, <2>3, <2>6, <3>5, CopiedAt, SMTT(60)
      <4>3. (n + 1) + 2 <= Len(m)
        BY <1>1, <2>3, <4>2
      <4>4. Merging(m)[(n + 1) + 2] = Merging(m)[n + 1]
        <5> HIDE DEF m, n
        <5> QED
          BY <1>1, <3>1, <3>5, <4>2, <4>3, ManagedDropped
      <4> QED
        BY <1>3, <3>3, <4>1, <4>4
    <3> QED
      BY <3>4, <3>5
  <2> QED
    BY <2>5, <2>6
<1>4. Len(c) \in Nat /\ Bad \subseteq 0..Len(c)
  OBVIOUS
<1>5. Bad = {}
  <2> HIDE DEF Bad
  <2> QED
    BY <1>2, <1>3, <1>4, NoneFirst
<1> QED
  BY <1>5

\* Merged again, a merged config keeps its tables and settings as they are,
\* whatever it was made from.
THEOREM MergeIsStable ==
  ASSUME NEW c \in Seq(Lines)
  PROVE  Merge(Merge(c)) = Merge(c)
<1> DEFINE m == Merge(c)
           own == Fleet("table", "terminal")
           out == Out(c, Len(c))
           final == Merging(c)[Len(c)]
<1>1. /\ m \in Seq(Lines) /\ Len(m) \in Nat /\ End(c) \in Nat /\ End(c) <= Len(m)
      /\ Len(c) \in 0..Len(c)
  BY MergedIs
<1>2. Merging(m)[End(c)] = final
  BY <1>1, MergingAgain DEF End
<1>3. final.found <=> \E j \in 1..Len(c) : LooksLikeTerminal(c[j])
  BY <1>1, FlagsSay
<1>4. final \in States /\ out = final.out /\ out \in Seq(Lines)
  BY <1>1, MergingType DEF Out, States
<1>5. CASE final.found
  <2>1. Len(m) = End(c)
    BY <1>3, <1>5, MergedIs
  <2>2. Merging(m)[Len(m)] = Merging(c)[Len(c)]
    BY <1>2, <2>1
  <2> HIDE DEF m
  <2>3. Merge(m) = Merge(c)
    BY <2>2 DEF Merge
  <2> QED
    BY <2>3 DEF m
<1>6. CASE ~final.found
  <2>1. /\ Len(m) = End(c) + 3 /\ m[End(c) + 1] = own
        /\ m[End(c) + 2] = Managed[1] /\ m[End(c) + 3] = Managed[2]
    BY <1>3, <1>6, MergedIs
  <2> DEFINE n == End(c) + 1
  <2>2. n \in 1..Len(m) /\ n - 1 = End(c) /\ n + 2 = Len(m) /\ n + 2 <= Len(m)
        /\ m[n] = own /\ m[n + 1] = Managed[1] /\ m[n + 2] = Managed[2]
    BY <1>1, <2>1
  <2>3. LooksLikeTerminal(own)
    BY DEF LooksLikeTerminal, Fleet
  <2> DEFINE e == Merging(m)[n]
  <2>4. e = MergeLine(final, own)
    BY <1>1, <1>2, <2>2, MergingSteps
  <2>5. Merging(m)[Len(m)] = e
    <3> HIDE DEF m, n
    <3> QED
      BY <1>1, <2>2, <2>3, ManagedDropped DEF e
  <2>6. e.out = Append(out, own) \o Managed /\ e.found
    <3>1. MergeLine(final, own) = [out |-> Append(final.out, own) \o Managed,
                                   inTerminal |-> TRUE, found |-> TRUE]
      BY <1>4, <2>3 DEF MergeLine, LooksLikeTerminal, States
    <3> QED
      BY <1>4, <2>4, <3>1
  <2>7. Append(out, own) \o Managed \in Seq(Lines)
        /\ Append(out, own) \o Managed = out \o (<<own>> \o Managed)
    <3>1. own \in Lines /\ Managed \in Seq(Lines)
      BY ManagedIsLines
    <3> HIDE DEF out, own
    <3>2. out \in Seq(Lines) /\ own \in Lines /\ Managed \in Seq(Lines)
      BY <1>4, <3>1
    <3> QED
      BY <3>2, AppendThen
  <2>8. Merge(m) = e.out \o <<>>
    <3> HIDE DEF m, e
    <3> QED
      BY <2>5, <2>6 DEF Merge
  <2>9. Merge(m) = e.out
    BY <2>6, <2>7, <2>8, ConcatEmptySeq
  <2>10. m = out \o (<<own>> \o Managed)
    BY <1>6 DEF Merge, Out
  <2> QED
    BY <2>6, <2>7, <2>9, <2>10
<1> QED
  BY <1>5, <1>6
=============================================================================
