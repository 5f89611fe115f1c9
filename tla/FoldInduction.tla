---------------------------- MODULE FoldInduction ----------------------------
(***************************************************************************)
(* What FoldLeft computes, by induction over its sequence, for an operator *)
(* which a module gives when it instantiates this one.                     *)
(*                                                                         *)
(* The first argument of op stays the same during a fold: it stands for    *)
(* what an operator given to FoldLeft reads of its surroundings.           *)
(***************************************************************************)
EXTENDS Integers, SequencesExt, SequenceTheorems, WellFoundedInduction, TLAPS

CONSTANT op(_,_,_)

Fold(env, base, seq) == FoldLeft(LAMBDA acc, e : op(env, acc, e), base, seq)

-----------------------------------------------------------------------------

\* Induction over the natural numbers, on the set of those that have a property.
THEOREM SetInduction ==
  ASSUME NEW S, 0 \in S, \A n \in Nat : n \in S => n + 1 \in S
  PROVE  Nat \subseteq S
<1> DEFINE T == Nat \ S
<1>1. SUFFICES ASSUME T # {} PROVE FALSE
  OBVIOUS
<1>2. PICK x \in T : \A y \in T : ~ (<<y, x>> \in OpToRel(<, Nat))
  BY <1>1, WFMin, NatLessThanWellFounded
<1>3. x - 1 \in Nat /\ x = (x - 1) + 1
  OBVIOUS
<1>4. x - 1 \in T
  BY <1>3
<1>5. <<x - 1, x>> \in OpToRel(<, Nat)
  BY <1>3 DEF OpToRel
<1> QED BY <1>2, <1>4, <1>5

-----------------------------------------------------------------------------
(* FoldLeft goes over sets of positions, taking the last one off.          *)

LEMMA LastPosition ==
  ASSUME NEW n \in Nat
  PROVE  Max(1..n + 1) = n + 1 /\ (1..n + 1) \ {n + 1} = 1..n
<1>1. \A x \in 1..n + 1 : (\A y \in 1..n + 1 : x >= y) <=> x = n + 1
  OBVIOUS
<1>2. Max(1..n + 1) = n + 1
  BY <1>1 DEF Max
<1> QED BY <1>2

\* Of a set of positions with n + 1 in it, n + 1 is taken off first.
LEMMA LastOfPositions ==
  ASSUME NEW n \in Nat, NEW s \in SUBSET (1..n + 1), n + 1 \in s
  PROVE  Max(s) = n + 1 /\ s \ {n + 1} \in SUBSET (1..n)
<1>1. \A x \in s : (\A y \in s : x >= y) <=> x = n + 1
  OBVIOUS
<1>2. Max(s) = n + 1
  BY <1>1 DEF Max
<1> QED BY <1>2

\* f is the function behind a fold, on sets of the first n positions.
Steps(f, n, env, base, seq) ==
  f = [s \in SUBSET (1..n) |->
         IF s = {} THEN base ELSE op(env, f[s \ {Max(s)}], seq[Max(s)])]

LEMMA MaxIsIn ==
  ASSUME NEW n \in Nat, NEW s \in SUBSET (1..n), s # {}
  PROVE  Max(s) \in s /\ Max(s) \in 1..n
<1> DEFINE S == {k \in Nat : \A t \in SUBSET (1..k) : t # {} => Max(t) \in t}
<1>1. 0 \in S
  <2>1. 1..0 = {}
    OBVIOUS
  <2> QED BY <2>1
<1>2. ASSUME NEW k \in Nat, k \in S PROVE k + 1 \in S
  <2>1. SUFFICES ASSUME NEW t \in SUBSET (1..k + 1), t # {} PROVE Max(t) \in t
    OBVIOUS
  <2>2. CASE k + 1 \in t
    BY <2>2, LastOfPositions
  <2>3. CASE k + 1 \notin t
    <3>1. t \in SUBSET (1..k)
      BY <2>3
    <3> QED BY <3>1, <2>1, <1>2
  <2> QED BY <2>2, <2>3
<1>3. n \in S
  <2> HIDE DEF S
  <2> QED BY <1>1, <1>2, SetInduction
<1> QED BY <1>3

LEMMA StepsExist ==
  ASSUME NEW n \in Nat, NEW env, NEW base, NEW seq
  PROVE  \E f : Steps(f, n, env, base, seq)
<1> DEFINE S == {k \in Nat : \E f : Steps(f, k, env, base, seq)}
<1>1. 0 \in S
  <2>1. SUBSET (1..0) = {{}}
    OBVIOUS
  <2>2. Steps([s \in SUBSET (1..0) |-> base], 0, env, base, seq)
    BY <2>1 DEF Steps
  <2> QED BY <2>2
<1>2. ASSUME NEW k \in Nat, k \in S PROVE k + 1 \in S
  <2>1. PICK f : Steps(f, k, env, base, seq)
    BY <1>2
  <2> DEFINE g == [s \in SUBSET (1..k + 1) |->
                     IF k + 1 \in s THEN op(env, f[s \ {k + 1}], seq[k + 1]) ELSE f[s]]
  <2>2. ASSUME NEW s \in SUBSET (1..k + 1)
        PROVE  g[s] = IF s = {} THEN base ELSE op(env, g[s \ {Max(s)}], seq[Max(s)])
    <3>1. CASE k + 1 \in s
      <4>1. Max(s) = k + 1 /\ s \ {k + 1} \in SUBSET (1..k)
        BY <3>1, LastOfPositions
      <4>2. k + 1 \notin s \ {k + 1} /\ s \ {k + 1} \in SUBSET (1..k + 1)
        OBVIOUS
      <4>3. g[s \ {k + 1}] = f[s \ {k + 1}]
        BY <4>2
      <4>4. g[s] = op(env, f[s \ {k + 1}], seq[k + 1])
        BY <3>1
      <4> HIDE DEF g
      <4> QED BY <3>1, <4>1, <4>3, <4>4
    <3>2. CASE s = {}
      <4>1. f[{}] = base
        BY <2>1 DEF Steps
      <4>2. {} \in SUBSET (1..k + 1) /\ k + 1 \notin {}
        OBVIOUS
      <4> QED BY <3>2, <4>1, <4>2
    <3>3. CASE s # {} /\ k + 1 \notin s
      <4>1. s \in SUBSET (1..k)
        BY <3>3
      <4>2. Max(s) \in s
        BY <3>3, <4>1, MaxIsIn
      <4>3. f[s] = op(env, f[s \ {Max(s)}], seq[Max(s)])
        BY <2>1, <3>3, <4>1 DEF Steps
      <4>4. s \ {Max(s)} \in SUBSET (1..k + 1) /\ k + 1 \notin s \ {Max(s)}
        BY <3>3
      <4>5. g[s \ {Max(s)}] = f[s \ {Max(s)}] /\ g[s] = f[s]
        BY <3>3, <4>4
      <4> HIDE DEF g
      <4> QED BY <3>3, <4>3, <4>5
    <3> QED BY <3>1, <3>2, <3>3
  <2>3. Steps(g, k + 1, env, base, seq)
    <3>1. g = [s \in SUBSET (1..k + 1) |-> g[s]]
      OBVIOUS
    <3> HIDE DEF g
    <3> QED BY <2>2, <3>1 DEF Steps
  <2> QED BY <2>3
<1>3. n \in S
  <2> HIDE DEF S
  <2> QED BY <1>1, <1>2, SetInduction
<1> QED BY <1>3

\* The fold is what this function says of all positions.
LEMMA FoldTakesSteps ==
  ASSUME NEW n \in Nat, NEW env, NEW base, NEW seq, DOMAIN seq = 1..n
  PROVE  \E f : Steps(f, n, env, base, seq) /\ Fold(env, base, seq) = f[1..n]
<1> DEFINE f == CHOOSE f : Steps(f, n, env, base, seq)
<1>1. Steps(f, n, env, base, seq)
  BY StepsExist
<1>2. Fold(env, base, seq) = f[1..n]
  BY DEF Fold, FoldLeft, MapThenFoldSet, Steps
<1> QED BY <1>1, <1>2

\* It does not matter what comes after the positions it is asked about.
LEMMA StepsAgree ==
  ASSUME NEW n \in Nat, NEW m \in Nat, n <= m, NEW env, NEW base, NEW f, NEW g,
         NEW seq, NEW longer, \A i \in 1..n : seq[i] = longer[i],
         Steps(f, n, env, base, seq), Steps(g, m, env, base, longer)
  PROVE  f[1..n] = g[1..n]
<1> DEFINE S == {k \in Nat : k <= n => \A s \in SUBSET (1..k) : f[s] = g[s]}
<1>1. 0 \in S
  <2>1. SUBSET (1..0) = {{}} /\ {} \in SUBSET (1..n) /\ {} \in SUBSET (1..m)
    OBVIOUS
  <2>2. f[{}] = base /\ g[{}] = base
    BY <2>1 DEF Steps
  <2> QED BY <2>1, <2>2
<1>2. ASSUME NEW k \in Nat, k \in S PROVE k + 1 \in S
  <2>1. SUFFICES ASSUME k + 1 <= n, NEW s \in SUBSET (1..k + 1) PROVE f[s] = g[s]
    OBVIOUS
  <2>2. CASE k + 1 \in s
    <3>1. Max(s) = k + 1 /\ s \ {k + 1} \in SUBSET (1..k)
      BY <2>2, LastOfPositions
    <3>2. s \in SUBSET (1..n) /\ s \in SUBSET (1..m) /\ s # {} /\ k + 1 \in 1..n
      BY <2>1, <2>2
    <3>3. f[s] = op(env, f[s \ {k + 1}], seq[k + 1])
      BY <3>1, <3>2 DEF Steps
    <3>4. g[s] = op(env, g[s \ {k + 1}], longer[k + 1])
      BY <3>1, <3>2 DEF Steps
    <3>5. f[s \ {k + 1}] = g[s \ {k + 1}] /\ seq[k + 1] = longer[k + 1]
      BY <1>2, <2>1, <3>1, <3>2
    <3> QED BY <3>3, <3>4, <3>5
  <2>3. CASE k + 1 \notin s
    <3>1. s \in SUBSET (1..k)
      BY <2>3
    <3> QED BY <3>1, <1>2, <2>1
  <2> QED BY <2>2, <2>3
<1>3. n \in S
  <2> HIDE DEF S
  <2> QED BY <1>1, <1>2, SetInduction
<1>4. 1..n \in SUBSET (1..n)
  OBVIOUS
<1> QED BY <1>3, <1>4

-----------------------------------------------------------------------------

\* Nothing to fold: what it started with.
THEOREM FoldEmpty ==
  ASSUME NEW env, NEW base
  PROVE  Fold(env, base, << >>) = base
<1>1. DOMAIN << >> = 1..0 /\ 1..0 = {}
  OBVIOUS
<1>2. PICK f : Steps(f, 0, env, base, << >>) /\ Fold(env, base, << >>) = f[1..0]
  BY <1>1, FoldTakesSteps
<1>3. {} \in SUBSET (1..0)
  OBVIOUS
<1> QED BY <1>1, <1>2, <1>3 DEF Steps

\* One element more at the end: one step more.
THEOREM FoldAppend ==
  ASSUME NEW env, NEW base, NEW S, NEW seq \in Seq(S), NEW e \in S
  PROVE  Fold(env, base, Append(seq, e)) = op(env, Fold(env, base, seq), e)
<1> DEFINE n == Len(seq)
           longer == Append(seq, e)
<1>1. /\ n \in Nat /\ DOMAIN seq = 1..n /\ DOMAIN longer = 1..n + 1
      /\ \A i \in 1..n : seq[i] = longer[i]
      /\ longer[n + 1] = e
  BY AppendProperties, LenProperties
<1> HIDE DEF longer, n
<1>2. PICK f : Steps(f, n, env, base, seq) /\ Fold(env, base, seq) = f[1..n]
  BY <1>1, FoldTakesSteps
<1>3. PICK g : Steps(g, n + 1, env, base, longer) /\ Fold(env, base, longer) = g[1..n + 1]
  BY <1>1, FoldTakesSteps
<1>4. f[1..n] = g[1..n]
  <2>1. n <= n + 1 /\ n + 1 \in Nat
    BY <1>1
  <2> QED BY <1>1, <1>2, <1>3, <2>1, StepsAgree
<1>5. g[1..n + 1] = op(env, g[1..n], longer[n + 1])
  <2>1. 1..n + 1 \in SUBSET (1..n + 1) /\ 1..n + 1 # {}
    BY <1>1
  <2>2. Max(1..n + 1) = n + 1 /\ (1..n + 1) \ {n + 1} = 1..n
    BY <1>1, LastPosition
  <2>3. g[1..n + 1] = op(env, g[(1..n + 1) \ {Max(1..n + 1)}], longer[Max(1..n + 1)])
    BY <1>3, <2>1 DEF Steps
  <2> QED BY <2>2, <2>3
<1> QED BY <1>1, <1>2, <1>3, <1>4, <1>5 DEF longer

\* One step of the fold, by position.
THEOREM FoldNext ==
  ASSUME NEW env, NEW base, NEW S, NEW seq \in Seq(S), NEW n \in 1..Len(seq)
  PROVE  Fold(env, base, SubSeq(seq, 1, n)) =
           op(env, Fold(env, base, SubSeq(seq, 1, n - 1)), seq[n])
<1> DEFINE front == SubSeq(seq, 1, n - 1)
<1>1. SubSeq(seq, 1, n) = Append(front, seq[n])
  OBVIOUS
<1>2. front \in Seq(S) /\ seq[n] \in S
  OBVIOUS
<1>3. Fold(env, base, Append(front, seq[n])) = op(env, Fold(env, base, front), seq[n])
  <2> HIDE DEF front
  <2> QED BY <1>2, FoldAppend
<1> QED BY <1>1, <1>3

\* What holds at first, and after a step if it did before, holds in the end.
THEOREM FoldInvariant ==
  ASSUME NEW env, NEW base, NEW S, NEW seq \in Seq(S), NEW Inv,
         base \in Inv, \A acc \in Inv, e \in S : op(env, acc, e) \in Inv
  PROVE  Fold(env, base, seq) \in Inv
<1> DEFINE T == {n \in Nat : \A s \in Seq(S) : Len(s) = n => Fold(env, base, s) \in Inv}
<1>1. 0 \in T
  BY FoldEmpty
<1>2. ASSUME NEW n \in Nat, n \in T PROVE n + 1 \in T
  <2>1. SUFFICES ASSUME NEW s \in Seq(S), Len(s) = n + 1 PROVE Fold(env, base, s) \in Inv
    OBVIOUS
  <2>2. PICK t \in Seq(S), e \in S : s = Append(t, e)
    <3>1. s # << >>
      BY <2>1
    <3> QED BY <3>1, SequenceEmptyOrAppend
  <2>3. Len(t) = n
    BY <2>1, <2>2
  <2>4. Fold(env, base, t) \in Inv
    BY <1>2, <2>3
  <2> QED BY <2>2, <2>4, FoldAppend
<1>3. Len(seq) \in T
  <2> HIDE DEF T
  <2> QED BY <1>1, <1>2, SetInduction
<1> QED BY <1>3

\* The same for a relation between what has been computed and what it was
\* computed from.
THEOREM FoldRelation ==
  ASSUME NEW env, NEW base, NEW S, NEW seq \in Seq(S), NEW Rel,
         <<base, << >>>> \in Rel,
         \A acc : \A s \in Seq(S), e \in S :
           <<acc, s>> \in Rel => <<op(env, acc, e), Append(s, e)>> \in Rel
  PROVE  <<Fold(env, base, seq), seq>> \in Rel
<1> DEFINE T == {n \in Nat : \A s \in Seq(S) : Len(s) = n => <<Fold(env, base, s), s>> \in Rel}
<1>1. 0 \in T
  <2>1. \A s \in Seq(S) : Len(s) = 0 => s = << >>
    OBVIOUS
  <2> QED BY <2>1, FoldEmpty
<1>2. ASSUME NEW n \in Nat, n \in T PROVE n + 1 \in T
  <2>1. SUFFICES ASSUME NEW s \in Seq(S), Len(s) = n + 1 PROVE <<Fold(env, base, s), s>> \in Rel
    OBVIOUS
  <2>2. PICK t \in Seq(S), e \in S : s = Append(t, e)
    <3>1. s # << >>
      BY <2>1
    <3> QED BY <3>1, SequenceEmptyOrAppend
  <2>3. Len(t) = n
    BY <2>1, <2>2
  <2>4. <<Fold(env, base, t), t>> \in Rel
    BY <1>2, <2>3
  <2>5. Fold(env, base, Append(t, e)) = op(env, Fold(env, base, t), e)
    BY FoldAppend
  <2> QED BY <2>2, <2>4, <2>5
<1>3. Len(seq) \in T
  <2> HIDE DEF T
  <2> QED BY <1>1, <1>2, SetInduction
<1> QED BY <1>3

\* A fold over two sequences goes on with the second where the first ended.
THEOREM FoldConcat ==
  ASSUME NEW env, NEW base, NEW S, NEW seq \in Seq(S), NEW more \in Seq(S)
  PROVE  Fold(env, base, seq \o more) = Fold(env, Fold(env, base, seq), more)
<1> DEFINE T == {n \in Nat : \A s \in Seq(S) : Len(s) = n =>
                   Fold(env, base, seq \o s) = Fold(env, Fold(env, base, seq), s)}
<1>1. 0 \in T
  <2>1. \A s \in Seq(S) : Len(s) = 0 => s = << >> /\ seq \o s = seq
    OBVIOUS
  <2> QED BY <2>1, FoldEmpty
<1>2. ASSUME NEW n \in Nat, n \in T PROVE n + 1 \in T
  <2>1. SUFFICES ASSUME NEW s \in Seq(S), Len(s) = n + 1
                 PROVE  Fold(env, base, seq \o s) = Fold(env, Fold(env, base, seq), s)
    OBVIOUS
  <2>2. PICK t \in Seq(S), e \in S : s = Append(t, e)
    <3>1. s # << >>
      BY <2>1
    <3> QED BY <3>1, SequenceEmptyOrAppend
  <2>3. Len(t) = n
    BY <2>1, <2>2
  <2>4. seq \o s = Append(seq \o t, e) /\ seq \o t \in Seq(S)
    BY <2>2
  <2>5. Fold(env, base, seq \o t) = Fold(env, Fold(env, base, seq), t)
    BY <1>2, <2>3
  <2>6. Fold(env, base, seq \o s) = op(env, Fold(env, base, seq \o t), e)
    <3> DEFINE front == seq \o t
    <3>1. Fold(env, base, Append(front, e)) = op(env, Fold(env, base, front), e)
      <4>1. front \in Seq(S)
        BY <2>4
      <4> HIDE DEF front
      <4> QED BY <4>1, FoldAppend
    <3> QED BY <2>4, <3>1
  <2>7. Fold(env, Fold(env, base, seq), s) = op(env, Fold(env, Fold(env, base, seq), t), e)
    BY <2>2, FoldAppend
  <2> QED BY <2>5, <2>6, <2>7
<1>3. Len(more) \in T
  <2> HIDE DEF T
  <2> QED BY <1>1, <1>2, SetInduction
<1> QED BY <1>3
=============================================================================
