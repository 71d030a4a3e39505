----------------------------- MODULE LoopProofs -----------------------------
(***************************************************************************)
(* The two components whose work is loops over lists, proved for lists of  *)
(* any length: the frame codec, for rings of any segments, titles and      *)
(* numbers and for any byte of a packet, and the installer, for files of   *)
(* any lines, groups and rules and for any number of runs and kills.       *)
(*                                                                         *)
(* What a loop over a list computes is proved by induction over the list.  *)
(* The induction is one over sets: what is to be shown of all lists is     *)
(* the set P of those it is true of, and ListInduction says that P is all. *)
(***************************************************************************)
EXTENDS Installer, FrameCodec, FiniteSetTheorems, SequenceTheorems,
        NaturalsInduction, WellFoundedInduction, TLAPS

(***************************************************************************)
(* Loops over lists                                                        *)
(***************************************************************************)

LEMMA LeastNatural ==
  ASSUME NEW S \in SUBSET Nat, S # {}
  PROVE  \E i \in S : \A j \in S : i <= j
<1> DEFINE Less == {p \in Nat \X Nat : p[1] < p[2]}
<1>1. IsWellFoundedOn(Less, Nat)
  BY NatLessThanWellFounded DEF OpToRel
<1> HIDE DEF Less
<1>2. PICK i \in S : \A j \in S : <<j, i>> \notin Less
  BY <1>1, WFMin
<1>3. \A j \in S : ~(j < i)
  BY <1>2 DEF Less
<1> QED
  BY <1>3

(* Induction, for what can be said of a number as its membership in a set. *)
LEMMA Induction ==
  ASSUME NEW S, 0 \in S, \A n \in Nat : n \in S => n + 1 \in S
  PROVE  Nat \subseteq S
<1> SUFFICES ASSUME NEW n \in Nat, n \notin S PROVE FALSE
  OBVIOUS
<1>1. PICK m \in Nat \ S : \A j \in Nat \ S : m <= j
  BY LeastNatural
<1>2. m # 0 /\ m - 1 \in Nat
  BY <1>1
<1>3. m - 1 \in S
  BY <1>1, <1>2
<1> QED
  BY <1>1, <1>2, <1>3

(* Induction over lists.                                                   *)
LEMMA ListInduction ==
  ASSUME NEW T, NEW S, <<>> \in S,
         \A s \in Seq(T), x \in T : s \in S => Append(s, x) \in S
  PROVE  Seq(T) \subseteq S
<1> DEFINE N == {n \in Nat : \A s \in Seq(T) : Len(s) = n => s \in S}
<1>1. 0 \in N
  <2>1. \A s \in Seq(T) : Len(s) = 0 => s = <<>>
    OBVIOUS
  <2> QED
    BY <2>1
<1>2. ASSUME NEW n \in Nat, n \in N, NEW s \in Seq(T), Len(s) = n + 1
      PROVE  s \in S
  <2> DEFINE front == SubSeq(s, 1, n)
             last  == s[n + 1]
  <2>1. front \in Seq(T) /\ Len(front) = n /\ last \in T
    BY <1>2
  <2>2. s = Append(front, last)
    BY <1>2, <2>1
  <2>3. front \in S
    BY <1>2, <2>1
  <2> QED
    BY <2>1, <2>2, <2>3
<1>3. Nat \subseteq N
  <2>1. \A n \in Nat : n \in N => n + 1 \in N
    BY <1>2
  <2> HIDE DEF N
  <2> QED
    BY <1>1, <2>1, Induction
<1> QED
  BY <1>3

(* The body of a loop that works on V and goes over a list of T.           *)
Loop(V, T, step, start) == step \in [T -> [V -> V]] /\ start \in V

(* What the loop has computed after each element.                          *)
IsRun(r, V, step, start, list) ==
  /\ r \in [0 .. Len(list) -> V]
  /\ r[0] = start
  /\ \A i \in 1 .. Len(list) : r[i] = step[list[i]][r[i - 1]]

(* A loop over a list is well defined.                                     *)
LEMMA RunExists ==
  ASSUME NEW V, NEW T, NEW step, NEW start, Loop(V, T, step, start), NEW list \in Seq(T)
  PROVE  \E r : IsRun(r, V, step, start, list)
<1> USE DEF Loop
<1> DEFINE Runs(n) == {r \in [0 .. n -> V] :
                         /\ r[0] = start
                         /\ \A i \in 1 .. n : r[i] = step[list[i]][r[i - 1]]}
           N == {n \in Nat : n <= Len(list) => Runs(n) # {}}
<1>1. 0 \in N
  <2> DEFINE r == [i \in 0 .. 0 |-> start]
  <2>1. r \in [0 .. 0 -> V] /\ r[0] = start
    OBVIOUS
  <2>2. \A i \in 1 .. 0 : FALSE
    OBVIOUS
  <2>3. r \in Runs(0)
    BY <2>1, <2>2
  <2> QED
    BY <2>3
<1>2. ASSUME NEW n \in Nat, n \in N, n + 1 <= Len(list)
      PROVE  Runs(n + 1) # {}
  <2>1. PICK r \in Runs(n) : TRUE
    BY <1>2
  <2>2. list[n + 1] \in T /\ r[n] \in V
    BY <1>2
  <2>3. step[list[n + 1]][r[n]] \in V
    BY <2>2
  <2> DEFINE q == [i \in 0 .. n + 1 |-> IF i = n + 1 THEN step[list[n + 1]][r[n]] ELSE r[i]]
  <2>4. q \in [0 .. n + 1 -> V]
    BY <2>3
  <2>5. q[0] = start
    BY <2>1
  <2>6. ASSUME NEW i \in 1 .. n + 1 PROVE q[i] = step[list[i]][q[i - 1]]
    <3>1. CASE i = n + 1
      BY <3>1
    <3>2. CASE i # n + 1
      BY <2>1, <3>2
    <3> QED
      BY <3>1, <3>2
  <2>7. q \in Runs(n + 1)
    <3> HIDE DEF q
    <3> QED
      BY <2>4, <2>5, <2>6
  <2> QED
    BY <2>7
<1>3. Len(list) \in N
  <2>1. \A n \in Nat : n \in N => n + 1 \in N
    <3> HIDE DEF Runs
    <3> QED
      BY <1>2
  <2>2. Len(list) \in Nat
    OBVIOUS
  <2> HIDE DEF N
  <2> QED
    BY <1>1, <2>1, <2>2, Induction
<1> QED
  BY <1>3 DEF IsRun

(* ... and it is what Fold computes.                                       *)
LEMMA RunIsFold ==
  ASSUME NEW V, NEW T, NEW step, NEW start, Loop(V, T, step, start), NEW list \in Seq(T),
         NEW r, IsRun(r, V, step, start, list)
  PROVE  Fold(step, start, list) = r[Len(list)]
<1> USE DEF IsRun
<1> DEFINE n == Len(list)
           Body(f) == [i \in 0 .. n |->
                         IF i = 0 THEN start ELSE step[list[i]][f[i - 1]]]
           run == CHOOSE f : f = Body(f)
<1>1. r = Body(r)
  OBVIOUS
<1>2. run = Body(run)
  BY <1>1
<1>3. Fold(step, start, list) = run[n]
  BY DEF Fold
<1> HIDE DEF run
<1>a. run[0] = start
  BY <1>2
<1>b. ASSUME NEW i \in 1 .. n PROVE run[i] = step[list[i]][run[i - 1]]
  <2>1. i \in 0 .. n /\ i # 0
    OBVIOUS
  <2> HIDE DEF n
  <2> QED
    BY <1>2, <2>1
<1> DEFINE N == {i \in Nat : i <= n => run[i] = r[i]}
<1>4. 0 \in N
  BY <1>a
<1>5. ASSUME NEW i \in Nat, i \in N, i + 1 <= n PROVE run[i + 1] = r[i + 1]
  BY <1>5, <1>b
<1>6. \A i \in Nat : i \in N => i + 1 \in N
  BY <1>5
<1>7. n \in Nat
  OBVIOUS
<1>8. n \in N
  <2> HIDE DEF N, n
  <2> QED
    BY <1>4, <1>6, <1>7, Induction
<1> QED
  BY <1>3, <1>7, <1>8

(* One more element is one more step.                                      *)
LEMMA FoldLaw ==
  ASSUME NEW V, NEW T, NEW step, NEW start, Loop(V, T, step, start), NEW list \in Seq(T)
  PROVE  /\ Fold(step, start, <<>>) = start
         /\ Fold(step, start, list) \in V
         /\ \A x \in T : Fold(step, start, Append(list, x))
                           = step[x][Fold(step, start, list)]
<1>1. Fold(step, start, <<>>) = start
  <2>0. <<>> \in Seq(T)
    OBVIOUS
  <2>1. PICK empty \in Seq(T) : empty = <<>>
    BY <2>0, Zenon
  <2>2. PICK r : IsRun(r, V, step, start, empty)
    BY RunExists
  <2>3. Fold(step, start, empty) = r[Len(empty)]
    BY <2>2, RunIsFold
  <2> QED
    BY <2>1, <2>2, <2>3 DEF IsRun
<1>2. PICK r : IsRun(r, V, step, start, list)
  BY RunExists
<1>3. Fold(step, start, list) = r[Len(list)]
  BY <1>2, RunIsFold
<1>4. r[Len(list)] \in V
  BY <1>2 DEF IsRun
<1>5. ASSUME NEW x \in T
      PROVE  Fold(step, start, Append(list, x)) = step[x][Fold(step, start, list)]
  <2> DEFINE longer == Append(list, x)
             n == Len(list)
  <2>1. longer \in Seq(T) /\ Len(longer) = n + 1 /\ n \in Nat /\ longer[n + 1] = x
        /\ \A i \in 1 .. n : longer[i] = list[i]
    OBVIOUS
  <2>2. step[x][r[n]] \in V
    BY <1>4 DEF Loop
  <2> DEFINE q == [i \in 0 .. n + 1 |-> IF i = n + 1 THEN step[x][r[n]] ELSE r[i]]
  <2>3. q \in [0 .. Len(longer) -> V]
    BY <1>2, <2>1, <2>2 DEF IsRun
  <2>4. q[0] = start
    BY <1>2, <2>1 DEF IsRun
  <2>5. ASSUME NEW i \in 1 .. Len(longer) PROVE q[i] = step[longer[i]][q[i - 1]]
    <3>1. CASE i = n + 1
      BY <2>1, <3>1
    <3>2. CASE i # n + 1
      BY <1>2, <2>1, <3>2 DEF IsRun
    <3> QED
      BY <3>1, <3>2
  <2>6. q[n + 1] = step[x][r[n]]
    BY <2>1
  <2>7. IsRun(q, V, step, start, longer)
    <3> HIDE DEF q, longer
    <3> QED
      BY <2>3, <2>4, <2>5 DEF IsRun
  <2>8. Fold(step, start, longer) = q[Len(longer)]
    <3> HIDE DEF q, longer
    <3> QED
      BY <2>1, <2>7, RunIsFold
  <2> QED
    BY <1>3, <2>1, <2>6, <2>8
<1> QED
  BY <1>1, <1>3, <1>4, <1>5

(* A loop does the same when it is seen as one over more.                  *)
LEMMA WiderLoop ==
  ASSUME NEW V, NEW T, NEW step, NEW start, Loop(V, T, step, start), NEW list \in Seq(T),
         NEW W, NEW U, NEW wide, Loop(W, U, wide, start), V \subseteq W, T \subseteq U,
         \A x \in T, v \in V : step[x][v] = wide[x][v]
  PROVE  Fold(step, start, list) = Fold(wide, start, list)
<1>1. PICK r : IsRun(r, V, step, start, list)
  BY RunExists
<1>2. IsRun(r, W, wide, start, list)
  <2>1. /\ r \in [0 .. Len(list) -> V] /\ r[0] = start
        /\ \A i \in 1 .. Len(list) : r[i] = step[list[i]][r[i - 1]]
    BY <1>1 DEF IsRun
  <2>2. \A i \in 1 .. Len(list) : list[i] \in T /\ r[i - 1] \in V
    BY <2>1
  <2>3. \A i \in 1 .. Len(list) : r[i] = wide[list[i]][r[i - 1]]
    BY <2>1, <2>2
  <2>4. r \in [0 .. Len(list) -> W]
    BY <2>1
  <2> QED
    BY <2>1, <2>3, <2>4 DEF IsRun
<1>3. list \in Seq(U)
  OBVIOUS
<1> QED
  BY <1>1, <1>2, <1>3, RunIsFold

LEMMA ElementsOf ==
  ASSUME NEW T, NEW list \in Seq(T)
  PROVE  Elements(list) \subseteq T /\ list \in Seq(Elements(list))
BY DEF Elements

(* What Without leaves of a list that gets one element more.               *)
LEMMA WithoutLaw ==
  ASSUME NEW T, NEW S, NEW list \in Seq(T)
  PROVE  /\ Without(<<>>, S) = <<>>
         /\ Without(list, S) \in Seq(T)
         /\ \A x \in T : Without(Append(list, x), S) =
              IF x \in S THEN Without(list, S) ELSE Append(Without(list, S), x)
<1> DEFINE keep(A) == [x \in A |-> [out \in Seq(A) |-> IF x \in S THEN out ELSE Append(out, x)]]
<1>1. ASSUME NEW A
      PROVE  /\ Loop(Seq(A), A, keep(A), <<>>)
             /\ \A x \in A, out \in Seq(A) :
                  keep(A)[x][out] = IF x \in S THEN out ELSE Append(out, x)
  <2>1. ASSUME NEW x \in A, NEW out \in Seq(A)
        PROVE  (IF x \in S THEN out ELSE Append(out, x)) \in Seq(A)
    OBVIOUS
  <2>2. keep(A) \in [A -> [Seq(A) -> Seq(A)]]
    BY <2>1
  <2>3. <<>> \in Seq(A)
    OBVIOUS
  <2> QED
    BY <2>2, <2>3 DEF Loop
<1>2. ASSUME NEW s PROVE Without(s, S) = Fold(keep(Elements(s)), <<>>, s)
  BY DEF Without
<1> HIDE DEF keep
<1>3. ASSUME NEW s \in Seq(T) PROVE Without(s, S) = Fold(keep(T), <<>>, s)
  <2> DEFINE A == Elements(s)
  <2>1. A \subseteq T /\ s \in Seq(A)
    BY ElementsOf
  <2>2. Seq(A) \subseteq Seq(T)
    BY <2>1
  <2>3. Loop(Seq(A), A, keep(A), <<>>) /\ Loop(Seq(T), T, keep(T), <<>>)
    BY <1>1
  <2>4. \A x \in A, out \in Seq(A) : keep(A)[x][out] = keep(T)[x][out]
    BY <1>1, <2>1, <2>2
  <2> HIDE DEF A
  <2>5. Fold(keep(A), <<>>, s) = Fold(keep(T), <<>>, s)
    BY <2>1, <2>2, <2>3, <2>4, WiderLoop
  <2> QED
    BY <1>2, <2>5 DEF A
<1>4. <<>> \in Seq(T) /\ \A x \in T : Append(list, x) \in Seq(T)
  OBVIOUS
<1>5. Loop(Seq(T), T, keep(T), <<>>)
  BY <1>1
<1>6. /\ Fold(keep(T), <<>>, <<>>) = <<>>
      /\ Fold(keep(T), <<>>, list) \in Seq(T)
      /\ \A x \in T : Fold(keep(T), <<>>, Append(list, x)) = keep(T)[x][Fold(keep(T), <<>>, list)]
  BY <1>5, FoldLaw
<1>7. Without(<<>>, S) = <<>>
  BY <1>3, <1>4, <1>6, Zenon
<1>8. Without(list, S) \in Seq(T)
  BY <1>3, <1>6, Zenon
<1>9. ASSUME NEW x \in T
      PROVE  Without(Append(list, x), S) =
               IF x \in S THEN Without(list, S) ELSE Append(Without(list, S), x)
  <2>1. /\ Without(list, S) = Fold(keep(T), <<>>, list)
        /\ Without(Append(list, x), S) = keep(T)[x][Fold(keep(T), <<>>, list)]
    BY <1>3, <1>4, <1>6, Zenon
  <2> QED
    BY <1>1, <1>8, <2>1
<1> QED
  BY <1>7, <1>8, <1>9

LEMMA ConcatLaw ==
  ASSUME NEW T, NEW s \in Seq(T)
  PROVE  /\ s \o <<>> = s
         /\ <<>> \o s = s
         /\ \A t \in Seq(T) : s \o t \in Seq(T)
         /\ \A t \in Seq(T), x \in T : s \o Append(t, x) = Append(s \o t, x)
         /\ \A x \in T : s \o <<x>> = Append(s, x)
         /\ \A t \in Seq(T), u \in Seq(T) : (s \o t) \o u = s \o (t \o u)
OBVIOUS

LEMMA ElementsLaw ==
  ASSUME NEW T, NEW list \in Seq(T)
  PROVE  /\ Elements(<<>>) = {}
         /\ \A x \in T : Elements(Append(list, x)) = Elements(list) \cup {x}
         /\ \A t \in Seq(T) : Elements(list \o t) = Elements(list) \cup Elements(t)
<1>1. Elements(<<>>) = {}
  BY DEF Elements
<1>2. ASSUME NEW x \in T PROVE Elements(Append(list, x)) = Elements(list) \cup {x}
  <2>1. /\ Len(Append(list, x)) = Len(list) + 1 /\ Len(list) \in Nat
        /\ Append(list, x)[Len(list) + 1] = x
        /\ \A i \in 1 .. Len(list) : Append(list, x)[i] = list[i]
    OBVIOUS
  <2>2. x \in Elements(Append(list, x))
    BY <2>1 DEF Elements
  <2>3. \A y : y \in Elements(list) => y \in Elements(Append(list, x))
    BY <2>1 DEF Elements
  <2>4. ASSUME NEW i \in 1 .. Len(Append(list, x))
        PROVE  Append(list, x)[i] \in Elements(list) \cup {x}
    BY <2>1 DEF Elements
  <2> QED
    BY <2>2, <2>3, <2>4 DEF Elements
<1>3. ASSUME NEW t \in Seq(T)
      PROVE  Elements(list \o t) = Elements(list) \cup Elements(t)
  <2>1. /\ Len(list \o t) = Len(list) + Len(t) /\ Len(list) \in Nat /\ Len(t) \in Nat
        /\ \A i \in 1 .. Len(list) : (list \o t)[i] = list[i]
        /\ \A i \in 1 .. Len(t) : (list \o t)[Len(list) + i] = t[i]
    OBVIOUS
  <2>2. \A y : y \in Elements(list) => y \in Elements(list \o t)
    BY <2>1 DEF Elements
  <2>3. \A y : y \in Elements(t) => y \in Elements(list \o t)
    BY <2>1 DEF Elements
  <2>4. ASSUME NEW i \in 1 .. Len(list \o t)
        PROVE  (list \o t)[i] \in Elements(list) \cup Elements(t)
    <3>1. CASE i <= Len(list)
      BY <2>1, <3>1 DEF Elements
    <3>2. CASE i > Len(list)
      <4>1. i - Len(list) \in 1 .. Len(t) /\ i = Len(list) + (i - Len(list))
        BY <2>1, <3>2
      <4> QED
        BY <2>1, <4>1 DEF Elements
    <3> QED
      BY <2>1, <3>1, <3>2
  <2>5. Elements(list \o t) = {(list \o t)[i] : i \in 1 .. Len(list \o t)}
    BY DEF Elements
  <2> QED
    BY <2>2, <2>3, <2>4, <2>5
<1> QED
  BY <1>1, <1>2, <1>3

(* What stays is what is not in S; nothing else changes.                   *)
LEMMA WithoutElements ==
  ASSUME NEW T, NEW S, NEW list \in Seq(T)
  PROVE  /\ Elements(Without(list, S)) = Elements(list) \ S
         /\ Elements(list) \cap S = {} => Without(list, S) = list
         /\ Elements(list) \subseteq S => Without(list, S) = <<>>
<1> DEFINE P == {s \in Seq(T) :
                   /\ Elements(Without(s, S)) = Elements(s) \ S
                   /\ Elements(s) \cap S = {} => Without(s, S) = s
                   /\ Elements(s) \subseteq S => Without(s, S) = <<>>}
<1>1. <<>> \in P
  <2>1. <<>> \in Seq(T)
    OBVIOUS
  <2>2. Without(<<>>, S) = <<>> /\ Elements(<<>>) = {}
    BY <2>1, WithoutLaw, ElementsLaw
  <2> QED
    BY <2>1, <2>2
<1>2. ASSUME NEW s \in Seq(T), NEW x \in T, s \in P PROVE Append(s, x) \in P
  <2>1. /\ Without(s, S) \in Seq(T)
        /\ Without(Append(s, x), S) = IF x \in S THEN Without(s, S) ELSE Append(Without(s, S), x)
    BY WithoutLaw
  <2>2. /\ Elements(Append(s, x)) = Elements(s) \cup {x}
        /\ Elements(Append(Without(s, S), x)) = Elements(Without(s, S)) \cup {x}
    BY <2>1, ElementsLaw
  <2>3. Append(s, x) \in Seq(T)
    OBVIOUS
  <2>4. CASE x \in S
    <3>1. Without(Append(s, x), S) = Without(s, S)
      BY <2>1, <2>4
    <3> QED
      BY <1>2, <2>2, <2>3, <2>4, <3>1
  <2>5. CASE x \notin S
    <3>1. Without(Append(s, x), S) = Append(Without(s, S), x)
      BY <2>1, <2>5
    <3> QED
      BY <1>2, <2>2, <2>3, <2>5, <3>1
  <2> QED
    BY <2>4, <2>5
<1>3. Seq(T) \subseteq P
  <2> HIDE DEF P
  <2> QED
    BY <1>1, <1>2, ListInduction
<1> QED
  BY <1>3

LEMMA WithoutConcat ==
  ASSUME NEW T, NEW S, NEW list \in Seq(T), NEW more \in Seq(T)
  PROVE  Without(list \o more, S) = Without(list, S) \o Without(more, S)
<1> DEFINE P == {t \in Seq(T) : Without(list \o t, S) = Without(list, S) \o Without(t, S)}
<1>1. <<>> \in P
  <2>1. <<>> \in Seq(T) /\ Without(list, S) \in Seq(T)
    BY WithoutLaw
  <2>2. Without(<<>>, S) = <<>>
    BY WithoutLaw
  <2>3. list \o <<>> = list /\ Without(list, S) \o <<>> = Without(list, S)
    BY <2>1, ConcatLaw
  <2> QED
    BY <2>1, <2>2, <2>3
<1>2. ASSUME NEW t \in Seq(T), NEW x \in T, t \in P PROVE Append(t, x) \in P
  <2>1. Append(t, x) \in Seq(T) /\ list \o t \in Seq(T)
    OBVIOUS
  <2>2. Without(t, S) \in Seq(T) /\ Without(list, S) \in Seq(T)
    BY WithoutLaw
  <2>3. \A a \in Seq(T), b \in Seq(T) : a \o Append(b, x) = Append(a \o b, x)
    BY ConcatLaw
  <2>4. \A a \in Seq(T) :
          Without(Append(a, x), S) = IF x \in S THEN Without(a, S) ELSE Append(Without(a, S), x)
    BY WithoutLaw
  <2>5. /\ list \o Append(t, x) = Append(list \o t, x)
        /\ Without(list, S) \o Append(Without(t, S), x) = Append(Without(list, S) \o Without(t, S), x)
    BY <2>2, <2>3
  <2>6. /\ Without(Append(t, x), S) = IF x \in S THEN Without(t, S) ELSE Append(Without(t, S), x)
        /\ Without(Append(list \o t, x), S) =
             IF x \in S THEN Without(list \o t, S) ELSE Append(Without(list \o t, S), x)
    BY <2>1, <2>4
  <2> QED
    BY <1>2, <2>1, <2>5, <2>6
<1>3. Seq(T) \subseteq P
  <2> HIDE DEF P
  <2> QED
    BY <1>1, <1>2, ListInduction
<1> QED
  BY <1>3

(***************************************************************************)
(* The checksum                                                            *)
(***************************************************************************)

(* The place of a bit, if a and b differ there.                            *)
Differ(a, b, place) == IF (a \div place) % 2 = (b \div place) % 2 THEN 0 ELSE place

LEMMA BitsOf ==
  ASSUME NEW a \in Byte
  PROVE  a = (a % 2) + 2 * ((a \div 2) % 2) + 4 * ((a \div 4) % 2) + 8 * ((a \div 8) % 2)
               + 16 * ((a \div 16) % 2) + 32 * ((a \div 32) % 2) + 64 * ((a \div 64) % 2)
               + 128 * ((a \div 128) % 2)
BY DEF Byte

(* Bytes with the same bits are the same.                                  *)
LEMMA SameBits ==
  ASSUME NEW a \in Byte, NEW b \in Byte,
         \A k \in {1, 2, 4, 8, 16, 32, 64, 128} : (a \div k) % 2 = (b \div k) % 2
  PROVE  a = b
<1>1. a \div 1 = a /\ b \div 1 = b
  BY DEF Byte
<1>2. /\ a % 2 = b % 2 /\ (a \div 2) % 2 = (b \div 2) % 2 /\ (a \div 4) % 2 = (b \div 4) % 2
      /\ (a \div 8) % 2 = (b \div 8) % 2 /\ (a \div 16) % 2 = (b \div 16) % 2
      /\ (a \div 32) % 2 = (b \div 32) % 2 /\ (a \div 64) % 2 = (b \div 64) % 2
      /\ (a \div 128) % 2 = (b \div 128) % 2
  BY <1>1
<1> QED
  BY <1>2, BitsOf

LEMMA SumOfBits ==
  ASSUME NEW a1 \in {0, 1}, NEW a2 \in {0, 2}, NEW a4 \in {0, 4}, NEW a8 \in {0, 8},
         NEW a16 \in {0, 16}, NEW a32 \in {0, 32}, NEW a64 \in {0, 64}, NEW a128 \in {0, 128},
         NEW b1 \in {0, 1}, NEW b2 \in {0, 2}, NEW b4 \in {0, 4}, NEW b8 \in {0, 8},
         NEW b16 \in {0, 16}, NEW b32 \in {0, 32}, NEW b64 \in {0, 64}, NEW b128 \in {0, 128},
         a1 + a2 + a4 + a8 + a16 + a32 + a64 + a128
           = b1 + b2 + b4 + b8 + b16 + b32 + b64 + b128
  PROVE  /\ a1 = b1 /\ a2 = b2 /\ a4 = b4 /\ a8 = b8
         /\ a16 = b16 /\ a32 = b32 /\ a64 = b64 /\ a128 = b128
OBVIOUS

LEMMA XorLaw ==
  ASSUME NEW a \in Byte, NEW b \in Byte
  PROVE  /\ Xor(a, b) \in Byte
         /\ Xor(a, b) = Xor(b, a)
         /\ \A c \in Byte : Xor(a, b) = Xor(a, c) => b = c
<1>1. \A x, y : Xor(x, y) = Differ(x, y, 1) + Differ(x, y, 2) + Differ(x, y, 4) + Differ(x, y, 8)
                + Differ(x, y, 16) + Differ(x, y, 32) + Differ(x, y, 64) + Differ(x, y, 128)
  BY DEF Xor, Differ
<1>2. \A x, y, k : Differ(x, y, k) \in {0, k}
  BY DEF Differ
<1>3. Xor(a, b) \in Byte
  BY <1>1, <1>2 DEF Byte
<1>4. Xor(a, b) = Xor(b, a)
  <2>1. \A k : Differ(a, b, k) = Differ(b, a, k)
    BY DEF Differ
  <2> QED
    BY <1>1, <2>1
<1>5. ASSUME NEW c \in Byte, Xor(a, b) = Xor(a, c) PROVE b = c
  <2>1. /\ Differ(a, b, 1) = Differ(a, c, 1) /\ Differ(a, b, 2) = Differ(a, c, 2)
        /\ Differ(a, b, 4) = Differ(a, c, 4) /\ Differ(a, b, 8) = Differ(a, c, 8)
        /\ Differ(a, b, 16) = Differ(a, c, 16) /\ Differ(a, b, 32) = Differ(a, c, 32)
        /\ Differ(a, b, 64) = Differ(a, c, 64) /\ Differ(a, b, 128) = Differ(a, c, 128)
    BY <1>1, <1>2, <1>5, SumOfBits
  <2>2. ASSUME NEW k \in {1, 2, 4, 8, 16, 32, 64, 128}
        PROVE  (b \div k) % 2 = (c \div k) % 2
    <3>1. Differ(a, b, k) = Differ(a, c, k) /\ k # 0
      BY <2>1
    <3>2. \A x \in Byte : (x \div k) % 2 \in {0, 1}
      BY DEF Byte
    <3> QED
      BY <3>1, <3>2 DEF Differ
  <2> QED
    BY <2>2, SameBits
<1> QED
  BY <1>3, <1>4, <1>5

OneToOne(f) == f \in [Byte -> Byte] /\ \A x, y \in Byte : f[x] = f[y] => x = y

LEMMA ShiftLaw == OneToOne(CrcShift)
<1> DEFINE shifted(x) == IF x % 2 = 1 THEN Xor(x \div 2, 140) ELSE x \div 2
<1>1. \A x \in Byte : x \div 2 \in 0 .. 127 /\ x \div 2 \in Byte /\ x % 2 \in {0, 1}
                      /\ x = 2 * (x \div 2) + (x % 2)
  BY DEF Byte
<1>2. 140 \in Byte
  BY DEF Byte
(* The shift leaves the uppermost bit to tell what was shifted out. *)
<1>3. \A h \in 0 .. 127 : Xor(h, 140) \in Byte /\ Xor(h, 140) >= 128
  <2> SUFFICES ASSUME NEW h \in 0 .. 127 PROVE Xor(h, 140) \in Byte /\ Xor(h, 140) >= 128
    OBVIOUS
  <2>1. h \in Byte
    BY DEF Byte
  <2>2. Xor(h, 140) \in Byte
    BY <1>2, <2>1, XorLaw
  <2>3. h \div 128 = 0 /\ (140 \div 128) % 2 = 1
    OBVIOUS
  <2>4. Differ(h, 140, 128) = 128
    BY <2>3 DEF Differ
  <2>5. \A k \in Nat : Differ(h, 140, k) \in Nat
    BY DEF Differ
  <2>6. Xor(h, 140) = Differ(h, 140, 1) + Differ(h, 140, 2) + Differ(h, 140, 4) + Differ(h, 140, 8)
          + Differ(h, 140, 16) + Differ(h, 140, 32) + Differ(h, 140, 64) + Differ(h, 140, 128)
    BY DEF Xor, Differ
  <2> QED
    BY <2>2, <2>4, <2>5, <2>6
<1>4. ASSUME NEW x \in Byte, NEW y \in Byte, shifted(x) = shifted(y) PROVE x = y
  <2>1. x % 2 = y % 2
    BY <1>1, <1>3, <1>4
  <2>2. x \div 2 = y \div 2
    <3>1. CASE x % 2 = 1
      <4>1. Xor(140, x \div 2) = Xor(140, y \div 2)
        BY <1>1, <1>2, <1>4, <2>1, <3>1, XorLaw
      <4> QED
        BY <1>1, <1>2, <4>1, XorLaw
    <3>2. CASE x % 2 # 1
      BY <1>4, <2>1, <3>2
    <3> QED
      BY <3>1, <3>2
  <2> QED
    BY <1>1, <2>1, <2>2
<1>5. \A x \in Byte : shifted(x) \in Byte /\ CrcShift[x] = shifted(x)
  BY <1>1, <1>3 DEF CrcShift
<1>6. CrcShift \in [Byte -> Byte]
  BY <1>5 DEF CrcShift
<1> HIDE DEF shifted
<1> QED
  BY <1>4, <1>5, <1>6 DEF OneToOne

LEMMA TwiceLaw ==
  ASSUME NEW f, OneToOne(f)
  PROVE  OneToOne(Twice(f))
BY DEF OneToOne, Twice

(* A byte is mixed into the register so that neither is lost.              *)
LEMMA StepLaw ==
  /\ Loop(Byte, Byte, CrcStep, 0)
  /\ \A byte \in Byte, x, y \in Byte : CrcStep[byte][x] = CrcStep[byte][y] => x = y
  /\ \A byte, other \in Byte, x \in Byte : CrcStep[byte][x] = CrcStep[other][x] => byte = other
<1>1. OneToOne(CrcOfByte)
  BY ShiftLaw, TwiceLaw DEF CrcOfByte
<1>2. \A byte, x \in Byte : CrcStep[byte][x] = CrcOfByte[Xor(x, byte)]
  BY DEF CrcStep
<1>3. \A byte, x \in Byte : Xor(x, byte) \in Byte /\ CrcOfByte[Xor(x, byte)] \in Byte
  BY <1>1, XorLaw DEF OneToOne
<1>4. CrcStep \in [Byte -> [Byte -> Byte]] /\ 0 \in Byte
  <2>1. 0 \in Byte
    BY DEF Byte
  <2>2. CrcStep \in [Byte -> [Byte -> Byte]]
    BY <1>3 DEF CrcStep
  <2> QED
    BY <2>1, <2>2
<1>5. ASSUME NEW byte \in Byte, NEW x \in Byte, NEW y \in Byte,
             CrcStep[byte][x] = CrcStep[byte][y]
      PROVE  x = y
  <2>1. Xor(x, byte) = Xor(y, byte)
    BY <1>1, <1>2, <1>3, <1>5 DEF OneToOne
  <2>2. Xor(byte, x) = Xor(byte, y)
    BY <2>1, XorLaw
  <2> QED
    BY <2>2, XorLaw
<1>6. ASSUME NEW byte \in Byte, NEW other \in Byte, NEW x \in Byte,
             CrcStep[byte][x] = CrcStep[other][x]
      PROVE  byte = other
  <2>1. Xor(x, byte) = Xor(x, other)
    BY <1>1, <1>2, <1>3, <1>6 DEF OneToOne
  <2> QED
    BY <2>1, XorLaw
<1> QED
  BY <1>4, <1>5, <1>6 DEF Loop

(* The halves of the data, and which of them gets one byte more.           *)
LEMMA HalvesLaw ==
  ASSUME NEW data \in Seq(Byte)
  PROVE  /\ FirstHalf(data) \in Seq(Byte) /\ SecondHalf(data) \in Seq(Byte)
         /\ \A byte \in Byte :
              \/ /\ SecondHalf(data) = <<>> /\ SecondHalf(Append(data, byte)) = <<>>
                 /\ FirstHalf(Append(data, byte)) = Append(FirstHalf(data), byte)
              \/ /\ FirstHalf(Append(data, byte)) = FirstHalf(data)
                 /\ SecondHalf(Append(data, byte)) = Append(SecondHalf(data), byte)
<1> DEFINE half == AtMost(Len(data), 128)
<1>1. half \in 0 .. Len(data) /\ half \in Nat
  BY DEF AtMost
<1>2. FirstHalf(data) \in Seq(Byte) /\ SecondHalf(data) \in Seq(Byte)
  <2>1. \A i \in 1 .. half : data[i] \in Byte
    BY <1>1
  <2>2. \A i \in half + 1 .. Len(data) : data[i] \in Byte
    BY <1>1
  <2>3. half + 1 \in Int /\ half \in Int /\ Len(data) \in Int /\ 1 \in Int
    BY <1>1
  <2>4. SubSeq(data, 1, half) \in Seq(Byte)
    <3> HIDE DEF half
    <3> QED
      BY <2>1, <2>3, SubSeqProperties
  <2>5. SubSeq(data, half + 1, Len(data)) \in Seq(Byte)
    <3> HIDE DEF half
    <3> QED
      BY <2>2, <2>3, SubSeqProperties
  <2> QED
    BY <2>4, <2>5 DEF FirstHalf, SecondHalf
<1>3. ASSUME NEW byte \in Byte
      PROVE  \/ /\ SecondHalf(data) = <<>> /\ SecondHalf(Append(data, byte)) = <<>>
                /\ FirstHalf(Append(data, byte)) = Append(FirstHalf(data), byte)
             \/ /\ FirstHalf(Append(data, byte)) = FirstHalf(data)
                /\ SecondHalf(Append(data, byte)) = Append(SecondHalf(data), byte)
  <2> DEFINE longer == Append(data, byte)
  <2>1. longer \in Seq(Byte) /\ Len(longer) = Len(data) + 1
    OBVIOUS
  <2>2. CASE Len(data) < 128
    <3>1. AtMost(Len(data), 128) = Len(data) /\ AtMost(Len(longer), 128) = Len(longer)
      BY <2>1, <2>2 DEF AtMost
    <3>2. FirstHalf(data) = data /\ FirstHalf(longer) = longer
      BY <2>1, <3>1 DEF FirstHalf
    <3>3. SecondHalf(data) = <<>> /\ SecondHalf(longer) = <<>>
      BY <2>1, <3>1 DEF SecondHalf
    <3> QED
      BY <3>2, <3>3
  <2>3. CASE ~(Len(data) < 128)
    <3>1. AtMost(Len(data), 128) = 128 /\ AtMost(Len(longer), 128) = 128
      BY <2>1, <2>3 DEF AtMost
    <3>2. FirstHalf(longer) = FirstHalf(data)
      BY <2>1, <2>3, <3>1 DEF FirstHalf
    <3>3. SecondHalf(longer) = Append(SecondHalf(data), byte)
      BY <2>1, <2>3, <3>1 DEF SecondHalf
    <3> QED
      BY <3>2, <3>3
  <2> QED
    BY <2>2, <2>3
<1> QED
  BY <1>2, <1>3

LEMMA CrcLaw ==
  ASSUME NEW data \in Seq(Byte)
  PROVE  /\ Crc8(data) \in Byte
         /\ \A byte \in Byte : Crc8(Append(data, byte)) = CrcStep[byte][Crc8(data)]
<1>1. 0 \in Byte /\ \A crc \in Byte : Loop(Byte, Byte, CrcStep, crc)
  BY StepLaw DEF Loop
<1>2. ASSUME NEW crc \in Byte, NEW part \in Seq(Byte)
      PROVE  /\ CrcOver[<<>>][crc] = crc
             /\ CrcOver[part][crc] \in Byte
             /\ \A byte \in Byte :
                  CrcOver[Append(part, byte)][crc] = CrcStep[byte][CrcOver[part][crc]]
  <2>1. \A s \in Seq(Byte) : CrcOver[s][crc] = Fold(CrcStep, crc, s)
    BY DEF CrcOver
  <2>2. <<>> \in Seq(Byte) /\ \A byte \in Byte : Append(part, byte) \in Seq(Byte)
    OBVIOUS
  <2>3. Loop(Byte, Byte, CrcStep, crc)
    BY <1>1
  <2>4. /\ Fold(CrcStep, crc, <<>>) = crc
        /\ Fold(CrcStep, crc, part) \in Byte
        /\ \A byte \in Byte :
             Fold(CrcStep, crc, Append(part, byte)) = CrcStep[byte][Fold(CrcStep, crc, part)]
    BY <2>3, FoldLaw
  <2> QED
    BY <2>1, <2>2, <2>4
<1>3. /\ FirstHalf(data) \in Seq(Byte) /\ SecondHalf(data) \in Seq(Byte)
      /\ CrcOver[FirstHalf(data)][0] \in Byte
  BY <1>1, <1>2, HalvesLaw
<1>4. ASSUME NEW byte \in Byte
      PROVE  Crc8(Append(data, byte)) = CrcStep[byte][Crc8(data)]
  <2> DEFINE begun == CrcOver[FirstHalf(data)][0]
  <2>1. CASE /\ SecondHalf(data) = <<>> /\ SecondHalf(Append(data, byte)) = <<>>
             /\ FirstHalf(Append(data, byte)) = Append(FirstHalf(data), byte)
    <3>1. CrcOver[FirstHalf(Append(data, byte))][0] = CrcStep[byte][begun]
      BY <1>1, <1>2, <1>3, <2>1
    <3>2. CrcStep[byte][begun] \in Byte
      BY <1>1, <1>3 DEF Loop
    <3>3. CrcOver[<<>>][begun] = begun /\ CrcOver[<<>>][CrcStep[byte][begun]] = CrcStep[byte][begun]
      BY <1>2, <1>3, <3>2
    <3> QED
      BY <2>1, <3>1, <3>3 DEF Crc8
  <2>2. CASE /\ FirstHalf(Append(data, byte)) = FirstHalf(data)
             /\ SecondHalf(Append(data, byte)) = Append(SecondHalf(data), byte)
    <3>1. CrcOver[Append(SecondHalf(data), byte)][begun] = CrcStep[byte][CrcOver[SecondHalf(data)][begun]]
      BY <1>2, <1>3
    <3> QED
      BY <2>2, <3>1 DEF Crc8
  <2> QED
    BY <2>1, <2>2, HalvesLaw
<1>5. Crc8(data) \in Byte
  BY <1>2, <1>3 DEF Crc8
<1> QED
  BY <1>4, <1>5

(* Two lists that differ at one place.                                     *)
DifferAt(s, t, i) ==
  /\ Len(t) = Len(s) /\ i \in 1 .. Len(s)
  /\ t[i] # s[i] /\ \A j \in 1 .. Len(s) : j # i => t[j] = s[j]

(* The checksum tells data from the same data with one byte altered.       *)
LEMMA OneByteIsSeen ==
  ASSUME NEW data \in Seq(Byte), NEW other \in Seq(Byte), NEW i, DifferAt(data, other, i)
  PROVE  Crc8(data) # Crc8(other)
<1> DEFINE P == {s \in Seq(Byte) :
                   \A t \in Seq(Byte) : \A k : DifferAt(s, t, k) => Crc8(s) # Crc8(t)}
<1>1. <<>> \in P
  BY DEF DifferAt
<1>2. ASSUME NEW s \in Seq(Byte), NEW x \in Byte, s \in P PROVE Append(s, x) \in P
  <2> SUFFICES ASSUME NEW t \in Seq(Byte), NEW k, DifferAt(Append(s, x), t, k)
               PROVE  Crc8(Append(s, x)) # Crc8(t)
    BY <1>2
  <2> DEFINE n == Len(s)
             front == SubSeq(t, 1, n)
             last == t[n + 1]
  <2>1. /\ n \in Nat /\ Len(Append(s, x)) = n + 1
        /\ Append(s, x)[n + 1] = x /\ \A j \in 1 .. n : Append(s, x)[j] = s[j]
    OBVIOUS
  <2>2. Len(t) = n + 1
    BY <2>1 DEF DifferAt
  <2>3. /\ front \in Seq(Byte) /\ Len(front) = n /\ last \in Byte
        /\ \A j \in 1 .. n : front[j] = t[j]
    BY <2>1, <2>2
  <2>4. t = Append(front, last)
    BY <2>1, <2>2, <2>3
  <2>5. /\ Crc8(s) \in Byte /\ Crc8(front) \in Byte
        /\ Crc8(Append(s, x)) = CrcStep[x][Crc8(s)]
        /\ Crc8(t) = CrcStep[last][Crc8(front)]
    <3> HIDE DEF front, last
    <3> QED
      BY <2>3, <2>4, CrcLaw
  <2> HIDE DEF front, last, n
  <2>6. CASE k = n + 1
    <3>1. last # x /\ \A j \in 1 .. n : front[j] = s[j]
      BY <2>1, <2>3, <2>6 DEF DifferAt, last
    <3>2. front = s
      BY <2>3, <3>1 DEF n
    <3> QED
      BY <2>3, <2>5, <3>1, <3>2, StepLaw
  <2>7. CASE k # n + 1
    <3>1. k \in 1 .. n
      BY <2>1, <2>7 DEF DifferAt
    <3>2. last = x
      BY <2>1, <2>7 DEF DifferAt, last
    <3>3. DifferAt(s, front, k)
      BY <2>1, <2>3, <3>1 DEF DifferAt, n
    <3>4. Crc8(s) # Crc8(front)
      BY <1>2, <2>3, <3>3
    <3> QED
      BY <2>3, <2>5, <3>2, <3>4, StepLaw
  <2> QED
    BY <2>6, <2>7
<1>3. Seq(Byte) \subseteq P
  <2> HIDE DEF P
  <2> QED
    BY <1>1, <1>2, ListInduction
<1> QED
  BY <1>3

(***************************************************************************)
(* Titles                                                                  *)
(***************************************************************************)

(* A first byte is the first byte of one width only, and no later one.     *)
LEMMA CodepointLaw ==
  ASSUME NEW w \in 1 .. 4
  PROVE  /\ Codepoint[w] \in Seq(Byte) /\ Len(Codepoint[w]) = w
         /\ \A v \in 1 .. 4 : Codepoint[v][1] = Codepoint[w][1] => v = w
         /\ \A v \in 1 .. 4, o \in 2 .. w : Codepoint[w][o] # Codepoint[v][1]
<1>1. /\ Codepoint[1] = <<97>> /\ Codepoint[2] = <<195, 169>> /\ Codepoint[3] = <<226, 130, 172>>
      /\ Codepoint[4] = <<240, 159, 146, 150>>
  BY DEF Codepoint
<1>2. {97, 195, 169, 226, 130, 172, 240, 159, 146, 150} \subseteq Byte
  BY DEF Byte
<1>3. /\ <<97>> \in Seq(Byte) /\ <<195, 169>> \in Seq(Byte) /\ <<226, 130, 172>> \in Seq(Byte)
      /\ <<240, 159, 146, 150>> \in Seq(Byte)
  BY <1>2
<1>4. w \in {1, 2, 3, 4} /\ 1 .. 4 = {1, 2, 3, 4}
  OBVIOUS
<1>5. Codepoint[w] \in Seq(Byte) /\ Len(Codepoint[w]) = w
  <2>1. CASE w = 1
    BY <1>1, <1>3, <2>1
  <2>2. CASE w = 2
    BY <1>1, <1>3, <2>2
  <2>3. CASE w = 3
    BY <1>1, <1>3, <2>3
  <2>4. CASE w = 4
    BY <1>1, <1>3, <2>4
  <2> QED
    BY <1>4, <2>1, <2>2, <2>3, <2>4
<1>6. /\ Codepoint[1][1] = 97 /\ Codepoint[2][1] = 195 /\ Codepoint[3][1] = 226
      /\ Codepoint[4][1] = 240
  BY <1>1
<1>7. \A v \in 1 .. 4 : Codepoint[v][1] = Codepoint[w][1] => v = w
  BY <1>4, <1>6
<1>8. ASSUME NEW v \in 1 .. 4, NEW o \in 2 .. w PROVE Codepoint[w][o] # Codepoint[v][1]
  <2>1. Codepoint[v][1] \in {97, 195, 226, 240}
    BY <1>4, <1>6
  <2>2. Codepoint[w][o] \in {169, 130, 172, 159, 146, 150}
    <3>1. CASE w = 1
      BY <3>1
    <3>2. CASE w = 2
      <4>1. o = 2
        BY <3>2
      <4> QED
        BY <1>1, <3>2, <4>1
    <3>3. CASE w = 3
      <4>1. o \in {2, 3}
        BY <3>3
      <4> QED
        BY <1>1, <3>3, <4>1
    <3>4. CASE w = 4
      <4>1. o \in {2, 3, 4}
        BY <3>4
      <4> QED
        BY <1>1, <3>4, <4>1
    <3> QED
      BY <1>4, <3>1, <3>2, <3>3, <3>4
  <2> QED
    BY <2>1, <2>2
<1> QED
  BY <1>5, <1>7, <1>8

LEMMA Utf8Law ==
  ASSUME NEW title \in Seq(1 .. 4)
  PROVE  /\ Utf8(<<>>) = <<>>
         /\ Utf8(title) \in Seq(Byte)
         /\ \A w \in 1 .. 4 : Utf8(Append(title, w)) = Utf8(title) \o Codepoint[w]
<1> DEFINE step == [w \in 1 .. 4 |-> [bytes \in Seq(Byte) |-> bytes \o Codepoint[w]]]
<1>1. \A w \in 1 .. 4, bytes \in Seq(Byte) : bytes \o Codepoint[w] \in Seq(Byte)
  BY CodepointLaw
<1>2. <<>> \in Seq(Byte)
  OBVIOUS
<1>3. Loop(Seq(Byte), 1 .. 4, step, <<>>)
  BY <1>1, <1>2 DEF Loop
<1>4. \A w \in 1 .. 4, bytes \in Seq(Byte) : step[w][bytes] = bytes \o Codepoint[w]
  OBVIOUS
<1>5. \A t : Utf8(t) = Fold(step, <<>>, t)
  BY DEF Utf8
<1> HIDE DEF step
<1>6. /\ Fold(step, <<>>, <<>>) = <<>>
      /\ Fold(step, <<>>, title) \in Seq(Byte)
      /\ \A w \in 1 .. 4 : Fold(step, <<>>, Append(title, w)) = step[w][Fold(step, <<>>, title)]
  BY <1>3, FoldLaw
<1>7. Utf8(<<>>) = <<>>
  BY <1>5, <1>6, Zenon
<1>8. Utf8(title) \in Seq(Byte)
  BY <1>5, <1>6, Zenon
<1>9. ASSUME NEW w \in 1 .. 4 PROVE Utf8(Append(title, w)) = Utf8(title) \o Codepoint[w]
  <2>1. Utf8(title) = Fold(step, <<>>, title)
    BY <1>5, Zenon
  <2>2. Utf8(Append(title, w)) = step[w][Fold(step, <<>>, title)]
    BY <1>5, <1>6, Zenon
  <2> QED
    BY <1>4, <1>8, <2>1, <2>2
<1> QED
  BY <1>7, <1>8, <1>9

(* The encodings of the beginnings of a title.                             *)
Begun(title) == {Utf8(SubSeq(title, 1, n)) : n \in 0 .. Len(title)}

LEMMA BegunLaw ==
  ASSUME NEW title \in Seq(1 .. 4), NEW w \in 1 .. 4
  PROVE  /\ Begun(<<>>) = {<<>>}
         /\ Begun(title) \subseteq Seq(Byte)
         /\ {<<>>, Utf8(title)} \subseteq Begun(title)
         /\ Begun(Append(title, w)) = Begun(title) \cup {Utf8(title) \o Codepoint[w]}
<1>1. Begun(<<>>) = {<<>>}
  <2>0. <<>> \in Seq(1 .. 4)
    OBVIOUS
  <2>1. PICK empty \in Seq(1 .. 4) : empty = <<>>
    BY <2>0, Zenon
  <2>2. 0 .. Len(empty) = {0} /\ SubSeq(empty, 1, 0) = empty
    BY <2>1
  <2>3. Begun(empty) = {Utf8(empty)}
    BY <2>2 DEF Begun
  <2>4. Utf8(<<>>) = <<>>
    BY <2>0, Utf8Law
  <2> QED
    BY <2>1, <2>3, <2>4, Zenon
<1>2. \A n \in 0 .. Len(title) : SubSeq(title, 1, n) \in Seq(1 .. 4)
  OBVIOUS
<1>3. Begun(title) \subseteq Seq(Byte)
  BY <1>2, Utf8Law DEF Begun
<1>4. {<<>>, Utf8(title)} \subseteq Begun(title)
  <2>1. SubSeq(title, 1, 0) = <<>> /\ SubSeq(title, 1, Len(title)) = title
        /\ 0 \in 0 .. Len(title) /\ Len(title) \in 0 .. Len(title)
    OBVIOUS
  <2>2. Utf8(<<>>) = <<>>
    BY Utf8Law
  <2> QED
    BY <2>1, <2>2 DEF Begun
<1>5. Begun(Append(title, w)) = Begun(title) \cup {Utf8(title) \o Codepoint[w]}
  <2> DEFINE longer == Append(title, w)
             n == Len(title)
  <2>1. /\ n \in Nat /\ Len(longer) = n + 1 /\ 0 .. n + 1 = (0 .. n) \cup {n + 1}
        /\ \A k \in 0 .. n : SubSeq(longer, 1, k) = SubSeq(title, 1, k)
        /\ SubSeq(longer, 1, n + 1) = longer
    OBVIOUS
  <2>2. Utf8(longer) = Utf8(title) \o Codepoint[w]
    BY Utf8Law
  <2> HIDE DEF longer
  <2>3. ASSUME NEW b PROVE b \in Begun(longer) <=> (b \in Begun(title) \/ b = Utf8(longer))
    <3>1. b \in Begun(longer) <=> \E k \in (0 .. n) \cup {n + 1} : b = Utf8(SubSeq(longer, 1, k))
      BY <2>1 DEF Begun
    <3>2. b \in Begun(title) <=> \E k \in 0 .. n : b = Utf8(SubSeq(title, 1, k))
      BY DEF Begun
    <3>3. \A k \in 0 .. n : Utf8(SubSeq(longer, 1, k)) = Utf8(SubSeq(title, 1, k))
      BY <2>1
    <3>4. Utf8(SubSeq(longer, 1, n + 1)) = Utf8(longer)
      BY <2>1
    <3> HIDE DEF n
    <3> QED
      BY <3>1, <3>2, <3>3, <3>4, Zenon
  <2> QED
    BY <2>2, <2>3 DEF longer
<1> QED
  BY <1>1, <1>3, <1>4, <1>5

(* A codepoint of width w begins at i, whole.                              *)
WholeAt(bytes, i, w) ==
  i + w - 1 <= Len(bytes) /\ \A o \in 1 .. w : bytes[i + o - 1] = Codepoint[w][o]

LEMMA IsUtf8Law ==
  ASSUME NEW bytes \in Seq(Byte)
  PROVE  IsUtf8(bytes) <=>
           \A i \in 1 .. Len(bytes), w \in 1 .. 4 :
             bytes[i] = Codepoint[w][1] => WholeAt(bytes, i, w)
<1>1. ASSUME NEW i \in 1 .. Len(bytes), NEW w \in 1 .. 4, i + w - 1 <= Len(bytes)
      PROVE  SubSeq(bytes, i, i + w - 1) = Codepoint[w] <=>
               \A o \in 1 .. w : bytes[i + o - 1] = Codepoint[w][o]
  <2> DEFINE part == SubSeq(bytes, i, i + w - 1)
  <2>1. /\ part \in Seq(Byte) /\ Len(part) = w
        /\ \A o \in 1 .. w : part[o] = bytes[i + o - 1]
    BY <1>1
  <2>2. Codepoint[w] \in Seq(Byte) /\ Len(Codepoint[w]) = w
    BY CodepointLaw
  <2> HIDE DEF part
  <2>3. part = Codepoint[w] <=> \A o \in 1 .. w : part[o] = Codepoint[w][o]
    BY <2>1, <2>2
  <2> QED
    BY <2>1, <2>3 DEF part
<1> QED
  BY <1>1 DEF IsUtf8, WholeAt

(* Bytes of a title decode where a codepoint ends, and nowhere else.       *)
Decodable(title) ==
  /\ \A n \in 0 .. Len(Utf8(title)) :
       IsUtf8(SubSeq(Utf8(title), 1, n)) <=> SubSeq(Utf8(title), 1, n) \in Begun(title)
  /\ \A b \in Begun(title) :
       Len(b) \in 0 .. Len(Utf8(title)) /\ b = SubSeq(Utf8(title), 1, Len(b))

LEMMA DecodableStep ==
  ASSUME NEW title \in Seq(1 .. 4), NEW w \in 1 .. 4, Decodable(title)
  PROVE  Decodable(Append(title, w))
<1> DEFINE longer == Append(title, w)
           old == Utf8(title)
           new == Utf8(longer)
           m == Len(old)
<1>1. old \in Seq(Byte) /\ new = old \o Codepoint[w]
  BY Utf8Law
<1>2. Codepoint[w] \in Seq(Byte) /\ Len(Codepoint[w]) = w
  BY CodepointLaw
<1>3. /\ m \in Nat /\ new \in Seq(Byte) /\ Len(new) = m + w
      /\ \A i \in 1 .. m : new[i] = old[i]
      /\ \A o \in 1 .. w : new[m + o] = Codepoint[w][o]
      /\ \A n \in 0 .. m : SubSeq(new, 1, n) = SubSeq(old, 1, n)
      /\ SubSeq(new, 1, m + w) = new /\ SubSeq(old, 1, m) = old
  <2> HIDE DEF old, new
  <2> QED
    BY <1>1, <1>2 DEF m
<1>4. /\ Begun(longer) = Begun(title) \cup {new} /\ old \in Begun(title)
      /\ Begun(title) \subseteq Seq(Byte)
  BY <1>1, BegunLaw
<1>5. /\ \A n \in 0 .. m : IsUtf8(SubSeq(old, 1, n)) <=> SubSeq(old, 1, n) \in Begun(title)
      /\ \A b \in Begun(title) : Len(b) \in 0 .. m /\ b = SubSeq(old, 1, Len(b))
  BY DEF Decodable
<1> HIDE DEF longer, old, new, m
(* The title encoded as a whole decodes. *)
<1>6. IsUtf8(new)
  <2>1. IsUtf8(old)
    BY <1>3, <1>4, <1>5
  <2>2. ASSUME NEW i \in 1 .. Len(new), NEW v \in 1 .. 4, new[i] = Codepoint[v][1]
        PROVE  WholeAt(new, i, v)
    <3>1. CASE i \in 1 .. m
      <4>1. old[i] = Codepoint[v][1] /\ i \in 1 .. Len(old)
        BY <1>3, <2>2, <3>1 DEF m
      <4>2. WholeAt(old, i, v)
        BY <1>1, <2>1, <4>1, IsUtf8Law
      <4>3. i + v - 1 <= m /\ \A o \in 1 .. v : old[i + o - 1] = Codepoint[v][o]
        BY <4>2 DEF WholeAt, m
      <4>4. \A o \in 1 .. v : i + o - 1 \in 1 .. m
        BY <1>3, <3>1, <4>3
      <4> QED
        BY <1>3, <3>1, <4>3, <4>4 DEF WholeAt
    <3>2. CASE i \notin 1 .. m
      <4>1. PICK o \in 1 .. w : i = m + o
        <5>1. i - m \in 1 .. w /\ i = m + (i - m)
          BY <1>3, <3>2
        <5> QED
          BY <5>1
      <4>2. Codepoint[w][o] = Codepoint[v][1]
        BY <1>3, <2>2, <4>1
      <4>3. o = 1
        <5>1. o \notin 2 .. w
          BY <4>2, CodepointLaw
        <5> QED
          BY <5>1
      <4>4. v = w
        BY <4>2, <4>3, CodepointLaw
      <4>5. \A p \in 1 .. w : i + p - 1 = m + p
        BY <1>3, <4>1, <4>3
      <4> QED
        BY <1>3, <4>1, <4>3, <4>4, <4>5 DEF WholeAt
    <3> QED
      BY <3>1, <3>2
  <2> QED
    BY <1>3, <2>2, IsUtf8Law
<1>7. ASSUME NEW n \in 0 .. Len(new)
      PROVE  IsUtf8(SubSeq(new, 1, n)) <=> SubSeq(new, 1, n) \in Begun(longer)
  <2> DEFINE part == SubSeq(new, 1, n)
  <2>1. part \in Seq(Byte) /\ Len(part) = n /\ \A i \in 1 .. n : part[i] = new[i]
    BY <1>3
  <2> HIDE DEF part
  <2>2. CASE n \in 0 .. m
    <3>1. part = SubSeq(old, 1, n) /\ part # new
      BY <1>3, <2>1, <2>2 DEF part
    <3> QED
      BY <1>4, <1>5, <2>2, <3>1 DEF part
  <2>3. CASE n \in m + 1 .. m + w - 1
    <3>1. part \notin Begun(longer)
      <4>1. part # new
        BY <1>3, <2>1, <2>3
      <4>2. part \notin Begun(title)
        BY <1>3, <1>5, <2>1, <2>3
      <4> QED
        BY <1>4, <4>1, <4>2
    <3>2. ~WholeAt(part, m + 1, w)
      BY <1>3, <2>1, <2>3 DEF WholeAt
    <3>3. m + 1 \in 1 .. Len(part) /\ part[m + 1] = Codepoint[w][1]
      <4>1. 1 \in 1 .. w /\ m + 1 \in 1 .. n
        BY <1>3, <2>3
      <4> QED
        BY <1>3, <2>1, <4>1
    <3>4. ~IsUtf8(part)
      BY <2>1, <3>2, <3>3, IsUtf8Law
    <3> QED
      BY <3>1, <3>4 DEF part
  <2>4. CASE n = m + w
    <3>1. part = new
      BY <1>3, <2>4 DEF part
    <3> QED
      BY <1>4, <1>6, <3>1 DEF part
  <2>5. n \in 0 .. m \/ n \in m + 1 .. m + w - 1 \/ n = m + w
    BY <1>3
  <2> QED
    BY <2>2, <2>3, <2>4, <2>5
<1>8. ASSUME NEW b \in Begun(longer)
      PROVE  Len(b) \in 0 .. Len(new) /\ b = SubSeq(new, 1, Len(b))
  <2>1. CASE b = new
    BY <1>3, <2>1
  <2>2. CASE b \in Begun(title)
    <3>1. Len(b) \in 0 .. m /\ b = SubSeq(old, 1, Len(b))
      BY <1>5, <2>2
    <3>2. SubSeq(old, 1, Len(b)) = SubSeq(new, 1, Len(b))
      BY <1>3, <3>1
    <3>3. Len(b) \in 0 .. Len(new)
      BY <1>3, <3>1
    <3> QED
      BY <3>1, <3>2, <3>3
  <2> QED
    BY <1>4, <2>1, <2>2
<1> QED
  BY <1>7, <1>8 DEF Decodable, longer, new

LEMMA AlwaysDecodable == \A title \in Seq(1 .. 4) : Decodable(title)
<1> DEFINE P == {title \in Seq(1 .. 4) : Decodable(title)}
<1>1. <<>> \in P
  <2>1. <<>> \in Seq(1 .. 4)
    OBVIOUS
  <2>2. Utf8(<<>>) = <<>> /\ Begun(<<>>) = {<<>>}
    <3>1. 1 \in 1 .. 4
      OBVIOUS
    <3> QED
      BY <2>1, <3>1, Utf8Law, BegunLaw
  <2>3. IsUtf8(<<>>)
    BY DEF IsUtf8
  <2>4. Len(<<>>) = 0 /\ 0 .. 0 = {0} /\ SubSeq(<<>>, 1, 0) = <<>>
    OBVIOUS
  <2> QED
    BY <2>1, <2>2, <2>3, <2>4 DEF Decodable
<1>2. \A title \in Seq(1 .. 4), w \in 1 .. 4 : title \in P => Append(title, w) \in P
  BY DecodableStep
<1>3. Seq(1 .. 4) \subseteq P
  <2> HIDE DEF P
  <2> QED
    BY <1>1, <1>2, ListInduction
<1> QED
  BY <1>3

(* What is cut of a title is a beginning of it, the longest that the cap   *)
(* allows.                                                                 *)
LEMMA CutLaw ==
  ASSUME NEW title \in Seq(1 .. 4)
  PROVE  LET cut == TruncateUtf8(Utf8(title)) IN
         /\ cut \in Begun(title) /\ cut \in Seq(Byte) /\ Len(cut) <= MAX_TITLE
         /\ \A b \in Begun(title) : Len(b) <= MAX_TITLE => Len(b) <= Len(cut)
<1> DEFINE bytes == Utf8(title)
           cap == AtMost(Len(bytes), MAX_TITLE)
           fits == {n \in 0 .. cap : IsUtf8(SubSeq(bytes, 1, n))}
           longest == CHOOSE n \in fits : \A m \in fits : m <= n
           cut == TruncateUtf8(bytes)
<1>1. bytes \in Seq(Byte) /\ Len(bytes) \in Nat
  BY Utf8Law
<1>2. Decodable(title)
  BY AlwaysDecodable
<1>3. cap \in Nat /\ cap <= Len(bytes) /\ cap <= MAX_TITLE
      /\ \A n \in Nat : n <= Len(bytes) /\ n <= MAX_TITLE => n <= cap
  BY <1>1, CodecAssumption DEF AtMost, Byte
<1>4. 0 \in fits
  <2>1. SubSeq(bytes, 1, 0) = <<>> /\ 0 \in 0 .. cap
    BY <1>1, <1>3
  <2>2. IsUtf8(<<>>)
    BY DEF IsUtf8
  <2> QED
    BY <2>1, <2>2
<1>5. \E n \in fits : \A m \in fits : m <= n
  <2> DEFINE short == {k \in Nat : cap - k \in fits}
  <2>1. cap \in short
    BY <1>3, <1>4
  <2>2. PICK k \in short : \A j \in short : k <= j
    <3> HIDE DEF short
    <3>1. short \in SUBSET Nat
      BY DEF short
    <3> QED
      BY <2>1, <3>1, LeastNatural
  <2>3. ASSUME NEW m \in fits PROVE m <= cap - k
    <3>1. m \in 0 .. cap
      OBVIOUS
    <3>2. cap - m \in Nat /\ cap - (cap - m) = m
      BY <1>3, <3>1
    <3>3. cap - m \in short
      BY <3>2
    <3>4. k <= cap - m /\ k \in Nat
      BY <2>2, <3>3
    <3> QED
      BY <1>3, <3>1, <3>4
  <2>4. cap - k \in fits
    BY <2>2
  <2> QED
    BY <2>3, <2>4
<1>6. longest \in fits /\ \A m \in fits : m <= longest
  <2> HIDE DEF fits
  <2> QED
    BY <1>5
<1>7. cut = SubSeq(bytes, 1, longest)
  BY DEF TruncateUtf8
<1>8. longest \in 0 .. cap /\ IsUtf8(SubSeq(bytes, 1, longest))
  BY <1>6
<1> HIDE DEF longest, cut, bytes, cap
<1>9. cut \in Seq(Byte) /\ Len(cut) = longest
  BY <1>1, <1>3, <1>7, <1>8
<1>10. cut \in Begun(title)
  BY <1>1, <1>2, <1>3, <1>7, <1>8 DEF Decodable, bytes
<1>11. ASSUME NEW b \in Begun(title), Len(b) <= MAX_TITLE PROVE Len(b) <= Len(cut)
  <2>1. Len(b) \in 0 .. Len(bytes) /\ b = SubSeq(bytes, 1, Len(b))
    BY <1>2 DEF Decodable, bytes
  <2>2. IsUtf8(SubSeq(bytes, 1, Len(b)))
    BY <1>2, <2>1 DEF Decodable, bytes
  <2>3. Len(b) \in fits
    BY <1>1, <1>3, <1>11, <2>1, <2>2
  <2> QED
    BY <1>6, <1>9, <2>3
<1>12. Len(cut) <= MAX_TITLE
  BY <1>3, <1>8, <1>9, CodecAssumption DEF Byte
<1> QED
  BY <1>9, <1>10, <1>11, <1>12 DEF cut, bytes

(***************************************************************************)
(* What is written                                                         *)
(***************************************************************************)

LEMMA ConcatAt ==
  ASSUME NEW T, NEW s \in Seq(T), NEW t \in Seq(T), NEW whole, whole = s \o t
  PROVE  /\ whole \in Seq(T) /\ Len(s) \in Nat /\ Len(t) \in Nat /\ Len(whole) \in Nat
         /\ Len(whole) = Len(s) + Len(t)
         /\ \A i \in 1 .. Len(s) : whole[i] = s[i]
         /\ \A i \in 1 .. Len(t) : whole[Len(s) + i] = t[i]
OBVIOUS

LEMMA ByteLaw == \A x \in Nat : x <= 255 => x \in Byte
BY DEF Byte

(* No more segments than fit a payload.                                    *)
LEMMA FewSegments ==
  ASSUME NEW n \in Nat, n <= MAX_SEGS
  PROVE  4 + 6 * n <= 255 /\ n \in Byte
<1>1. MAX_SEGS \in Nat /\ 4 + 6 * MAX_SEGS <= 255
  BY CodecAssumption
<1> QED
  BY <1>1 DEF Byte

LEMMA BlockLaw ==
  ASSUME NEW seg \in Segments
  PROVE  /\ Block(seg) \in Seq(Byte) /\ Len(Block(seg)) = 4
         /\ Block(seg)[1] = seg.state /\ Block(seg)[4] = 0
         /\ Block(seg)[2] = STATE_STYLE[seg.state + 1][1]
         /\ Block(seg)[3] = STATE_STYLE[seg.state + 1][2]
<1> DEFINE style == STATE_STYLE[seg.state + 1]
<1>1. seg.state \in 0 .. 6 /\ seg.state \in Byte /\ 0 \in Byte
  BY DEF Segments, Byte
<1>2. style \in Seq(Byte) /\ Len(style) = 2
  <2>1. seg.state \in {0, 1, 2, 3, 4, 5, 6}
    BY <1>1
  <2>2. /\ STATE_STYLE[1] = <<255, 2>> /\ STATE_STYLE[2] = <<170, 3>>
        /\ STATE_STYLE[3] = <<213, 2>> /\ STATE_STYLE[4] = <<32, 4>>
        /\ STATE_STYLE[5] = <<85, 5>> /\ STATE_STYLE[6] = <<0, 1>> /\ STATE_STYLE[7] = <<0, 0>>
    BY DEF STATE_STYLE
  <2>3. \E a, b \in Byte : style = <<a, b>>
    <3>1. \A a, b \in {0, 1, 2, 3, 4, 5, 32, 85, 170, 213, 255} : a \in Byte /\ b \in Byte
      BY DEF Byte
    <3>2. \A a, b \in Byte : style = <<a, b>> => \E c, d \in Byte : style = <<c, d>>
      OBVIOUS
    <3>3. CASE seg.state = 0
      <4>1. style = <<255, 2>>
        BY <2>2, <3>3
      <4> QED
        BY <3>1, <3>2, <4>1
    <3>4. CASE seg.state = 1
      <4>1. style = <<170, 3>>
        BY <2>2, <3>4
      <4> QED
        BY <3>1, <3>2, <4>1
    <3>5. CASE seg.state = 2
      <4>1. style = <<213, 2>>
        BY <2>2, <3>5
      <4> QED
        BY <3>1, <3>2, <4>1
    <3>6. CASE seg.state = 3
      <4>1. style = <<32, 4>>
        BY <2>2, <3>6
      <4> QED
        BY <3>1, <3>2, <4>1
    <3>7. CASE seg.state = 4
      <4>1. style = <<85, 5>>
        BY <2>2, <3>7
      <4> QED
        BY <3>1, <3>2, <4>1
    <3>8. CASE seg.state = 5
      <4>1. style = <<0, 1>>
        BY <2>2, <3>8
      <4> QED
        BY <3>1, <3>2, <4>1
    <3>9. CASE seg.state = 6
      <4>1. style = <<0, 0>>
        BY <2>2, <3>9
      <4> QED
        BY <3>1, <3>2, <4>1
    <3> QED
      BY <2>1, <3>3, <3>4, <3>5, <3>6, <3>7, <3>8, <3>9
  <2> HIDE DEF style
  <2> QED
    BY <2>3
<1>3. Block(seg) = (<<seg.state>> \o style) \o <<0>>
  BY DEF Block
<1> HIDE DEF style
<1>4. <<seg.state>> \in Seq(Byte) /\ <<0>> \in Seq(Byte)
  BY <1>1
<1>5. /\ Block(seg) \in Seq(Byte) /\ Len(Block(seg)) = 4
      /\ Block(seg)[1] = seg.state /\ Block(seg)[4] = 0
      /\ Block(seg)[2] = style[1] /\ Block(seg)[3] = style[2]
  <2> DEFINE front == <<seg.state>> \o style
             one == <<seg.state>>
             zero == <<0>>
  <2>1. one \in Seq(Byte) /\ zero \in Seq(Byte) /\ style \in Seq(Byte)
    BY <1>2, <1>4
  <2>2. Len(one) = 1 /\ one[1] = seg.state /\ Len(zero) = 1 /\ zero[1] = 0 /\ Len(style) = 2
    BY <1>2
  <2>3. Block(seg) = front \o zero /\ front = one \o style
    BY <1>3
  <2> HIDE DEF front, one, zero
  <2>4. /\ front \in Seq(Byte) /\ Len(front) = Len(one) + Len(style)
        /\ \A i \in 1 .. Len(one) : front[i] = one[i]
        /\ \A i \in 1 .. Len(style) : front[Len(one) + i] = style[i]
    BY <2>1, <2>3, ConcatAt
  <2>5. /\ Block(seg) \in Seq(Byte) /\ Len(Block(seg)) = Len(front) + Len(zero)
        /\ \A i \in 1 .. Len(front) : Block(seg)[i] = front[i]
        /\ \A i \in 1 .. Len(zero) : Block(seg)[Len(front) + i] = zero[i]
    BY <2>1, <2>3, <2>4, ConcatAt
  <2>6. Len(front) = 3 /\ front[1] = one[1] /\ front[2] = style[1] /\ front[3] = style[2]
    <3>1. Len(front) = 3
      BY <2>2, <2>4
    <3>2. 1 \in 1 .. Len(one) /\ 1 \in 1 .. Len(style) /\ 2 \in 1 .. Len(style)
          /\ Len(one) + 1 = 2 /\ Len(one) + 2 = 3
      BY <2>2
    <3> QED
      BY <2>4, <3>1, <3>2
  <2>7. /\ Len(Block(seg)) = 4 /\ Block(seg)[1] = front[1] /\ Block(seg)[2] = front[2]
        /\ Block(seg)[3] = front[3] /\ Block(seg)[4] = zero[1]
    <3>1. Len(Block(seg)) = 4
      BY <2>2, <2>5, <2>6
    <3>2. 1 \in 1 .. Len(front) /\ 2 \in 1 .. Len(front) /\ 3 \in 1 .. Len(front)
          /\ 1 \in 1 .. Len(zero) /\ Len(front) + 1 = 4
      BY <2>2, <2>6
    <3> QED
      BY <2>5, <3>1, <3>2
  <2> QED
    BY <2>2, <2>5, <2>6, <2>7
<1> QED
  BY <1>5 DEF style

(* The base block: a head of four bytes, then the block of each segment.   *)
LEMMA BaseLaw ==
  ASSUME NEW segs \in Seq(Segments), Len(segs) <= MAX_SEGS, NEW number \in Nat
  PROVE  LET base == Base(segs, number) IN
         /\ base \in Seq(Byte) /\ Len(base) = 4 + 4 * Len(segs)
         /\ base[1] = FRAME_MAGIC /\ base[2] = number % 256
         /\ base[3] = Len(segs) /\ base[4] = BRIGHTNESS
         /\ \A i \in 1 .. Len(segs), o \in 1 .. 4 : base[4 * i + o] = Block(segs[i])[o]
<1> DEFINE n == Len(segs)
           head == <<FRAME_MAGIC, number % 256, n, BRIGHTNESS>>
           blocks == [k \in 1 .. 4 * n |-> Block(segs[(k + 3) \div 4])[((k - 1) % 4) + 1]]
           base == Base(segs, number)
<1>1. n \in Nat /\ n \in Byte
  <2>1. n \in Nat /\ n <= MAX_SEGS
    OBVIOUS
  <2> HIDE DEF n
  <2> QED
    BY <2>1, FewSegments
<1>2a. head \in Seq(Byte)
  <2>1. FRAME_MAGIC \in Byte /\ number % 256 \in Byte /\ BRIGHTNESS \in Byte
    BY DEF FRAME_MAGIC, BRIGHTNESS, Byte
  <2> HIDE DEF n
  <2> QED
    BY <1>1, <2>1
<1>2b. Len(head) = 4
  OBVIOUS
<1>3. ASSUME NEW k \in 1 .. 4 * n
      PROVE  (k + 3) \div 4 \in 1 .. n /\ ((k - 1) % 4) + 1 \in 1 .. 4
  <2> HIDE DEF n
  <2> QED
    BY <1>1
<1>4. ASSUME NEW i \in 1 .. n, NEW o \in 1 .. 4 PROVE Block(segs[i])[o] \in Byte
  <2>1. segs[i] \in Segments
    OBVIOUS
  <2>2. Block(segs[i]) \in Seq(Byte) /\ Len(Block(segs[i])) = 4
    BY <2>1, BlockLaw
  <2> QED
    BY <2>2
<1>5. blocks \in [1 .. 4 * n -> Byte] /\ 4 * n \in Nat
  <2>1. \A k \in 1 .. 4 * n : blocks[k] \in Byte
    <3> HIDE DEF n
    <3> QED
      BY <1>3, <1>4
  <2> HIDE DEF n
  <2> QED
    BY <1>1, <2>1
<1>5a. blocks \in Seq(Byte)
  <2> HIDE DEF blocks, n
  <2> QED
    BY <1>5
<1>5b. Len(blocks) = 4 * n
  <2> HIDE DEF blocks, n
  <2> QED
    BY <1>5
<1>6. base = head \o blocks
  BY DEF Base
<1>7. ASSUME NEW i \in 1 .. n, NEW o \in 1 .. 4
      PROVE  base[4 * i + o] = Block(segs[i])[o]
  <2> DEFINE k == 4 * (i - 1) + o
  <2>1. k \in 1 .. 4 * n /\ (k + 3) \div 4 = i /\ ((k - 1) % 4) + 1 = o /\ 4 * i + o = 4 + k
    <3> HIDE DEF n
    <3> QED
      BY <1>1
  <2>2. blocks[k] = Block(segs[i])[o]
    <3> HIDE DEF n, k
    <3> QED
      BY <2>1
  <2>3. base[4 + k] = blocks[k]
    <3> HIDE DEF n, k, head, blocks, base
    <3>1. \A j \in 1 .. Len(blocks) : base[Len(head) + j] = blocks[j]
      BY <1>2a, <1>5a, <1>6, ConcatAt
    <3> QED
      BY <1>2b, <1>5b, <2>1, <3>1
  <2> QED
    BY <2>1, <2>2, <2>3
<1>8. base \in Seq(Byte) /\ Len(base) = 4 + 4 * n /\ \A k \in 1 .. 4 : base[k] = head[k]
  <2> HIDE DEF head, blocks, base, n
  <2>1. /\ base \in Seq(Byte) /\ Len(base) = Len(head) + Len(blocks)
        /\ \A k \in 1 .. Len(head) : base[k] = head[k]
    BY <1>2a, <1>5a, <1>6, ConcatAt
  <2> QED
    BY <1>2b, <1>5b, <2>1
<1>9. /\ base[1] = FRAME_MAGIC /\ base[2] = number % 256 /\ base[3] = n /\ base[4] = BRIGHTNESS
  <2>1. 1 \in 1 .. 4 /\ 2 \in 1 .. 4 /\ 3 \in 1 .. 4 /\ 4 \in 1 .. 4
    OBVIOUS
  <2>2. head[1] = FRAME_MAGIC /\ head[2] = number % 256 /\ head[3] = n /\ head[4] = BRIGHTNESS
    OBVIOUS
  <2> HIDE DEF head, base, n
  <2> QED
    BY <1>8, <2>1, <2>2
<1> QED
  BY <1>7, <1>8, <1>9

(* The bytes of a title that are written when there is that much room.     *)
Written(seg, room) == IF Len(Cut(seg)) > room THEN <<>> ELSE Cut(seg)

LEMMA WrittenLaw ==
  ASSUME NEW seg \in Segments, NEW room \in Nat
  PROVE  LET title == Written(seg, room) IN
         /\ title \in Seq(Byte) /\ Len(title) <= room /\ Len(title) \in Byte
         /\ Extension(seg, title) \in Seq(Byte)
         /\ Len(Extension(seg, title)) = 2 + Len(title)
<1> DEFINE title == Written(seg, room)
<1>1. seg.title \in Seq(1 .. 4) /\ seg.harness \in Byte
  BY DEF Segments
<1>2. Cut(seg) \in Seq(Byte) /\ Len(Cut(seg)) <= MAX_TITLE
  BY <1>1, CutLaw DEF Cut
<1>3. title \in Seq(Byte) /\ Len(title) <= room /\ Len(title) \in Byte
  <2>1. MAX_TITLE \in Nat /\ MAX_TITLE <= 255 /\ Len(Cut(seg)) <= MAX_TITLE
    BY <1>2, CodecAssumption DEF Byte
  <2>2. CASE Len(Cut(seg)) > room
    <3>1. title = <<>>
      BY <2>2 DEF Written
    <3> HIDE DEF title
    <3> QED
      BY <3>1 DEF Byte
  <2>3. CASE ~(Len(Cut(seg)) > room)
    <3>1. title = Cut(seg)
      BY <2>3 DEF Written
    <3>2. Len(title) \in Nat
      BY <1>2, <3>1
    <3> HIDE DEF title
    <3>3. Len(title) \in Byte /\ Len(title) <= room
      BY <2>1, <2>3, <3>1, <3>2, ByteLaw
    <3> QED
      BY <1>2, <3>1, <3>3
  <2> QED
    BY <2>2, <2>3
<1> HIDE DEF title
<1>4. <<seg.harness, Len(title)>> \in Seq(Byte)
  BY <1>1, <1>3
<1>5. Extension(seg, title) = <<seg.harness, Len(title)>> \o title
  BY DEF Extension
<1>6. Extension(seg, title) \in Seq(Byte) /\ Len(Extension(seg, title)) = 2 + Len(title)
  BY <1>3, <1>4, <1>5
<1> QED
  BY <1>3, <1>6 DEF title

(* The extension of segments, with that much room for titles.              *)
Extended(room, segs) == Fold(Extend, [budget |-> room, bytes |-> <<>>], segs)

LEMMA ExtendedLaw ==
  ASSUME NEW room \in Nat, NEW segs \in Seq(Segments)
  PROVE  /\ Extended(room, <<>>) = [budget |-> room, bytes |-> <<>>]
         /\ Extended(room, segs) \in Extensions
         /\ \A seg \in Segments :
              LET ext   == Extended(room, segs)
                  title == Written(seg, ext.budget)
              IN  Extended(room, Append(segs, seg)) =
                    [budget |-> ext.budget - Len(title),
                     bytes  |-> ext.bytes \o Extension(seg, title)]
<1> DEFINE start == [budget |-> room, bytes |-> <<>>]
           next(seg, ext) == [budget |-> ext.budget - Len(Written(seg, ext.budget)),
                              bytes |-> ext.bytes \o Extension(seg, Written(seg, ext.budget))]
<1>1. ASSUME NEW seg \in Segments, NEW ext \in Extensions
      PROVE  Extend[seg][ext] = next(seg, ext) /\ next(seg, ext) \in Extensions
  <2>1. Extend[seg][ext] = next(seg, ext)
    BY DEF Extend, Written, Cut
  <2>2. ext.budget \in Nat /\ ext.bytes \in Seq(Byte)
    BY DEF Extensions
  <2> DEFINE title == Written(seg, ext.budget)
  <2>3. /\ title \in Seq(Byte) /\ Len(title) <= ext.budget /\ Len(title) \in Byte
        /\ Extension(seg, title) \in Seq(Byte)
    BY <2>2, WrittenLaw
  <2> HIDE DEF title
  <2>4. ext.budget - Len(title) \in Nat /\ ext.bytes \o Extension(seg, title) \in Seq(Byte)
    BY <2>2, <2>3 DEF Byte
  <2>5. next(seg, ext) \in Extensions
    BY <2>4 DEF Extensions, title
  <2> QED
    BY <2>1, <2>5
<1>2. start \in Extensions
  BY DEF Extensions
<1>3. Extend \in [Segments -> [Extensions -> Extensions]]
  <2>1. \A seg \in Segments, ext \in Extensions : Extend[seg][ext] \in Extensions
    <3> HIDE DEF next
    <3> QED
      BY <1>1
  <2>2. Extend = [seg \in Segments |-> [ext \in Extensions |-> Extend[seg][ext]]]
    BY DEF Extend
  <2> QED
    BY <2>1, <2>2
<1>4. Loop(Extensions, Segments, Extend, start)
  BY <1>2, <1>3 DEF Loop
<1>5. \A s : Extended(room, s) = Fold(Extend, start, s)
  BY DEF Extended
<1> HIDE DEF start, next
<1>6. /\ Fold(Extend, start, <<>>) = start
      /\ Fold(Extend, start, segs) \in Extensions
      /\ \A seg \in Segments :
           Fold(Extend, start, Append(segs, seg)) = Extend[seg][Fold(Extend, start, segs)]
  BY <1>4, FoldLaw
<1>7. Extended(room, <<>>) = start
  BY <1>5, <1>6, Zenon
<1>8. Extended(room, segs) \in Extensions
  BY <1>5, <1>6, Zenon
<1>9. ASSUME NEW seg \in Segments
      PROVE  Extended(room, Append(segs, seg)) = next(seg, Extended(room, segs))
  <2>1. Extended(room, Append(segs, seg)) = Extend[seg][Extended(room, segs)]
    BY <1>5, <1>6, Zenon
  <2> QED
    BY <1>1, <1>8, <2>1
<1> QED
  BY <1>7, <1>8, <1>9 DEF start, next

(* The budget is what is left of the room: nothing is written beyond it.   *)
LEMMA ExtendedLength ==
  ASSUME NEW room \in Nat, NEW segs \in Seq(Segments)
  PROVE  LET ext == Extended(room, segs) IN
         Len(ext.bytes) + ext.budget = room + 2 * Len(segs)
<1> DEFINE Total(s) == Len(Extended(room, s).bytes) + Extended(room, s).budget
           P == {s \in Seq(Segments) : Total(s) = room + 2 * Len(s)}
<1>1. <<>> \in P
  <2>1. <<>> \in Seq(Segments) /\ Len(<<>>) = 0
    OBVIOUS
  <2>2. Extended(room, <<>>) = [budget |-> room, bytes |-> <<>>]
    BY <2>1, ExtendedLaw
  <2>3. Total(<<>>) = room
    BY <2>2
  <2> QED
    BY <2>1, <2>3
<1>2. ASSUME NEW s \in Seq(Segments), NEW seg \in Segments, s \in P PROVE Append(s, seg) \in P
  <2> DEFINE ext == Extended(room, s)
             title == Written(seg, ext.budget)
             longer == Append(s, seg)
  <2>1. ext.budget \in Nat /\ ext.bytes \in Seq(Byte)
    BY ExtendedLaw DEF Extensions
  <2>2. /\ title \in Seq(Byte) /\ Len(title) <= ext.budget
        /\ Extension(seg, title) \in Seq(Byte)
        /\ Len(Extension(seg, title)) = 2 + Len(title)
    BY <2>1, WrittenLaw
  <2>3. Extended(room, longer) = [budget |-> ext.budget - Len(title),
                                  bytes  |-> ext.bytes \o Extension(seg, title)]
    BY ExtendedLaw
  <2>4. Total(longer) = Len(ext.bytes \o Extension(seg, title)) + (ext.budget - Len(title))
    BY <2>3
  <2>5. longer \in Seq(Segments) /\ Len(longer) = Len(s) + 1 /\ Len(s) \in Nat
    OBVIOUS
  <2>6. Total(s) = Len(ext.bytes) + ext.budget /\ Total(s) = room + 2 * Len(s)
    BY <1>2
  <2>7. Total(longer) = room + 2 * Len(longer)
    <3> HIDE DEF ext, title, longer, Total
    <3>1. PICK whole : whole = ext.bytes \o Extension(seg, title)
      OBVIOUS
    <3>2. ext.bytes \in Seq(Byte) /\ Extension(seg, title) \in Seq(Byte)
      BY <2>1, <2>2
    <3>3. /\ Len(whole) = Len(ext.bytes) + Len(Extension(seg, title))
          /\ Len(ext.bytes) \in Nat /\ Len(Extension(seg, title)) \in Nat
          /\ Len(whole) \in Nat
      BY <3>1, <3>2, ConcatAt
    <3>4. Len(title) \in Nat /\ ext.budget \in Nat /\ Len(Extension(seg, title)) = 2 + Len(title)
      BY <2>1, <2>2
    <3>5. Total(longer) = Len(whole) + (ext.budget - Len(title))
      BY <2>4, <3>1
    <3>6. Len(longer) = Len(s) + 1 /\ Len(s) \in Nat /\ Len(longer) \in Nat
      BY <2>5
    <3>7. Len(ext.bytes) + ext.budget = room + 2 * Len(s)
      BY <2>6
    <3>8. Len(whole) = Len(ext.bytes) + (2 + Len(title))
      BY <3>3, <3>4, Zenon
    <3>9. Len(whole) + (ext.budget - Len(title)) = (Len(ext.bytes) + ext.budget) + 2
      <4> DEFINE w == Len(whole)
                 e == Len(ext.bytes)
                 t == Len(title)
                 b == ext.budget
      <4>1. w \in Nat /\ e \in Nat /\ t \in Nat /\ b \in Nat
        BY <3>3, <3>4, Zenon
      <4>2. w = e + (2 + t)
        BY <3>8, Zenon
      <4>3. w + (b - t) = (e + b) + 2
        <5> HIDE DEF w, e, t, b
        <5> QED
          BY <4>1, <4>2
      <4> QED
        BY <4>3, Zenon
    <3>10. \A k \in Nat : (room + 2 * k) + 2 = room + 2 * (k + 1)
      OBVIOUS
    <3>11. Total(longer) = (room + 2 * Len(s)) + 2
      BY <3>5, <3>7, <3>9, Zenon
    <3> QED
      BY <3>6, <3>10, <3>11, Zenon
  <2> QED
    BY <2>5, <2>7
<1>3. Seq(Segments) \subseteq P
  <2> HIDE DEF P
  <2> QED
    BY <1>1, <1>2, ListInduction
<1> QED
  BY <1>3

(* The room that n segments leave for titles.                              *)
Room(n) == 255 - 4 - 6 * n

(* A payload is the base block, or that and the extension, and never       *)
(* longer than its length field can say.                                   *)
LEMMA PayloadLaw ==
  ASSUME NEW segs \in Seq(Segments), Len(segs) <= MAX_SEGS, NEW number \in Nat
  PROVE  LET base == Base(segs, number)
             ext  == Extended(Room(Len(segs)), segs).bytes
         IN  /\ Room(Len(segs)) \in Nat
             /\ Payload(segs, number) =
                  IF \E i \in 1 .. Len(segs) : segs[i].harness # 0 \/ segs[i].title # <<>>
                    THEN base \o ext ELSE base
             /\ Payload(segs, number) \in Seq(Byte)
             /\ Len(Payload(segs, number)) \in 4 .. 255
<1> DEFINE base == Base(segs, number)
           n == Len(segs)
           ext == Extended(Room(n), segs)
<1>1. base \in Seq(Byte) /\ Len(base) = 4 + 4 * n /\ n \in Nat
  BY BaseLaw
<1>2. Room(n) \in Nat /\ Room(n) = 255 - (Len(base) + 2 * n)
  <2>1. n <= MAX_SEGS
    OBVIOUS
  <2> HIDE DEF n, base
  <2>2. 4 + 6 * n <= 255
    BY <1>1, <2>1, FewSegments
  <2> QED
    BY <1>1, <2>2 DEF Room
<1>3. Payload(segs, number) =
        IF \E i \in 1 .. n : segs[i].harness # 0 \/ segs[i].title # <<>>
          THEN base \o ext.bytes ELSE base
  <2>1. Extended(255 - (Len(base) + 2 * n), segs) = ext
    BY <1>2
  <2> QED
    BY <2>1 DEF Payload, Extended
<1>4. ext.bytes \in Seq(Byte) /\ ext.budget \in Nat /\ Len(ext.bytes) + ext.budget = Room(n) + 2 * n
  BY <1>2, ExtendedLaw, ExtendedLength DEF Extensions
<1> HIDE DEF base, n, ext
<1>5. /\ Len(ext.bytes) <= Room(n) + 2 * n /\ Len(ext.bytes) \in Nat
      /\ Len(base) = 4 + 4 * n /\ n \in Nat /\ Room(n) \in Nat
  <2>1. Len(ext.bytes) \in Nat
    BY <1>4
  <2>2. /\ ext.budget \in Nat /\ Len(ext.bytes) + ext.budget = Room(n) + 2 * n
        /\ Len(base) = 4 + 4 * n /\ n \in Nat /\ Room(n) \in Nat
    BY <1>1, <1>2, <1>4
  <2> QED
    BY <2>1, <2>2
<1>6. base \o ext.bytes \in Seq(Byte) /\ Len(base \o ext.bytes) \in 4 .. 255
  <2>1. PICK whole : whole = base \o ext.bytes
    OBVIOUS
  <2>2. base \in Seq(Byte) /\ ext.bytes \in Seq(Byte)
    BY <1>1, <1>4
  <2>3. /\ whole \in Seq(Byte) /\ Len(whole) = Len(base) + Len(ext.bytes)
        /\ Len(whole) \in Nat /\ Len(base) \in Nat
    BY <2>1, <2>2, ConcatAt
  <2>5. \A w, e, b \in Nat :
          w = b + e /\ b = 4 + 4 * n /\ e <= Room(n) + 2 * n => w \in 4 .. 255
    BY <1>5 DEF Room
  <2>6. Len(whole) \in 4 .. 255
    BY <1>5, <2>3, <2>5, Zenon
  <2> QED
    BY <2>1, <2>3, <2>6
<1>7. Len(base) \in 4 .. 255
  BY <1>5 DEF Room
<1> QED
  BY <1>1, <1>2, <1>3, <1>6, <1>7 DEF base, n, ext

(***************************************************************************)
(* What is read                                                            *)
(***************************************************************************)

(* A segment as it is decoded before its extension is read.                *)
Plain(seg) ==
  [state |-> seg.state, hue |-> STATE_STYLE[seg.state + 1][1],
   anim |-> STATE_STYLE[seg.state + 1][2], harness |-> 0, title |-> <<>>]

Plains(segs) == [i \in 1 .. Len(segs) |-> Plain(segs[i])]

LEMMA AtItsPlace ==
  \A T : \A s \in Seq(T) : \A i \in 1 .. Len(s) : s[i] \in T
OBVIOUS

LEMMA BytesConcat ==
  \A s, t \in Seq(Byte) : \A whole : whole = s \o t =>
    /\ whole \in Seq(Byte) /\ Len(s) \in Nat /\ Len(t) \in Nat /\ Len(whole) \in Nat
    /\ Len(whole) = Len(s) + Len(t)
    /\ \A i \in 1 .. Len(s) : whole[i] = s[i]
    /\ \A i \in 1 .. Len(t) : whole[Len(s) + i] = t[i]
BY ConcatAt

LEMMA ByteIsNat == \A x \in Byte : x \in Nat
BY DEF Byte

LEMMA PlainLaw ==
  ASSUME NEW seg \in Segments
  PROVE  /\ Plain(seg) \in Shown
         /\ Plain(seg) = [state |-> Block(seg)[1], hue |-> Block(seg)[2], anim |-> Block(seg)[3],
                          harness |-> 0, title |-> <<>>]
<1>1. /\ Block(seg) \in Seq(Byte) /\ Len(Block(seg)) = 4 /\ Block(seg)[1] = seg.state
      /\ Block(seg)[2] = STATE_STYLE[seg.state + 1][1]
      /\ Block(seg)[3] = STATE_STYLE[seg.state + 1][2]
  BY BlockLaw
<1>2. Block(seg)[1] \in Byte /\ Block(seg)[2] \in Byte /\ Block(seg)[3] \in Byte
  <2>1. 1 \in 1 .. 4 /\ 2 \in 1 .. 4 /\ 3 \in 1 .. 4
    OBVIOUS
  <2> QED
    BY <1>1, <2>1, AtItsPlace, Zenon
<1>3. 0 \in Byte /\ <<>> \in Seq(Byte)
  BY DEF Byte
<1>4. Plain(seg) = [state |-> Block(seg)[1], hue |-> Block(seg)[2], anim |-> Block(seg)[3],
                    harness |-> 0, title |-> <<>>]
  BY <1>1 DEF Plain
<1>5. Plain(seg) \in Shown
  BY <1>2, <1>3, <1>4 DEF Shown
<1> QED
  BY <1>4, <1>5

LEMMA PlainIsKnown ==
  ASSUME NEW seg \in Segments
  PROVE  Plain(seg).state \in 0 .. 6 /\ Plain(seg).anim \in 0 .. 5
<1>1. seg.state \in 0 .. 6
  BY DEF Segments
<1>2. \A s \in 0 .. 6 : STATE_STYLE[s + 1][2] \in 0 .. 5
  BY DEF STATE_STYLE
<1> QED
  BY <1>1, <1>2 DEF Plain

LEMMA PlainsLaw ==
  ASSUME NEW segs \in Seq(Segments)
  PROVE  /\ Plains(<<>>) = <<>>
         /\ Plains(segs) \in Seq(Shown) /\ Len(Plains(segs)) = Len(segs)
         /\ \A i \in 1 .. Len(segs) : Plains(segs)[i] = Plain(segs[i])
         /\ \A seg \in Segments : Plains(Append(segs, seg)) = Append(Plains(segs), Plain(seg))
<1>1. Plains(<<>>) = <<>>
  BY DEF Plains
<1>2. ASSUME NEW s \in Seq(Segments)
      PROVE  /\ Plains(s) \in Seq(Shown) /\ Len(Plains(s)) = Len(s)
             /\ \A i \in 1 .. Len(s) : Plains(s)[i] = Plain(s[i])
  <2> DEFINE n == Len(s)
  <2>1. n \in Nat /\ \A i \in 1 .. n : Plain(s[i]) \in Shown
    BY PlainLaw
  <2>2. Plains(s) = [i \in 1 .. n |-> Plain(s[i])]
    BY DEF Plains
  <2> HIDE DEF n
  <2>3. Plains(s) \in [1 .. n -> Shown] /\ \A i \in 1 .. n : Plains(s)[i] = Plain(s[i])
    BY <2>1, <2>2
  <2>4. Plains(s) \in Seq(Shown)
    BY <2>1, <2>3
  <2>5. Len(Plains(s)) = n
    BY <2>1, <2>3
  <2> QED
    BY <2>3, <2>4, <2>5 DEF n
<1>3. ASSUME NEW seg \in Segments
      PROVE  Plains(Append(segs, seg)) = Append(Plains(segs), Plain(seg))
  <2> DEFINE longer == Append(segs, seg)
             n == Len(segs)
             a == Plains(longer)
             p == Plains(segs)
  <2>1. /\ longer \in Seq(Segments) /\ Len(longer) = n + 1 /\ n \in Nat
        /\ longer[n + 1] = seg
        /\ \A i \in 1 .. n : longer[i] = segs[i]
    OBVIOUS
  <2>2. /\ a \in Seq(Shown) /\ Len(a) = n + 1
        /\ \A i \in 1 .. n + 1 : a[i] = Plain(longer[i])
    <3> HIDE DEF longer
    <3> QED
      BY <1>2, <2>1
  <2>3. /\ p \in Seq(Shown) /\ Len(p) = n
        /\ \A i \in 1 .. n : p[i] = Plain(segs[i])
    BY <1>2
  <2>4. Plain(seg) \in Shown
    BY PlainLaw
  <2> HIDE DEF longer, n, a, p
  <2>5. a[n + 1] = Plain(seg) /\ \A i \in 1 .. n : a[i] = p[i]
    <3>1. n + 1 \in 1 .. n + 1 /\ \A i \in 1 .. n : i \in 1 .. n + 1
      BY <2>1
    <3> QED
      BY <2>1, <2>2, <2>3, <3>1
  <2> DEFINE b == Append(p, Plain(seg))
  <2>6. /\ b \in Seq(Shown) /\ Len(b) = n + 1 /\ b[n + 1] = Plain(seg)
        /\ \A i \in 1 .. n : b[i] = p[i]
    BY <2>3, <2>4
  <2> HIDE DEF b
  <2>7. a = b
    <3>1. \A i \in 1 .. n + 1 : a[i] = b[i]
      BY <2>1, <2>5, <2>6
    <3> QED
      BY <2>2, <2>6, <3>1
  <2> QED
    BY <2>7 DEF a, b, p, longer
<1> QED
  BY <1>1, <1>2, <1>3

(* Whatever follows the base block, the segments are found in it.          *)
LEMMA ReadBaseLaw ==
  ASSUME NEW segs \in Seq(Segments), Len(segs) <= MAX_SEGS, NEW number \in Nat,
         NEW payload \in Seq(Byte),
         Len(payload) >= Len(Base(segs, number)),
         \A k \in 1 .. Len(Base(segs, number)) : payload[k] = Base(segs, number)[k]
  PROVE  /\ payload[1] = FRAME_MAGIC /\ payload[2] = number % 256
         /\ payload[3] = Len(segs) /\ payload[4] = BRIGHTNESS
         /\ ReadBase(payload) = Plains(segs)
<1> DEFINE base == Base(segs, number)
           n == Len(segs)
           room == (Len(payload) - 4) \div 4
<1>1. /\ base \in Seq(Byte) /\ Len(base) = 4 + 4 * n
      /\ base[1] = FRAME_MAGIC /\ base[2] = number % 256
      /\ base[3] = n /\ base[4] = BRIGHTNESS
      /\ \A i \in 1 .. n, o \in 1 .. 4 : base[4 * i + o] = Block(segs[i])[o]
  BY BaseLaw
<1>2. n \in Nat /\ Len(payload) \in Nat /\ Len(payload) >= 4 + 4 * n
  BY <1>1
<1>3. \A k \in 1 .. 4 + 4 * n : payload[k] = base[k]
  BY <1>1
<1> HIDE DEF base, n
<1>4. /\ payload[1] = FRAME_MAGIC /\ payload[2] = number % 256
      /\ payload[3] = n /\ payload[4] = BRIGHTNESS
  <2>1. 1 \in 1 .. 4 + 4 * n /\ 2 \in 1 .. 4 + 4 * n /\ 3 \in 1 .. 4 + 4 * n /\ 4 \in 1 .. 4 + 4 * n
    BY <1>2
  <2> QED
    BY <1>1, <1>3, <2>1
<1>5. AtMost(payload[3], room) = n
  <2> DEFINE l == Len(payload)
  <2>1. l \in Nat /\ l >= 4 + 4 * n /\ n \in Nat
    BY <1>2
  <2>2. (l - 4) \div 4 \in Nat /\ (l - 4) \div 4 >= n
    <3> HIDE DEF l
    <3> QED
      BY <2>1
  <2> QED
    BY <1>4, <2>1, <2>2 DEF AtMost
<1>6. ASSUME NEW i \in 1 .. n
      PROVE  [state |-> payload[4 * i + 1], hue |-> payload[4 * i + 2],
              anim |-> payload[4 * i + 3], harness |-> 0, title |-> <<>>] = Plain(segs[i])
  <2>1. segs[i] \in Segments
    BY DEF n
  <2>2. \A o \in 1 .. 4 : 4 * i + o \in 1 .. 4 + 4 * n
    BY <1>2
  <2>3. \A o \in 1 .. 4 : payload[4 * i + o] = Block(segs[i])[o]
    BY <1>1, <1>3, <2>2
  <2>4. /\ payload[4 * i + 1] = Block(segs[i])[1] /\ payload[4 * i + 2] = Block(segs[i])[2]
        /\ payload[4 * i + 3] = Block(segs[i])[3]
    BY <2>3
  <2> QED
    BY <2>1, <2>4, PlainLaw
<1>7. ReadBase(payload) =
        [i \in 1 .. n |-> [state |-> payload[4 * i + 1], hue |-> payload[4 * i + 2],
                           anim |-> payload[4 * i + 3], harness |-> 0, title |-> <<>>]]
  BY <1>5 DEF ReadBase
<1>8. ReadBase(payload) = Plains(segs)
  BY <1>6, <1>7 DEF Plains, n
<1> QED
  BY <1>4, <1>8 DEF n

(* The reader after a list of segments, when it starts at a place.         *)
Read(bytes, at, list) ==
  Fold(ReadExtension(bytes), [at |-> at, ended |-> FALSE, segments |-> <<>>], list)

LEMMA ReadLaw ==
  ASSUME NEW bytes \in Seq(Byte), NEW at \in Nat, NEW list \in Seq(Shown)
  PROVE  /\ Read(bytes, at, <<>>) = [at |-> at, ended |-> FALSE, segments |-> <<>>]
         /\ Read(bytes, at, list) \in Readers
         /\ \A segment \in Shown :
              Read(bytes, at, Append(list, segment))
                = ReadExtension(bytes)[segment][Read(bytes, at, list)]
<1> DEFINE start == [at |-> at, ended |-> FALSE, segments |-> <<>>]
           step == ReadExtension(bytes)
<1>1. start \in Readers
  BY DEF Readers
<1>2. ASSUME NEW segment \in Shown, NEW reader \in Readers
      PROVE  step[segment][reader] \in Readers
  <2> DEFINE a == reader.at
             l == Len(bytes)
             whole == a + 2 <= l /\ a + 2 + bytes[a + 2] <= l
             next == a + 2 + bytes[a + 2]
             taken == [segment EXCEPT !.harness = bytes[a + 1], !.title = SubSeq(bytes, a + 3, next)]
  <2>1. reader.at \in Nat /\ reader.ended \in BOOLEAN /\ reader.segments \in Seq(Shown)
    BY DEF Readers
  <2>2. step[segment][reader] =
          IF reader.ended \/ ~whole
            THEN [reader EXCEPT !.ended = TRUE, !.segments = Append(@, segment)]
            ELSE [reader EXCEPT !.at = next, !.segments = Append(@, taken)]
    BY DEF ReadExtension
  <2>3. CASE reader.ended \/ ~whole
    <3>1. step[segment][reader] = [reader EXCEPT !.ended = TRUE, !.segments = Append(@, segment)]
      BY <2>2, <2>3
    <3>2. Append(reader.segments, segment) \in Seq(Shown)
      BY <2>1
    <3> QED
      BY <3>1, <3>2 DEF Readers
  <2>4. CASE ~(reader.ended \/ ~whole)
    <3>1. l \in Nat /\ a \in Nat
      BY <2>1
    <3>2. a + 1 \in 1 .. l /\ a + 2 \in 1 .. l
      <4>1. a + 2 <= l
        BY <2>4
      <4> HIDE DEF l, a
      <4> QED
        BY <3>1, <4>1
    <3>3. bytes[a + 1] \in Byte /\ bytes[a + 2] \in Byte
      BY <3>2, AtItsPlace, Zenon
    <3>4. next \in Nat /\ next <= l
      <4>1. a + 2 + bytes[a + 2] <= l
        BY <2>4
      <4>2. bytes[a + 2] \in Nat
        BY <3>3, ByteIsNat, Zenon
      <4> HIDE DEF l, a
      <4> QED
        BY <3>1, <4>1, <4>2
    <3>5. SubSeq(bytes, a + 3, next) \in Seq(Byte)
      <4> HIDE DEF next, a
      <4> QED
        BY <3>1, <3>4 DEF l
    <3>6. taken \in Shown
      <4> HIDE DEF next, a
      <4> QED
        BY <3>3, <3>5 DEF Shown
    <3>7. Append(reader.segments, taken) \in Seq(Shown)
      <4> HIDE DEF taken
      <4> QED
        BY <2>1, <3>6
    <3>8. step[segment][reader] = [reader EXCEPT !.at = next, !.segments = Append(@, taken)]
      BY <2>2, <2>4
    <3> HIDE DEF step, next, taken
    <3> QED
      BY <3>4, <3>7, <3>8 DEF Readers
  <2> QED
    BY <2>3, <2>4
<1>3. step \in [Shown -> [Readers -> Readers]]
  <2>1. step = [segment \in Shown |-> [reader \in Readers |-> step[segment][reader]]]
    BY DEF ReadExtension
  <2> HIDE DEF step
  <2> QED
    BY <1>2, <2>1
<1>4. Loop(Readers, Shown, step, start)
  BY <1>1, <1>3 DEF Loop
<1>5. \A s : Read(bytes, at, s) = Fold(step, start, s)
  BY DEF Read
<1> HIDE DEF step, start
<1>6. /\ Fold(step, start, <<>>) = start
      /\ Fold(step, start, list) \in Readers
      /\ \A segment \in Shown :
           Fold(step, start, Append(list, segment)) = step[segment][Fold(step, start, list)]
  BY <1>4, FoldLaw
<1>7. Read(bytes, at, <<>>) = start
  BY <1>5, <1>6, Zenon
<1>8. Read(bytes, at, list) \in Readers
  BY <1>5, <1>6, Zenon
<1>9. \A segment \in Shown :
        Read(bytes, at, Append(list, segment)) = step[segment][Read(bytes, at, list)]
  BY <1>5, <1>6, Zenon
<1> QED
  BY <1>7, <1>8, <1>9 DEF start, step

(* Where the parts of bytes are found.                                     *)
Placed(front, head, title, rest) ==
  LET piece == head \o title
      bytes == (front \o piece) \o rest
  IN  /\ piece \in Seq(Byte) /\ bytes \in Seq(Byte)
      /\ Len(front) \in Nat /\ Len(head) \in Nat /\ Len(title) \in Nat /\ Len(rest) \in Nat
      /\ Len(piece) = Len(head) + Len(title)
      /\ Len(bytes) = (Len(front) + Len(piece)) + Len(rest)
      /\ \A i \in 1 .. Len(head) : bytes[Len(front) + i] = head[i]
      /\ \A i \in 1 .. Len(title) : bytes[Len(front) + (Len(head) + i)] = title[i]

LEMMA PlacedLaw ==
  ASSUME NEW front \in Seq(Byte), NEW head \in Seq(Byte), NEW title \in Seq(Byte),
         NEW rest \in Seq(Byte)
  PROVE  Placed(front, head, title, rest)
<1> DEFINE piece == head \o title
           most == front \o piece
           bytes == most \o rest
           f == Len(front)
           h == Len(head)
           l == Len(title)
           r == Len(rest)
           p == Len(piece)
           m == Len(most)
           w == Len(bytes)
<1>0. piece = head \o title /\ most = front \o piece /\ bytes = most \o rest
  OBVIOUS
<1> HIDE DEF piece, most, bytes
<1>1. /\ piece \in Seq(Byte) /\ h \in Nat /\ l \in Nat /\ p \in Nat /\ p = h + l
      /\ \A i \in 1 .. h : piece[i] = head[i]
      /\ \A i \in 1 .. l : piece[h + i] = title[i]
  BY <1>0, BytesConcat
<1>2. /\ most \in Seq(Byte) /\ f \in Nat /\ m \in Nat /\ m = f + p
      /\ \A i \in 1 .. p : most[f + i] = piece[i]
  BY <1>0, <1>1, BytesConcat
<1>3. /\ bytes \in Seq(Byte) /\ w \in Nat /\ r \in Nat /\ w = m + r
      /\ \A i \in 1 .. m : bytes[i] = most[i]
  BY <1>0, <1>2, BytesConcat
<1> HIDE DEF f, h, l, r, p, m, w
<1>4. ASSUME NEW i \in 1 .. h PROVE bytes[f + i] = head[i]
  <2>1. i \in 1 .. p /\ f + i \in 1 .. m
    BY <1>1, <1>2
  <2> QED
    BY <1>1, <1>2, <1>3, <2>1
<1>5. ASSUME NEW i \in 1 .. l PROVE bytes[f + (h + i)] = title[i]
  <2>1. h + i \in 1 .. p /\ f + (h + i) \in 1 .. m
    BY <1>1, <1>2
  <2> QED
    BY <1>1, <1>2, <1>3, <2>1
<1>6. w = (f + p) + r
  BY <1>2, <1>3
<1> QED
  BY <1>1, <1>2, <1>3, <1>4, <1>5, <1>6, Zenon DEF Placed, f, h, l, r, p, w, piece, most, bytes

(* The reader takes up an extension that is written behind what it read.   *)
TakesUp(front, title, harness, rest, segment, q) ==
  LET piece == <<harness, Len(title)>> \o title
      bytes == (front \o piece) \o rest
  IN  ReadExtension(bytes)[segment][[at |-> Len(front), ended |-> FALSE, segments |-> q]]
        = [at |-> Len(front) + Len(piece), ended |-> FALSE,
           segments |-> Append(q, [segment EXCEPT !.harness = harness, !.title = title])]

LEMMA ReadsOne ==
  ASSUME NEW front \in Seq(Byte), NEW title \in Seq(Byte), NEW harness \in Byte, Len(title) \in Byte,
         NEW rest \in Seq(Byte), NEW segment \in Shown, NEW q \in Seq(Shown)
  PROVE  TakesUp(front, title, harness, rest, segment, q)
<1> DEFINE f == Len(front)
           l == Len(title)
           head == <<harness, Len(title)>>
           h == Len(head)
           piece == head \o title
           bytes == (front \o piece) \o rest
           p == Len(piece)
           w == Len(bytes)
           r == Len(rest)
<1>1. head \in Seq(Byte) /\ Len(head) = 2 /\ head[1] = harness /\ head[2] = l
  OBVIOUS
<1>2. head \in Seq(Byte)
  BY <1>1
<1> HIDE DEF head
<1>5. /\ piece \in Seq(Byte) /\ bytes \in Seq(Byte) /\ f \in Nat /\ h \in Nat /\ l \in Nat /\ r \in Nat
      /\ p = h + l /\ w = (f + p) + r
      /\ \A i \in 1 .. h : bytes[f + i] = head[i]
      /\ \A i \in 1 .. l : bytes[f + (h + i)] = title[i]
  <2>1. Placed(front, head, title, rest)
    BY <1>2, PlacedLaw
  <2> QED
    BY <2>1, Zenon DEF Placed
<1>6. h = 2
  BY <1>1
<1> HIDE DEF f, h, piece, bytes, p, w, r
<1>8. /\ head[1] = harness /\ head[2] = l /\ bytes \in Seq(Byte) /\ Len(bytes) = w
      /\ Len(front) = f /\ Len(piece) = p /\ title \in Seq(Byte) /\ Len(title) = l
  BY <1>1, <1>5, Zenon DEF w, f, p
<1> HIDE DEF l
<1>9. bytes[f + 1] = harness /\ bytes[f + 2] = l
  <2>1. 1 \in 1 .. h /\ 2 \in 1 .. h
    BY <1>6
  <2> QED
    BY <1>5, <1>8, <2>1, Zenon
<1>10. \A i \in 1 .. l : bytes[(f + 2) + i] = title[i]
  <2> SUFFICES ASSUME NEW i \in 1 .. l PROVE bytes[(f + 2) + i] = title[i]
    OBVIOUS
  <2>1. (f + 2) + i = f + (h + i)
    BY <1>5, <1>6
  <2> QED
    BY <1>5, <2>1, Zenon
<1>11. SubSeq(bytes, f + 3, f + 2 + l) = title
  <2> DEFINE part == SubSeq(bytes, f + 3, f + 2 + l)
  <2>1. f \in Nat /\ l \in Nat /\ w \in Nat /\ f + 2 + l <= w
    BY <1>5, <1>6
  <2>2. part \in Seq(Byte)
    BY <1>8, <2>1
  <2>3. Len(part) = l
    BY <1>8, <2>1
  <2>3a. \A i \in 1 .. l : part[i] = bytes[(f + 2) + i]
    BY <1>8, <2>1
  <2>4. title \in Seq(Byte) /\ Len(title) = l
    BY <1>8
  <2> HIDE DEF part
  <2>5. \A i \in 1 .. l : part[i] = title[i]
    BY <1>10, <2>3a
  <2>6. part = title
    BY <2>2, <2>3, <2>4, <2>5
  <2> QED
    BY <2>6 DEF part
<1> DEFINE reader == [at |-> f, ended |-> FALSE, segments |-> q]
<1>12. reader \in Readers
  BY <1>5 DEF Readers
<1>13. f + 2 <= w /\ f + 2 + bytes[f + 2] <= w /\ f + 2 + bytes[f + 2] = f + 2 + l
  <2>1. f + 2 <= w /\ f + 2 + l <= w
    BY <1>5, <1>6
  <2> QED
    BY <1>9, <2>1, Zenon
<1>14. ReadExtension(bytes)[segment][reader] =
         [reader EXCEPT !.at = f + 2 + l,
            !.segments = Append(@, [segment EXCEPT !.harness = harness, !.title = title])]
  <2>1. reader.at = f /\ reader.ended = FALSE
    OBVIOUS
  <2> HIDE DEF reader
  <2>2. /\ reader.at + 2 <= Len(bytes) /\ reader.at + 2 + bytes[reader.at + 2] <= Len(bytes)
        /\ reader.at + 2 + bytes[reader.at + 2] = f + 2 + l
        /\ bytes[reader.at + 1] = harness
        /\ SubSeq(bytes, reader.at + 3, f + 2 + l) = title
    BY <1>8, <1>9, <1>11, <1>13, <2>1, Zenon
  <2> HIDE <1>9, <1>11, <1>13
  <2> QED
    BY <1>12, <2>1, <2>2, Zenon DEF ReadExtension
<1>15. f + 2 + l = f + p
  BY <1>5, <1>6
<1>16. ReadExtension(bytes)[segment][reader]
         = [at |-> f + p, ended |-> FALSE,
            segments |-> Append(q, [segment EXCEPT !.harness = harness, !.title = title])]
  BY <1>14, <1>15
<1> QED
  BY <1>8, <1>16, Zenon DEF TakesUp, bytes, piece, head, l

LEMMA TitleBytesLaw ==
  ASSUME NEW q \in Seq(Shown)
  PROVE  /\ TitleBytes(<<>>) = 0
         /\ TitleBytes(q) \in Nat
         /\ \A x \in Shown : TitleBytes(Append(q, x)) = TitleBytes(q) + Len(x.title)
<1> DEFINE add == [seg \in Shown |-> [sum \in Nat |-> sum + Len(seg.title)]]
<1>1. ASSUME NEW seg \in Shown PROVE Len(seg.title) \in Nat
  <2>1. seg.title \in Seq(Byte)
    BY DEF Shown
  <2> QED
    BY <2>1
<1>2. add \in [Shown -> [Nat -> Nat]]
  <2>1. \A seg \in Shown : [sum \in Nat |-> sum + Len(seg.title)] \in [Nat -> Nat]
    BY <1>1
  <2> QED
    BY <2>1
<1>3. Loop(Nat, Shown, add, 0)
  BY <1>2 DEF Loop
<1>4. \A s : TitleBytes(s) = Fold(add, 0, s)
  BY DEF TitleBytes
<1>5. \A x \in Shown, n \in Nat : add[x][n] = n + Len(x.title)
  OBVIOUS
<1> HIDE DEF add
<1>6. /\ Fold(add, 0, <<>>) = 0
      /\ Fold(add, 0, q) \in Nat
      /\ \A x \in Shown : Fold(add, 0, Append(q, x)) = add[x][Fold(add, 0, q)]
  BY <1>3, FoldLaw
<1> QED
  BY <1>4, <1>5, <1>6, Zenon

(* What the device shows of a segment when there is that much room.        *)
SeenAs(seg, room) ==
  [Plain(seg) EXCEPT !.harness = seg.harness, !.title = Written(seg, room)]

(* What it shows of all of them: each title had the room that the titles   *)
(* before it left.                                                         *)
Shows(q, segs, room) ==
  /\ q \in Seq(Shown) /\ Len(q) = Len(segs)
  /\ \A i \in 1 .. Len(segs) :
       \E left \in Nat : /\ left + TitleBytes(SubSeq(q, 1, i - 1)) = room
                         /\ q[i] = SeenAs(segs[i], left)

LEMMA SeenAsLaw ==
  ASSUME NEW seg \in Segments, NEW room \in Nat
  PROVE  /\ SeenAs(seg, room) \in Shown
         /\ SeenAs(seg, room).title = Written(seg, room)
         /\ SeenAs(seg, room).harness = seg.harness
         /\ SeenAs(seg, room).state = seg.state
         /\ SeenAs(seg, room).hue = STATE_STYLE[seg.state + 1][1]
         /\ SeenAs(seg, room).anim = STATE_STYLE[seg.state + 1][2]
<1>1. Plain(seg) \in Shown
  BY PlainLaw
<1>2. Written(seg, room) \in Seq(Byte)
  BY WrittenLaw
<1>3. seg.harness \in Byte
  BY DEF Segments
<1>4. SeenAs(seg, room) \in Shown
  BY <1>1, <1>2, <1>3 DEF SeenAs, Shown
<1> QED
  BY <1>4 DEF SeenAs, Plain

LEMMA BeginningsStay ==
  ASSUME NEW T, NEW q \in Seq(T), NEW x \in T
  PROVE  /\ \A i \in 1 .. Len(q) : SubSeq(Append(q, x), 1, i - 1) = SubSeq(q, 1, i - 1)
         /\ SubSeq(Append(q, x), 1, Len(q)) = q
<1>1. Append(q, x) \in Seq(T) /\ Len(Append(q, x)) = Len(q) + 1 /\ Len(q) \in Nat
      /\ \A i \in 1 .. Len(q) : Append(q, x)[i] = q[i]
  OBVIOUS
<1> DEFINE longer == Append(q, x)
           n == Len(q)
<1> HIDE DEF longer
<1>2. ASSUME NEW i \in 1 .. n PROVE SubSeq(longer, 1, i - 1) = SubSeq(q, 1, i - 1)
  <2>1. longer \in Seq(T) /\ Len(longer) = n + 1 /\ n \in Nat /\ \A k \in 1 .. n : longer[k] = q[k]
    BY <1>1 DEF longer
  <2> DEFINE a == SubSeq(longer, 1, i - 1)
             b == SubSeq(q, 1, i - 1)
  <2>2. a \in Seq(T) /\ Len(a) = i - 1 /\ \A k \in 1 .. i - 1 : a[k] = longer[k]
    BY <2>1
  <2>3. b \in Seq(T) /\ Len(b) = i - 1 /\ \A k \in 1 .. i - 1 : b[k] = q[k]
    BY <2>1
  <2> HIDE DEF a, b, n
  <2>4. \A k \in 1 .. i - 1 : k \in 1 .. n
    BY <2>1
  <2>5. \A k \in 1 .. i - 1 : a[k] = b[k]
    BY <2>1, <2>2, <2>3, <2>4, Zenon
  <2>6. a = b
    BY <2>2, <2>3, <2>5
  <2> QED
    BY <2>6 DEF a, b
<1>3. SubSeq(longer, 1, n) = q
  <2>1. longer \in Seq(T) /\ Len(longer) = n + 1 /\ n \in Nat /\ \A k \in 1 .. n : longer[k] = q[k]
    BY <1>1 DEF longer
  <2> DEFINE a == SubSeq(longer, 1, n)
  <2>2. a \in Seq(T) /\ Len(a) = n /\ \A k \in 1 .. n : a[k] = longer[k]
    BY <2>1
  <2> HIDE DEF a
  <2>3. a = q
    BY <2>1, <2>2
  <2> QED
    BY <2>3 DEF a
<1> QED
  BY <1>2, <1>3 DEF longer

LEMMA ShowsMore ==
  ASSUME NEW segs \in Seq(Segments), NEW seg \in Segments, NEW room \in Nat, NEW left \in Nat,
         NEW q \in Seq(Shown), Shows(q, segs, room), TitleBytes(q) + left = room
  PROVE  Shows(Append(q, SeenAs(seg, left)), Append(segs, seg), room)
<1> DEFINE x == SeenAs(seg, left)
           longer == Append(q, x)
           more == Append(segs, seg)
           n == Len(segs)
<1>1. x \in Shown
  BY SeenAsLaw
<1>2. n \in Nat /\ Len(q) = n
      /\ \A i \in 1 .. n : \E m \in Nat : /\ m + TitleBytes(SubSeq(q, 1, i - 1)) = room
                                          /\ q[i] = SeenAs(segs[i], m)
  BY DEF Shows
<1>3. /\ Len(more) = n + 1 /\ more[n + 1] = seg
      /\ \A i \in 1 .. n : more[i] = segs[i]
  OBVIOUS
<1> HIDE DEF x, more, n
<1>4. /\ longer \in Seq(Shown) /\ Len(longer) = n + 1 /\ longer[n + 1] = x
      /\ \A i \in 1 .. n : longer[i] = q[i]
  BY <1>1, <1>2
<1>5. /\ \A i \in 1 .. n : SubSeq(longer, 1, i - 1) = SubSeq(q, 1, i - 1)
      /\ SubSeq(longer, 1, n) = q
  BY <1>1, <1>2, BeginningsStay
<1> HIDE DEF longer
<1>6. ASSUME NEW i \in 1 .. n + 1
      PROVE  \E m \in Nat : /\ m + TitleBytes(SubSeq(longer, 1, i - 1)) = room
                            /\ longer[i] = SeenAs(more[i], m)
  <2>1. CASE i \in 1 .. n
    BY <1>2, <1>3, <1>4, <1>5, <2>1, Zenon
  <2>2. CASE i = n + 1
    <3>1. i - 1 = n
      BY <1>2, <2>2
    <3>2. TitleBytes(SubSeq(longer, 1, i - 1)) = TitleBytes(q)
      BY <1>5, <3>1, Zenon
    <3>3. TitleBytes(q) \in Nat
      BY TitleBytesLaw
    <3>4. left + TitleBytes(q) = room
      BY <3>3
    <3>5. longer[i] = SeenAs(more[i], left)
      BY <1>3, <1>4, <2>2, Zenon DEF x
    <3> QED
      BY <3>2, <3>4, <3>5, Zenon
  <2> QED
    BY <1>2, <2>1, <2>2
<1>7. Len(longer) = Len(more) /\ Len(more) = n + 1
  BY <1>3, <1>4, Zenon
<1>8. Shows(longer, more, room)
  BY <1>4, <1>6, <1>7, Zenon DEF Shows
<1> QED
  BY <1>8 DEF longer, more, x

Associative(r, s, t) == (r \o s) \o t = r \o (s \o t) /\ r \o s \in Seq(Byte)

LEMMA AssociativeLaw ==
  ASSUME NEW r \in Seq(Byte), NEW s \in Seq(Byte), NEW t \in Seq(Byte)
  PROVE  Associative(r, s, t)
BY ConcatLaw DEF Associative

LEMMA BytesAssociate ==
  \A r, s, t \in Seq(Byte) :
    /\ (r \o s) \o t = r \o (s \o t)
    /\ r \o s \in Seq(Byte)
    /\ Len(r \o s) = Len(r) + Len(s) /\ Len(r) \in Nat /\ Len(s) \in Nat
BY ConcatLaw

(* The reader goes over the whole extension of segs and shows q.           *)
ReadsTo(head, room, segs, rest, q) ==
  Read((head \o Extended(room, segs).bytes) \o rest, Len(head), Plains(segs))
    = [at |-> Len(head) + Len(Extended(room, segs).bytes), ended |-> FALSE, segments |-> q]

LEMMA ReadsMore ==
  ASSUME NEW head \in Seq(Byte), NEW room \in Nat, NEW segs \in Seq(Segments),
         NEW seg \in Segments, NEW rest \in Seq(Byte), NEW q \in Seq(Shown),
         LET left == Extended(room, segs).budget
         IN  ReadsTo(head, room, segs, Extension(seg, Written(seg, left)) \o rest, q)
  PROVE  ReadsTo(head, room, Append(segs, seg), rest,
                 Append(q, SeenAs(seg, Extended(room, segs).budget)))
<1> DEFINE ext == Extended(room, segs)
           old == ext.bytes
           left == ext.budget
           title == Written(seg, left)
           piece == Extension(seg, title)
           more == Append(segs, seg)
           front == head \o old
           bytes == (head \o (old \o piece)) \o rest
           list == Plains(segs)
           plain == Plain(seg)
           f == Len(front)
           was == [at |-> f, ended |-> FALSE, segments |-> q]
<1>1. old \in Seq(Byte) /\ left \in Nat
  BY ExtendedLaw DEF Extensions
<1>2. title \in Seq(Byte) /\ Len(title) \in Byte /\ piece \in Seq(Byte)
  BY <1>1, WrittenLaw
<1>3. Extended(room, more) = [budget |-> left - Len(title), bytes |-> old \o piece]
  BY ExtendedLaw
<1>4. Extended(room, more).bytes = old \o piece
  <2> DEFINE n == left - Len(title)
             w == old \o piece
             e == Extended(room, more)
  <2>1. e = [budget |-> n, bytes |-> w]
    BY <1>3, Zenon
  <2> HIDE DEF n, w, e
  <2>2. e.bytes = w
    BY <2>1
  <2> QED
    BY <2>2, Zenon DEF e, w
<1>5. /\ Plains(more) = Append(list, plain) /\ list \in Seq(Shown) /\ plain \in Shown
  BY PlainsLaw, PlainLaw
<1>6. /\ front \in Seq(Byte) /\ f = Len(head) + Len(old) /\ f \in Nat
  BY <1>1, BytesAssociate, Zenon
<1>7. /\ bytes = front \o (piece \o rest)
      /\ bytes = (front \o piece) \o rest
      /\ bytes \in Seq(Byte)
  <2> HIDE DEF old, piece, title
  <2>1. head \o (old \o piece) = (head \o old) \o piece
    BY <1>1, <1>2, BytesAssociate, Zenon
  <2>2. bytes = (front \o piece) \o rest
    BY <2>1, Zenon
  <2> HIDE DEF front, bytes
  <2>3. (front \o piece) \o rest = front \o (piece \o rest) /\ front \o piece \in Seq(Byte)
    <3>1. Associative(front, piece, rest)
      <4>1. front \in Seq(Byte) /\ piece \in Seq(Byte) /\ rest \in Seq(Byte)
        BY <1>2, <1>6
      <4> QED
        BY <4>1, AssociativeLaw
    <3> QED
      BY <3>1, Zenon DEF Associative
  <2>4. (front \o piece) \o rest \in Seq(Byte)
    BY <2>3, BytesAssociate, Zenon
  <2> QED
    BY <2>2, <2>3, <2>4, Zenon
<1>8. piece = <<seg.harness, Len(title)>> \o title
  BY DEF Extension
<1>9. Read(bytes, Len(head), list) = was
  <2>1. Read(front \o (piece \o rest), Len(head), list)
          = [at |-> Len(head) + Len(old), ended |-> FALSE, segments |-> q]
    BY Zenon DEF ReadsTo
  <2> HIDE DEF front, bytes, old, piece, list, f
  <2> QED
    BY <1>6, <1>7, <2>1, Zenon
<1>10. ReadExtension(bytes)[plain][was]
         = [at |-> f + Len(piece), ended |-> FALSE,
            segments |-> Append(q, [plain EXCEPT !.harness = seg.harness, !.title = title])]
  <2>1. seg.harness \in Byte
    BY DEF Segments
  <2> DEFINE harness == seg.harness
  <2>2. harness \in Byte
    BY <2>1
  <2> HIDE DEF harness, title, front, plain
  <2> DEFINE p == <<harness, Len(title)>> \o title
             b == (front \o p) \o rest
  <2>3. ReadExtension(b)[plain][[at |-> Len(front), ended |-> FALSE, segments |-> q]]
          = [at |-> Len(front) + Len(p), ended |-> FALSE,
             segments |-> Append(q, [plain EXCEPT !.harness = harness, !.title = title])]
    <3> HIDE DEF piece, bytes, f, was, list
    <3>1. front \in Seq(Byte) /\ title \in Seq(Byte) /\ Len(title) \in Byte /\ plain \in Shown
      BY <1>2, <1>5, <1>6, Zenon
    <3>2. TakesUp(front, title, harness, rest, plain, q)
      BY <2>2, <3>1, ReadsOne
    <3> QED
      BY <3>2, Zenon DEF TakesUp
  <2> HIDE DEF p
  <2>4. p = piece
    BY <1>8, Zenon DEF p, harness
  <2> HIDE DEF piece, bytes
  <2>5. b = bytes
    BY <1>7, <2>4, Zenon
  <2> HIDE DEF b
  <2> QED
    BY <2>3, <2>4, <2>5, Zenon DEF harness
<1>11. Read(bytes, Len(head), Append(list, plain)) = ReadExtension(bytes)[plain][was]
  <2>1. Len(head) \in Nat
    OBVIOUS
  <2> DEFINE at == Len(head)
  <2>2. at \in Nat /\ bytes \in Seq(Byte) /\ list \in Seq(Shown) /\ plain \in Shown
    BY <1>5, <1>7, <2>1, Zenon
  <2>3. Read(bytes, at, list) = was
    BY <1>9, Zenon
  <2> HIDE DEF bytes, list, plain, was, at
  <2>4. Read(bytes, at, Append(list, plain)) = ReadExtension(bytes)[plain][Read(bytes, at, list)]
    BY <2>2, ReadLaw
  <2>5. Read(bytes, at, Append(list, plain)) = ReadExtension(bytes)[plain][was]
    BY <2>3, <2>4, Zenon
  <2> QED
    BY <2>5, Zenon DEF at
<1>12. f + Len(piece) = Len(head) + Len(old \o piece)
  <2>1. Len(old \o piece) = Len(old) + Len(piece) /\ Len(old) \in Nat /\ Len(piece) \in Nat
    BY <1>1, <1>2, BytesAssociate, Zenon
  <2>2. Len(head) \in Nat
    OBVIOUS
  <2> DEFINE a == Len(head)
             b == Len(old)
             c == Len(piece)
             d == Len(old \o piece)
  <2>3. a \in Nat /\ b \in Nat /\ c \in Nat /\ d = b + c /\ f = a + b
    BY <1>6, <2>1, <2>2, Zenon
  <2> HIDE DEF a, b, c, d, f
  <2>4. f + c = a + d
    BY <2>3
  <2> QED
    BY <2>4 DEF a, c, d
<1>13. [plain EXCEPT !.harness = seg.harness, !.title = title] = SeenAs(seg, left)
  BY DEF SeenAs
<1>14. Read(bytes, Len(head), Plains(more))
         = [at |-> Len(head) + Len(old \o piece), ended |-> FALSE,
            segments |-> Append(q, SeenAs(seg, left))]
  <2> DEFINE seen == [plain EXCEPT !.harness = seg.harness, !.title = title]
             s2 == SeenAs(seg, left)
  <2>1. seen = s2
    BY <1>13, Zenon
  <2> HIDE DEF seen, s2, bytes, list, plain, was, f, piece, old, more
  <2>2. ReadExtension(bytes)[plain][was]
         = [at |-> f + Len(piece), ended |-> FALSE, segments |-> Append(q, seen)]
    BY <1>10, Zenon DEF seen
  <2>3. Read(bytes, Len(head), Plains(more))
         = [at |-> Len(head) + Len(old \o piece), ended |-> FALSE, segments |-> Append(q, s2)]
    BY <1>5, <1>11, <1>12, <2>1, <2>2, Zenon
  <2> QED
    BY <2>3, Zenon DEF s2
<1> DEFINE now == Extended(room, more).bytes
<1>15. now = old \o piece
  BY <1>4
<1> HIDE DEF old, piece, more, left, title
<1>16. Read((head \o now) \o rest, Len(head), Plains(more))
         = [at |-> Len(head) + Len(now), ended |-> FALSE,
            segments |-> Append(q, SeenAs(seg, left))]
  <2> HIDE DEF now
  <2> QED
    BY <1>14, <1>15, Zenon
<1> QED
  BY <1>16, Zenon DEF ReadsTo, more, left, ext

(* What was written is read back, whatever is in front of it and behind.   *)
LEMMA ReadsBack ==
  ASSUME NEW head \in Seq(Byte), NEW room \in Nat, NEW segs \in Seq(Segments),
         NEW rest \in Seq(Byte)
  PROVE  \E q \in Seq(Shown) : Shows(q, segs, room) /\ ReadsTo(head, room, segs, rest, q)
<1> DEFINE Back(s, r, q) == /\ Shows(q, s, room)
                            /\ TitleBytes(q) + Extended(room, s).budget = room
                            /\ ReadsTo(head, room, s, r, q)
           P == {s \in Seq(Segments) : \A r \in Seq(Byte) : \E q \in Seq(Shown) : Back(s, r, q)}
<1>1. <<>> \in P
  <2>1. <<>> \in Seq(Segments) /\ <<>> \in Seq(Shown) /\ <<>> \in Seq(Byte)
    OBVIOUS
  <2>2. Extended(room, <<>>) = [budget |-> room, bytes |-> <<>>]
    BY <2>1, ExtendedLaw
  <2>3. Extended(room, <<>>).budget = room /\ Extended(room, <<>>).bytes = <<>>
    BY <2>2
  <2>4. Plains(<<>>) = <<>>
    BY <2>1, PlainsLaw
  <2>5. Shows(<<>>, <<>>, room)
    <3>1. Len(<<>>) = 0
      OBVIOUS
    <3> QED
      BY <2>1, <3>1 DEF Shows
  <2>6. TitleBytes(<<>>) = 0
    BY <2>1, TitleBytesLaw
  <2>7. TitleBytes(<<>>) + Extended(room, <<>>).budget = room
    BY <2>3, <2>6
  <2>8. ASSUME NEW r \in Seq(Byte) PROVE ReadsTo(head, room, <<>>, r, <<>>)
    <3> DEFINE front == head \o <<>>
               bytes == front \o r
               at == Len(head)
    <3>1. front \in Seq(Byte) /\ at \in Nat
      OBVIOUS
    <3>2. bytes \in Seq(Byte)
      <4> HIDE DEF front
      <4> QED
        BY <3>1
    <3>3. at + Len(<<>>) = at
      BY <3>1
    <3> HIDE DEF bytes, front, at
    <3>4. Read(bytes, at, <<>>) = [at |-> at, ended |-> FALSE, segments |-> <<>>]
      BY <2>1, <3>1, <3>2, ReadLaw
    <3>5. Read(bytes, at, Plains(<<>>))
            = [at |-> at + Len(Extended(room, <<>>).bytes), ended |-> FALSE, segments |-> <<>>]
      BY <2>3, <2>4, <3>3, <3>4, Zenon
    <3>6. bytes = (head \o Extended(room, <<>>).bytes) \o r
      BY <2>3, Zenon DEF bytes, front
    <3> QED
      BY <3>5, <3>6, Zenon DEF ReadsTo, at
  <2> QED
    BY <2>1, <2>5, <2>7, <2>8
<1>2. ASSUME NEW s \in Seq(Segments), NEW seg \in Segments, s \in P PROVE Append(s, seg) \in P
  <2> SUFFICES ASSUME NEW r \in Seq(Byte) PROVE \E q \in Seq(Shown) : Back(Append(s, seg), r, q)
    <3> HIDE DEF Back
    <3>1. Append(s, seg) \in Seq(Segments)
      OBVIOUS
    <3> QED
      BY <3>1
  <2> DEFINE ext == Extended(room, s)
             left == ext.budget
             title == Written(seg, left)
             piece == Extension(seg, title)
             x == SeenAs(seg, left)
             more == Append(s, seg)
  <2>1. left \in Nat /\ ext.bytes \in Seq(Byte)
    BY ExtendedLaw DEF Extensions
  <2>2. title \in Seq(Byte) /\ Len(title) <= left /\ Len(title) \in Byte /\ piece \in Seq(Byte)
    BY <2>1, WrittenLaw
  <2>3. piece \o r \in Seq(Byte)
    <3> HIDE DEF piece
    <3> QED
      BY <2>2
  <2>4. PICK q \in Seq(Shown) : Back(s, piece \o r, q)
    <3>1. \A t \in Seq(Byte) : \E q \in Seq(Shown) : Back(s, t, q)
      BY <1>2
    <3> HIDE DEF Back, piece
    <3> QED
      BY <2>3, <3>1, Zenon
  <2>5. Shows(q, s, room) /\ TitleBytes(q) + left = room /\ ReadsTo(head, room, s, piece \o r, q)
    BY <2>4, Zenon
  <2>6. x \in Shown /\ x.title = title
    BY <2>1, SeenAsLaw
  <2>7. Shows(Append(q, x), more, room)
    <3> HIDE DEF left, piece, title
    <3> QED
      BY <2>1, <2>5, ShowsMore
  <2>8. ReadsTo(head, room, more, r, Append(q, x))
    <3>1. ReadsTo(head, room, s, piece \o r, q)
      BY <2>5
    <3> QED
      BY <3>1, ReadsMore
  <2>9. Extended(room, more) = [budget |-> left - Len(title), bytes |-> ext.bytes \o piece]
    BY ExtendedLaw
  <2>10. Extended(room, more).budget = left - Len(title)
    <3> DEFINE m == left - Len(title)
               w == ext.bytes \o piece
               e == Extended(room, more)
    <3>1. e = [budget |-> m, bytes |-> w]
      BY <2>9, Zenon
    <3> HIDE DEF m, w, e
    <3>2. e.budget = m
      BY <3>1
    <3> QED
      BY <3>2, Zenon DEF e, m
  <2>11. TitleBytes(Append(q, x)) + Extended(room, more).budget = room
    <3>1. TitleBytes(Append(q, x)) = TitleBytes(q) + Len(x.title) /\ TitleBytes(q) \in Nat
      BY <2>6, TitleBytesLaw
    <3> DEFINE a == TitleBytes(q)
               b == Len(title)
               c == TitleBytes(Append(q, x))
               d == Extended(room, more).budget
    <3>2. a \in Nat /\ b \in Nat /\ left \in Nat /\ b <= left /\ c = a + b /\ d = left - b /\ a + left = room
      <4>1. b \in Nat
        BY <2>2, ByteIsNat, Zenon
      <4> QED
        BY <2>1, <2>2, <2>5, <2>6, <2>10, <3>1, <4>1, Zenon
    <3> HIDE DEF a, b, c, d, left
    <3>3. c + d = room
      BY <3>2
    <3> QED
      BY <3>3, Zenon DEF c, d
  <2>12. Append(q, x) \in Seq(Shown)
    <3> HIDE DEF x
    <3> QED
      BY <2>6
  <2> QED
    BY <2>7, <2>8, <2>11, <2>12, Zenon
<1> HIDE DEF P
<1>3. Seq(Segments) \subseteq P
  BY <1>1, <1>2, ListInduction
<1>4. segs \in P
  BY <1>3
<1> QED
  BY <1>4, Zenon DEF P

(***************************************************************************)
(* A packet                                                                *)
(***************************************************************************)

(* What is found at its places in a packet.                                *)
Packed(sent, payload, crc) ==
  /\ sent \in Seq(Byte) /\ Len(sent) = 3 + Len(payload)
  /\ sent[1] = FRAME_SOF /\ sent[2] = Len(payload)
  /\ SubSeq(sent, 3, 2 + Len(payload)) = payload
  /\ \A i \in 1 .. Len(payload) : sent[2 + i] = payload[i]
  /\ sent[3 + Len(payload)] = crc

LEMMA SameList ==
  ASSUME NEW T, NEW s \in Seq(T), NEW t \in Seq(T), Len(s) = Len(t),
         \A i \in 1 .. Len(s) : s[i] = t[i]
  PROVE  s = t
OBVIOUS

LEMMA PartIsWhole ==
  ASSUME NEW T, NEW s \in Seq(T), NEW a \in Nat, NEW t \in Seq(T), NEW l \in Nat, l = Len(t),
         a + l <= Len(s), \A i \in 1 .. l : s[a + i] = t[i]
  PROVE  SubSeq(s, a + 1, a + l) = t
<1> DEFINE part == SubSeq(s, a + 1, a + l)
<1>1. part \in Seq(T)
  OBVIOUS
<1>2. Len(part) = l
  OBVIOUS
<1>3. \A i \in 1 .. l : part[i] = s[a + i]
  OBVIOUS
<1> HIDE DEF part
<1>4. part = t
  <2>1. Len(part) = Len(t)
    BY <1>2, Zenon
  <2>2. \A i \in 1 .. Len(part) : part[i] = t[i]
    BY <1>2, <1>3, Zenon
  <2> QED
    BY <1>1, <2>1, <2>2, SameList
<1> QED
  BY <1>4 DEF part

LEMMA PackedLaw ==
  ASSUME NEW payload \in Seq(Byte), Len(payload) \in 4 .. 255, NEW crc \in Byte
  PROVE  Packed(<<FRAME_SOF, Len(payload) % 256>> \o payload \o <<crc>>, payload, crc)
<1> DEFINE l == Len(payload)
           front == <<FRAME_SOF, Len(payload) % 256>>
           back == <<crc>>
           most == front \o payload
           bytes == most \o back
           f == Len(front)
           m == Len(most)
           w == Len(bytes)
           b == Len(back)
<1>1. l \in 4 .. 255 /\ l % 256 = l /\ l \in Byte /\ FRAME_SOF \in Byte
  <2>1. l \in 4 .. 255
    OBVIOUS
  <2> HIDE DEF l
  <2> QED
    BY <2>1 DEF Byte, FRAME_SOF
<1>2. front = <<FRAME_SOF, l>>
  BY <1>1
<1> HIDE DEF front
<1>3. front \in Seq(Byte) /\ f = 2 /\ front[1] = FRAME_SOF /\ front[2] = l
  <2> HIDE DEF l
  <2> QED
    BY <1>1, <1>2
<1>4. back \in Seq(Byte) /\ b = 1 /\ back[1] = crc
  OBVIOUS
<1>5. most = front \o payload /\ bytes = most \o back
  OBVIOUS
<1>6. front \in Seq(Byte) /\ back \in Seq(Byte)
  BY <1>3, <1>4
<1> HIDE DEF most, bytes, back
<1>7. /\ most \in Seq(Byte) /\ f \in Nat /\ m = f + l
      /\ \A i \in 1 .. f : most[i] = front[i]
      /\ \A i \in 1 .. l : most[f + i] = payload[i]
  BY <1>5, <1>6, BytesConcat
<1>8. /\ bytes \in Seq(Byte) /\ m \in Nat /\ w \in Nat /\ w = m + b
      /\ \A i \in 1 .. m : bytes[i] = most[i]
      /\ \A i \in 1 .. b : bytes[m + i] = back[i]
  BY <1>5, <1>6, <1>7, BytesConcat
<1> HIDE DEF f, m, w, b
<1>8a. payload \in Seq(Byte) /\ Len(payload) = l /\ Len(bytes) = w
  BY DEF w
<1> HIDE DEF l
<1>9. f = 2 /\ b = 1 /\ m = 2 + l /\ w = 3 + l /\ l \in Nat
  BY <1>1, <1>3, <1>4, <1>7, <1>8
<1>10. bytes[1] = FRAME_SOF /\ bytes[2] = l
  <2>1. 1 \in 1 .. f /\ 2 \in 1 .. f /\ 1 \in 1 .. m /\ 2 \in 1 .. m
    BY <1>9
  <2> QED
    <3>1. bytes[1] = most[1] /\ bytes[2] = most[2]
      BY <1>8, <2>1, Zenon
    <3>2. most[1] = front[1] /\ most[2] = front[2]
      BY <1>7, <2>1, Zenon
    <3> QED
      BY <1>3, <3>1, <3>2, Zenon
<1>11. ASSUME NEW i \in 1 .. l PROVE bytes[2 + i] = payload[i]
  <2>1. 2 + i \in 1 .. m /\ 2 + i = f + i
    BY <1>9
  <2> QED
    BY <1>7, <1>8, <2>1, Zenon
<1>12. bytes[3 + l] = crc
  <2>1. 1 \in 1 .. b /\ 3 + l = m + 1
    BY <1>9
  <2> QED
    BY <1>4, <1>8, <2>1, Zenon
<1>13. SubSeq(bytes, 3, 2 + l) = payload
  <2>1. 2 + l <= w /\ 2 \in Nat /\ l \in Nat /\ 2 + 1 = 3
    BY <1>9
  <2>2. 2 + l <= Len(bytes)
    BY <1>8a, <2>1, Zenon
  <2>3. SubSeq(bytes, 2 + 1, 2 + l) = payload
    <3>1. bytes \in Seq(Byte) /\ payload \in Seq(Byte) /\ l = Len(payload)
      BY <1>8, <1>8a
    <3> QED
      BY <1>11, <2>1, <2>2, <3>1, PartIsWhole
  <2> QED
    BY <2>1, <2>3
<1>14. Packed(bytes, payload, crc)
  BY <1>8, <1>8a, <1>9, <1>10, <1>11, <1>12, <1>13, Zenon DEF Packed
<1> QED
  BY <1>14 DEF bytes, most, front, back

(* A snapshot fits, and is encoded whole.                                  *)
LEMMA EncodeLaw ==
  ASSUME NEW segs \in Rings, NEW number \in Nat
  PROVE  LET payload == Payload(segs, number) IN
         /\ segs \in Seq(Segments) /\ Len(segs) <= MAX_SEGS /\ Len(segs) \in Nat
         /\ payload \in Seq(Byte) /\ Len(payload) \in 4 .. 255 /\ Crc8(payload) \in Byte
         /\ Packed(EncodeFrame(segs, number), payload, Crc8(payload))
<1> DEFINE payload == Payload(segs, number)
           n == Len(segs)
<1>1. segs \in Seq(Segments) /\ n <= MAX_SEGS /\ n \in Nat /\ MAX_SEGS \in Nat
  BY CodecAssumption
<1>2. payload \in Seq(Byte) /\ Len(payload) \in 4 .. 255
  BY <1>1, PayloadLaw
<1>3. Crc8(payload) \in Byte
  BY <1>2, CrcLaw
<1>4. SubSeq(segs, 1, AtMost(n, MAX_SEGS)) = segs
  <2>1. AtMost(n, MAX_SEGS) = n
    <3> HIDE DEF n
    <3> QED
      BY <1>1 DEF AtMost
  <2>2. SubSeq(segs, 1, n) = segs
    <3>1. segs \in Seq(Segments)
      BY <1>1
    <3> QED
      BY <3>1
  <2> QED
    BY <2>1, <2>2, Zenon
<1>5. EncodeFrame(segs, number)
        = <<FRAME_SOF, Len(payload) % 256>> \o payload \o <<Crc8(payload)>>
  BY <1>4, Zenon DEF EncodeFrame
<1> HIDE DEF payload, n
<1>6. Packed(<<FRAME_SOF, Len(payload) % 256>> \o payload \o <<Crc8(payload)>>,
             payload, Crc8(payload))
  BY <1>2, <1>3, PackedLaw
<1>7. Packed(EncodeFrame(segs, number), payload, Crc8(payload))
  BY <1>5, <1>6, Zenon
<1> QED
  BY <1>1, <1>2, <1>3, <1>7 DEF payload, n

(***************************************************************************)
(* A frame                                                                 *)
(***************************************************************************)

(* A payload without an extension ends the reading at once.                *)
LEMMA ReadsNothing ==
  ASSUME NEW bytes \in Seq(Byte), NEW list \in Seq(Shown)
  PROVE  Read(bytes, Len(bytes), list).segments = list
<1> DEFINE at == Len(bytes)
           R(s) == Read(bytes, at, s)
           P == {s \in Seq(Shown) : R(s).segments = s /\ R(s).at = at}
<1>0. at \in Nat
  OBVIOUS
<1>1. <<>> \in P
  <2>1. <<>> \in Seq(Shown)
    OBVIOUS
  <2>2. R(<<>>) = [at |-> at, ended |-> FALSE, segments |-> <<>>]
    BY <1>0, <2>1, ReadLaw
  <2> HIDE DEF at, R
  <2>3. R(<<>>).segments = <<>> /\ R(<<>>).at = at
    BY <2>2
  <2> QED
    BY <2>1, <2>3
<1>2. ASSUME NEW s \in Seq(Shown), NEW x \in Shown, s \in P PROVE Append(s, x) \in P
  <2>1. R(Append(s, x)) = ReadExtension(bytes)[x][R(s)] /\ R(s) \in Readers
    BY <1>0, ReadLaw
  <2>2. R(s).segments = s /\ R(s).at = at
    BY <1>2
  <2> DEFINE r == R(s)
             longer == Append(s, x)
  <2>3. r \in Readers /\ r.segments = s /\ r.at = at /\ R(longer) = ReadExtension(bytes)[x][r]
    BY <2>1, <2>2
  <2>4. ~(at + 2 <= at)
    BY <1>0
  <2> HIDE DEF r, R
  <2>5. ReadExtension(bytes)[x][r] = [r EXCEPT !.ended = TRUE, !.segments = Append(@, x)]
    BY <2>3, <2>4 DEF ReadExtension
  <2> HIDE DEF at
  <2>6. R(longer).segments = longer /\ R(longer).at = at
    BY <2>3, <2>5 DEF Readers
  <2>7. longer \in Seq(Shown)
    OBVIOUS
  <2> QED
    BY <2>6, <2>7
<1> HIDE DEF P
<1>3. Seq(Shown) \subseteq P
  BY <1>1, <1>2, ListInduction
<1>4. list \in P
  BY <1>3
<1> QED
  BY <1>4 DEF P

(* Segments without a harness and a title are shown as they are.           *)
LEMMA NoTitleBytes ==
  ASSUME NEW q \in Seq(Shown), \A i \in 1 .. Len(q) : q[i].title = <<>>
  PROVE  TitleBytes(q) = 0
<1> DEFINE Bare(s) == \A i \in 1 .. Len(s) : s[i].title = <<>>
           P == {s \in Seq(Shown) : Bare(s) => TitleBytes(s) = 0}
<1>1. <<>> \in P
  <2>1. <<>> \in Seq(Shown)
    OBVIOUS
  <2>2. TitleBytes(<<>>) = 0
    BY <2>1, TitleBytesLaw
  <2> QED
    BY <2>1, <2>2
<1>2. ASSUME NEW s \in Seq(Shown), NEW x \in Shown, s \in P PROVE Append(s, x) \in P
  <2>0. Append(s, x) \in Seq(Shown)
    OBVIOUS
  <2> SUFFICES ASSUME Bare(Append(s, x)) PROVE TitleBytes(Append(s, x)) = 0
    BY <2>0
  <2>1. x.title = <<>> /\ Bare(s)
    <3> DEFINE longer == Append(s, x)
               n == Len(s)
    <3>1. n \in Nat /\ Len(longer) = n + 1 /\ longer[n + 1] = x
          /\ \A i \in 1 .. n : longer[i] = s[i]
      OBVIOUS
    <3>2. \A i \in 1 .. Len(longer) : longer[i].title = <<>>
      OBVIOUS
    <3> HIDE DEF longer, n
    <3>3. n + 1 \in 1 .. Len(longer) /\ \A i \in 1 .. n : i \in 1 .. Len(longer)
      BY <3>1
    <3>4. x.title = <<>> /\ \A i \in 1 .. n : s[i].title = <<>>
      BY <3>1, <3>2, <3>3, Zenon
    <3> QED
      BY <3>4 DEF n
  <2>2. TitleBytes(s) = 0
    BY <1>2, <2>1
  <2>3. TitleBytes(Append(s, x)) = TitleBytes(s) + Len(x.title)
    BY TitleBytesLaw
  <2>4. Len(x.title) = 0
    BY <2>1
  <2> QED
    BY <2>2, <2>3, <2>4
<1> HIDE DEF P
<1>3. Seq(Shown) \subseteq P
  BY <1>1, <1>2, ListInduction
<1>4. q \in P
  BY <1>3
<1> QED
  BY <1>4 DEF P

LEMMA ShowsPlain ==
  ASSUME NEW segs \in Seq(Segments), NEW room \in Nat,
         \A i \in 1 .. Len(segs) : segs[i].harness = 0 /\ segs[i].title = <<>>
  PROVE  Shows(Plains(segs), segs, room)
<1> DEFINE q == Plains(segs)
           n == Len(segs)
<1>1. q \in Seq(Shown) /\ Len(q) = n /\ \A i \in 1 .. n : q[i] = Plain(segs[i])
  BY PlainsLaw
<1>1a. n \in Nat
  OBVIOUS
<1>2. ASSUME NEW i \in 1 .. n PROVE Plain(segs[i]) = SeenAs(segs[i], room)
  <2> DEFINE seg == segs[i]
  <2>1. seg \in Segments /\ seg.harness = 0 /\ seg.title = <<>>
    OBVIOUS
  <2> HIDE DEF seg, n
  <2>2. Cut(seg) = <<>>
    <3>1. <<>> \in Seq(1 .. 4) /\ 1 \in 1 .. 4
      OBVIOUS
    <3>2. Begun(<<>>) = {<<>>}
      BY <3>1, BegunLaw
    <3>3. TruncateUtf8(Utf8(<<>>)) \in Begun(<<>>)
      BY <3>1, CutLaw
    <3>4. Cut(seg) = TruncateUtf8(Utf8(<<>>))
      BY <2>1, Zenon DEF Cut
    <3> QED
      BY <3>2, <3>3, <3>4
  <2>3. Written(seg, room) = <<>>
    BY <2>2 DEF Written
  <2>4. Plain(seg) = [Plain(seg) EXCEPT !.harness = 0, !.title = <<>>]
    <3> DEFINE p == Plain(seg)
    <3>1. p \in Shown /\ p.harness = 0 /\ p.title = <<>>
      BY <2>1, PlainLaw DEF Plain
    <3> DEFINE r == [p EXCEPT !.harness = 0, !.title = <<>>]
    <3> HIDE DEF p
    <3>2. r \in Shown /\ r.state = p.state /\ r.hue = p.hue /\ r.anim = p.anim
          /\ r.harness = p.harness /\ r.title = p.title
      BY <3>1 DEF Shown
    <3> HIDE DEF r
    <3>3. p = r
      BY <3>1, <3>2 DEF Shown
    <3> QED
      BY <3>3, Zenon DEF p, r
  <2>5. Plain(seg) = SeenAs(seg, room)
    BY <2>1, <2>3, <2>4, Zenon DEF SeenAs
  <2> QED
    BY <2>5 DEF seg
<1>3. ASSUME NEW i \in 1 .. n PROVE room + TitleBytes(SubSeq(q, 1, i - 1)) = room
  <2> DEFINE s == SubSeq(q, 1, i - 1)
  <2> HIDE DEF q, n
  <2>1. s \in Seq(Shown) /\ Len(s) = i - 1 /\ \A k \in 1 .. i - 1 : s[k] = q[k]
    BY <1>1, <1>1a
  <2>2. \A k \in 1 .. i - 1 : k \in 1 .. n
    BY <1>1a
  <2>3. \A k \in 1 .. n : q[k].title = <<>>
    BY <1>1 DEF Plain
  <2> HIDE DEF s
  <2>4. \A k \in 1 .. Len(s) : s[k].title = <<>>
    BY <2>1, <2>2, <2>3, Zenon
  <2>5. TitleBytes(s) = 0
    BY <2>1, <2>4, NoTitleBytes
  <2> QED
    BY <2>5 DEF s
<1> HIDE DEF q
<1>4. \A i \in 1 .. n : \E left \in Nat : /\ left + TitleBytes(SubSeq(q, 1, i - 1)) = room
                                         /\ q[i] = SeenAs(segs[i], left)
  <2> HIDE DEF n
  <2> QED
    BY <1>1, <1>2, <1>3, Zenon
<1>5. Shows(q, segs, room)
  BY <1>1, <1>4, Zenon DEF Shows
<1> QED
  BY <1>5 DEF q

StartsWith(s, whole) == Len(whole) >= Len(s) /\ \A k \in 1 .. Len(s) : whole[k] = s[k]

LEMMA StartsWithLaw ==
  ASSUME NEW s \in Seq(Byte), NEW t \in Seq(Byte)
  PROVE  StartsWith(s, s \o t)
BY DEF StartsWith

(* The reading of a payload, with or without an extension.                 *)
LEMMA ReadPayload ==
  ASSUME NEW segs \in Rings, NEW number \in Nat
  PROVE  LET payload == Payload(segs, number) IN
         /\ payload[1] = FRAME_MAGIC /\ payload[2] = number % 256
         /\ payload[3] = Len(segs) /\ payload[4] = BRIGHTNESS
         /\ ~Unframed(payload)
         /\ \E q : /\ Shows(q, segs, Room(Len(segs)))
                   /\ Read(payload, 4 + 4 * Len(segs), ReadBase(payload)).segments = q
<1> DEFINE payload == Payload(segs, number)
           n == Len(segs)
           base == Base(segs, number)
           b == Len(base)
           room == Room(n)
           ext == Extended(room, segs).bytes
           list == Plains(segs)
<1>1. segs \in Seq(Segments) /\ n <= MAX_SEGS /\ n \in Nat /\ payload \in Seq(Byte)
  BY EncodeLaw
<1>2. base \in Seq(Byte) /\ b = 4 + 4 * n
  BY <1>1, BaseLaw
<1>3. room \in Nat
      /\ payload = IF \E i \in 1 .. n : segs[i].harness # 0 \/ segs[i].title # <<>>
                     THEN base \o ext ELSE base
  BY <1>1, PayloadLaw
<1>4. ext \in Seq(Byte)
  BY <1>1, <1>3, ExtendedLaw DEF Extensions
<1>5. list \in Seq(Shown)
  BY <1>1, PlainsLaw
<1> HIDE DEF payload, base, ext, list, room
<1>6. Len(payload) >= b /\ \A k \in 1 .. b : payload[k] = base[k]
  <2>1. CASE payload = base
    <3>1. b \in Nat
      BY <1>2
    <3>2. b >= b
      BY <3>1
    <3> QED
      BY <2>1, <3>2, Zenon
  <2>2. CASE payload = base \o ext
    <3>1. StartsWith(base, base \o ext)
      BY <1>2, <1>4, StartsWithLaw
    <3> QED
      BY <2>2, <3>1, Zenon DEF StartsWith
  <2> QED
    BY <1>3, <2>1, <2>2, Zenon
<1>7. /\ payload[1] = FRAME_MAGIC /\ payload[2] = number % 256
      /\ payload[3] = n /\ payload[4] = BRIGHTNESS
      /\ ReadBase(payload) = list
  <2>1. /\ payload \in Seq(Byte) /\ segs \in Seq(Segments) /\ Len(segs) <= MAX_SEGS
        /\ Len(payload) >= Len(Base(segs, number))
        /\ \A k \in 1 .. Len(Base(segs, number)) : payload[k] = Base(segs, number)[k]
    BY <1>1, <1>6 DEF base
  <2> QED
    BY <2>1, ReadBaseLaw DEF list
<1>8. \E q : Shows(q, segs, room) /\ Read(payload, b, list).segments = q
  <2>1. CASE \A i \in 1 .. n : segs[i].harness = 0 /\ segs[i].title = <<>>
    <3>1. payload = base
      BY <1>3, <2>1, Zenon
    <3>2. Shows(list, segs, room)
      BY <1>1, <1>3, <2>1, ShowsPlain DEF list
    <3>3. Read(base, Len(base), list).segments = list
      BY <1>2, <1>5, ReadsNothing
    <3> QED
      BY <3>1, <3>2, <3>3, Zenon
  <2>2. CASE \E i \in 1 .. n : segs[i].harness # 0 \/ segs[i].title # <<>>
    <3>1. payload = base \o ext
      BY <1>3, <2>2, Zenon
    <3>2. <<>> \in Seq(Byte)
      OBVIOUS
    <3>3. PICK q \in Seq(Shown) : Shows(q, segs, room) /\ ReadsTo(base, room, segs, <<>>, q)
      BY <1>1, <1>2, <1>3, <3>2, ReadsBack
    <3>4. Read((base \o ext) \o <<>>, b, list)
            = [at |-> b + Len(ext), ended |-> FALSE, segments |-> q]
      BY <3>3, Zenon DEF ReadsTo, ext, list
    <3>5. (base \o ext) \o <<>> = payload
      <4>1. payload \o <<>> = payload
        BY <1>1, ConcatLaw
      <4> QED
        BY <3>1, <4>1, Zenon
    <3> DEFINE end == b + Len(ext)
    <3>6. Read(payload, b, list) = [at |-> end, ended |-> FALSE, segments |-> q]
      BY <3>4, <3>5, Zenon
    <3> HIDE DEF end, b
    <3>7. Read(payload, b, list).segments = q
      BY <3>6
    <3> QED
      BY <3>3, <3>7, Zenon
  <2> QED
    BY <2>1, <2>2, Zenon
<1>9. \E q : Shows(q, segs, room) /\ Read(payload, 4 + 4 * n, ReadBase(payload)).segments = q
  BY <1>2, <1>7, <1>8, Zenon
<1>10. ~Unframed(payload)
  <2>1. ~(Len(payload) < 4) /\ payload # <<>>
    <3>1. Len(payload) \in Nat /\ Len(payload) >= 4
      BY <1>1, <1>2, <1>6
    <3> QED
      BY <3>1
  <2>2. DOMAIN list = 1 .. n
    BY DEF list, Plains
  <2>3. \A i \in 1 .. n : list[i].state \in 0 .. 6 /\ list[i].anim \in 0 .. 5
    BY <1>1, PlainsLaw, PlainIsKnown, AtItsPlace DEF list
  <2> QED
    BY <1>7, <2>1, <2>2, <2>3, Zenon DEF Unframed
<1> QED
  BY <1>7, <1>9, <1>10, Zenon DEF payload, room

(* An undamaged packet is decoded to what was encoded.                     *)
LEMMA DecodeLaw ==
  ASSUME NEW segs \in Rings, NEW number \in Nat
  PROVE  \E q : /\ Shows(q, segs, Room(Len(segs)))
                /\ DecodeFrame(EncodeFrame(segs, number))
                     = [seq |-> number % 256, brightness |-> BRIGHTNESS, segments |-> q]
<1> DEFINE payload == Payload(segs, number)
           bytes == EncodeFrame(segs, number)
           l == Len(payload)
           n == Len(segs)
<1>1. /\ payload \in Seq(Byte) /\ l \in 4 .. 255
      /\ Packed(bytes, payload, Crc8(payload))
  BY EncodeLaw
<1>2. /\ payload[1] = FRAME_MAGIC /\ payload[2] = number % 256
      /\ payload[3] = n /\ payload[4] = BRIGHTNESS /\ ~Unframed(payload)
  BY ReadPayload
<1>3. PICK q : /\ Shows(q, segs, Room(n))
               /\ Read(payload, 4 + 4 * n, ReadBase(payload)).segments = q
  BY ReadPayload
<1> HIDE DEF payload, bytes
<1>4. /\ Len(bytes) = 3 + l /\ bytes[1] = FRAME_SOF /\ bytes[2] = l
      /\ SubSeq(bytes, 3, 2 + l) = payload /\ bytes[3 + l] = Crc8(payload)
  BY <1>1, Zenon DEF Packed
<1>5. ~(Len(bytes) < 6) /\ ~(Len(bytes) < 2 + l + 1)
  <2> DEFINE w == Len(bytes)
  <2>1. w = 3 + l /\ l \in 4 .. 255
    BY <1>1, <1>4
  <2> HIDE DEF w, l
  <2> QED
    BY <2>1 DEF w
<1>6. DecodeFrame(bytes)
        = [seq |-> payload[2], brightness |-> payload[4],
           segments |-> Fold(ReadExtension(payload),
                             [at |-> 4 + 4 * payload[3], ended |-> FALSE, segments |-> <<>>],
                             ReadBase(payload)).segments]
  <2> HIDE DEF l
  <2> QED
    BY <1>2, <1>4, <1>5, Zenon DEF DecodeFrame
<1>7. DecodeFrame(bytes) = [seq |-> number % 256, brightness |-> BRIGHTNESS, segments |-> q]
  BY <1>2, <1>3, <1>6, Zenon DEF Read
<1> QED
  BY <1>3, <1>7, Zenon DEF bytes

(* A packet with a byte of its payload or its checksum altered is not      *)
(* decoded.                                                                *)
LEMMA DamageLaw ==
  ASSUME NEW segs \in Rings, NEW number \in Nat, NEW other \in Seq(Byte), NEW i \in Nat, i >= 3,
         DifferAt(EncodeFrame(segs, number), other, i)
  PROVE  /\ DecodeFrame(other) = NoFrame
         /\ other[2] = Len(other) - 3
<1> DEFINE payload == Payload(segs, number)
           bytes == EncodeFrame(segs, number)
           l == Len(payload)
           crc == Crc8(payload)
           w == Len(bytes)
           part == SubSeq(other, 3, 2 + l)
<1>1. /\ payload \in Seq(Byte) /\ l \in 4 .. 255 /\ crc \in Byte
      /\ Packed(bytes, payload, crc)
  BY EncodeLaw
<1>2. /\ Len(other) = w /\ i \in 1 .. w /\ other[i] # bytes[i]
      /\ \A j \in 1 .. w : j # i => other[j] = bytes[j]
  BY DEF DifferAt
<1> HIDE DEF payload, bytes, crc
<1>3. /\ w = 3 + l /\ bytes[2] = l /\ bytes[3 + l] = crc
      /\ \A j \in 1 .. l : bytes[2 + j] = payload[j]
  BY <1>1, Zenon DEF Packed
<1> HIDE DEF w
<1>4. l \in Nat /\ l >= 4 /\ i \in 3 .. 3 + l
  <2>1. l \in 4 .. 255
    BY <1>1
  <2> HIDE DEF l
  <2> QED
    BY <1>2, <1>3, <2>1
<1>5. Len(payload) = l /\ Len(other) = 3 + l
  BY <1>2, <1>3, Zenon
<1> HIDE DEF l
<1>6. other[2] = l
  <2>1. 2 \in 1 .. w /\ 2 # i
    BY <1>3, <1>4
  <2> QED
    BY <1>2, <1>3, <2>1, Zenon
<1>7. part \in Seq(Byte) /\ Len(part) = l /\ \A j \in 1 .. l : part[j] = other[2 + j]
  <2>1. part \in Seq(Byte)
    BY <1>4, <1>5
  <2>2. Len(part) = l
    BY <1>4, <1>5
  <2>3. \A j \in 1 .. l : part[j] = other[2 + j]
    BY <1>4, <1>5
  <2> QED
    BY <2>1, <2>2, <2>3
<1> HIDE DEF part
<1>8. Crc8(part) # other[3 + l]
  <2>1. CASE i = 3 + l
    <3>1. \A j \in 1 .. l : 2 + j \in 1 .. w /\ 2 + j # i
      BY <1>3, <1>4, <2>1
    <3>2. \A j \in 1 .. l : part[j] = payload[j]
      BY <1>2, <1>3, <1>7, <3>1, Zenon
    <3>3. part = payload
      BY <1>1, <1>5, <1>7, <3>2, SameList
    <3> QED
      BY <1>2, <1>3, <2>1, <3>3, Zenon DEF crc
  <2>2. CASE i # 3 + l
    <3> DEFINE k == i - 2
    <3>1. k \in 1 .. l /\ 2 + k = i
      BY <1>4, <2>2
    <3> HIDE DEF k
    <3>2. part[k] # payload[k]
      BY <1>2, <1>3, <1>7, <3>1, Zenon
    <3>3. \A j \in 1 .. l : j # k => 2 + j \in 1 .. w /\ 2 + j # i
      BY <1>3, <1>4, <3>1
    <3>4. \A j \in 1 .. l : j # k => part[j] = payload[j]
      BY <1>2, <1>3, <1>7, <3>3, Zenon
    <3>5. DifferAt(payload, part, k)
      BY <1>5, <1>7, <3>1, <3>2, <3>4, Zenon DEF DifferAt
    <3>6. Crc8(payload) # Crc8(part)
      BY <1>1, <1>7, <3>5, OneByteIsSeen
    <3>7. 3 + l \in 1 .. w /\ 3 + l # i
      BY <1>3, <1>4, <2>2
    <3>8. other[3 + l] = crc
      BY <1>2, <1>3, <3>7, Zenon
    <3> QED
      BY <3>6, <3>8, Zenon DEF crc
  <2> QED
    BY <2>1, <2>2
<1>9. DecodeFrame(other) = NoFrame
  BY <1>6, <1>8, Zenon DEF DecodeFrame, part
<1>10. other[2] = Len(other) - 3
  BY <1>4, <1>5, <1>6
<1> QED
  BY <1>9, <1>10

(***************************************************************************)
(* The behaviour                                                           *)
(***************************************************************************)

LEMMA XorZero ==
  ASSUME NEW a \in Byte
  PROVE  Xor(a, 0) = a
<1> DEFINE Bit(k) == IF (a \div k) % 2 = 0 THEN 0 ELSE k
<1>1. \A k \in {1, 2, 4, 8, 16, 32, 64, 128} : (0 \div k) % 2 = 0
  OBVIOUS
<1>2. Xor(a, 0) = Bit(1) + Bit(2) + Bit(4) + Bit(8) + Bit(16) + Bit(32) + Bit(64) + Bit(128)
  BY <1>1 DEF Xor
<1>3. \A k \in {1, 2, 4, 8, 16, 32, 64, 128} : Bit(k) = k * ((a \div k) % 2)
  BY DEF Byte
<1>4. a \div 1 = a
  BY DEF Byte
<1> HIDE DEF Bit
<1>5. /\ Bit(1) = 1 * (a % 2) /\ Bit(2) = 2 * ((a \div 2) % 2) /\ Bit(4) = 4 * ((a \div 4) % 2)
      /\ Bit(8) = 8 * ((a \div 8) % 2) /\ Bit(16) = 16 * ((a \div 16) % 2)
      /\ Bit(32) = 32 * ((a \div 32) % 2) /\ Bit(64) = 64 * ((a \div 64) % 2)
      /\ Bit(128) = 128 * ((a \div 128) % 2)
  BY <1>3, <1>4
<1>6. a % 2 \in Nat
  BY DEF Byte
<1> QED
  BY <1>2, <1>5, <1>6, BitsOf

(* A bit flips: the byte is another one.                                   *)
LEMMA FlipLaw ==
  ASSUME NEW a \in Byte, NEW bit \in {1, 128}
  PROVE  Xor(a, bit) \in Byte /\ Xor(a, bit) # a
<1>1. bit \in Byte /\ 0 \in Byte /\ bit # 0
  BY DEF Byte
<1> QED
  BY <1>1, XorLaw, XorZero

(* The packet is the one that was pushed for the ring, with number, up to  *)
(* one byte behind the length field when it is damaged.                    *)
SentAs(number) ==
  LET sent == EncodeFrame(ring, number)
  IN  IF damaged
        THEN packet \in Seq(Byte) /\ \E i \in Nat : i >= 3 /\ DifferAt(sent, packet, i)
        ELSE packet = sent

CodecInv ==
  /\ ring \in Rings /\ seq \in Byte
  /\ packet = <<>> => ~damaged /\ frame = NoFrame
  /\ packet # <<>> => \E number \in Byte : seq = (number + 1) % 256 /\ SentAs(number)
  /\ frame # NoFrame => ~damaged /\ frame = DecodeFrame(packet)

LEMMA SentPacket ==
  ASSUME NEW segs \in Rings, NEW number \in Byte
  PROVE  LET sent == EncodeFrame(segs, number) IN
         /\ sent \in Seq(Byte) /\ Len(sent) \in Nat /\ Len(sent) >= 3 /\ sent # <<>>
         /\ sent[2] = Len(sent) - 3
<1> DEFINE sent == EncodeFrame(segs, number)
           payload == Payload(segs, number)
           l == Len(payload)
           w == Len(sent)
<1>1. number \in Nat
  BY ByteIsNat
<1>2. l \in 4 .. 255 /\ Packed(sent, payload, Crc8(payload))
  BY <1>1, EncodeLaw
<1> HIDE DEF sent, payload
<1>3. sent \in Seq(Byte) /\ w = 3 + l /\ sent[2] = l
  BY <1>2, Zenon DEF Packed
<1>4. l \in 4 .. 255
  BY <1>2
<1> HIDE DEF l, w
<1>5. w \in Nat /\ w >= 3 /\ l = w - 3 /\ w # 0
  BY <1>3, <1>4
<1>6. sent # <<>>
  BY <1>5 DEF w
<1> QED
  BY <1>3, <1>5, <1>6, Zenon DEF w, sent

(* Every reachable state satisfies the invariant of the codec.             *)
THEOREM CodecInvariant == CodecSpec => []CodecInv
<1>1. CodecInit => CodecInv
  BY DEF CodecInit, CodecInv, Byte
<1>2. CodecInv /\ [CodecNext]_codecVars => CodecInv'
  <2> SUFFICES ASSUME CodecInv, [CodecNext]_codecVars PROVE CodecInv'
    OBVIOUS
  <2>1. CASE Push
    <3>1. /\ packet = <<>> /\ packet' = EncodeFrame(ring, seq) /\ seq' = (seq + 1) % 256
          /\ ring' = ring /\ damaged' = damaged /\ frame' = frame
      BY <2>1, Zenon DEF Push
    <3>2. ring \in Rings /\ seq \in Byte /\ ~damaged /\ frame = NoFrame
      BY <3>1, Zenon DEF CodecInv
    <3>3. seq' \in Byte
      BY <3>1, <3>2 DEF Byte
    <3>5. packet' # <<>>
      BY <3>1, <3>2, SentPacket
    <3>6. \E number \in Byte : seq' = (number + 1) % 256 /\ SentAs(number)'
      BY <3>1, <3>2, Zenon DEF SentAs
    <3> QED
      BY <3>1, <3>2, <3>3, <3>5, <3>6, Zenon DEF CodecInv
  <2>2. CASE Damage
    <3>1. /\ packet # <<>> /\ frame = NoFrame /\ ~damaged /\ damaged' = TRUE
          /\ ring' = ring /\ seq' = seq /\ frame' = frame
      BY <2>2, Zenon DEF Damage
    <3>2. PICK i \in 3 .. Len(packet), bit \in {1, 128} :
                 packet' = [packet EXCEPT ![i] = Xor(@, bit)]
      BY <2>2, Zenon DEF Damage
    <3>3. PICK number \in Byte : seq = (number + 1) % 256 /\ packet = EncodeFrame(ring, number)
      BY <3>1, Zenon DEF CodecInv, SentAs
    <3>4. ring \in Rings /\ seq \in Byte
      BY DEF CodecInv
    <3> DEFINE sent == EncodeFrame(ring, number)
               w == Len(sent)
    <3>5. sent \in Seq(Byte) /\ w \in Nat /\ w >= 3 /\ packet = sent
      BY <3>3, <3>4, SentPacket
    <3> HIDE DEF sent
    <3>6. i \in 1 .. w /\ i \in Nat /\ i >= 3
      <4>1. i \in 3 .. w
        BY <3>2, <3>5, Zenon
      <4> HIDE DEF w
      <4> QED
        BY <3>5, <4>1
    <3>7. sent[i] \in Byte
      <4>1. sent \in Seq(Byte) /\ i \in 1 .. Len(sent)
        BY <3>5, <3>6
      <4> QED
        BY <4>1
    <3> DEFINE byte == Xor(sent[i], bit)
    <3>8. byte \in Byte /\ byte # sent[i]
      BY <3>7, FlipLaw
    <3>9. packet' = [sent EXCEPT ![i] = byte]
      BY <3>2, <3>5, Zenon
    <3> HIDE DEF byte
    <3>10. packet' \in Seq(Byte) /\ Len(packet') = w /\ packet'[i] = byte
           /\ \A j \in 1 .. w : j # i => packet'[j] = sent[j]
      BY <3>5, <3>6, <3>8, <3>9
    <3>11. DifferAt(sent, packet', i)
      BY <3>6, <3>8, <3>10, Zenon DEF DifferAt
    <3>12. packet' # <<>>
      BY <3>5, <3>10
    <3>13. \E n \in Byte : seq' = (n + 1) % 256 /\ SentAs(n)'
      <4>1. packet' \in Seq(Byte) /\ \E j \in Nat : j >= 3 /\ DifferAt(EncodeFrame(ring', number), packet', j)
        BY <3>1, <3>6, <3>10, <3>11, Zenon DEF sent
      <4> QED
        BY <3>1, <3>3, <4>1, Zenon DEF SentAs
    <3> QED
      BY <3>1, <3>4, <3>12, <3>13, Zenon DEF CodecInv
  <2>3. CASE Decode
    <3>1. /\ packet # <<>> /\ frame = NoFrame /\ frame' = DecodeFrame(packet)
          /\ ring' = ring /\ seq' = seq /\ packet' = packet /\ damaged' = damaged
      BY <2>3, Zenon DEF Decode
    <3>2. PICK number \in Byte : seq = (number + 1) % 256 /\ SentAs(number)
      BY <3>1, Zenon DEF CodecInv
    <3>3. ring \in Rings /\ seq \in Byte
      BY DEF CodecInv
    <3>4. damaged => frame' = NoFrame
      <4> SUFFICES ASSUME damaged PROVE frame' = NoFrame
        OBVIOUS
      <4>1. number \in Nat
        BY ByteIsNat
      <4>2. PICK i \in Nat : /\ packet \in Seq(Byte) /\ i >= 3
                             /\ DifferAt(EncodeFrame(ring, number), packet, i)
        BY <3>2, Zenon DEF SentAs
      <4>3. DecodeFrame(packet) = NoFrame
        BY <3>3, <4>1, <4>2, DamageLaw
      <4> QED
        BY <3>1, <4>3, Zenon
    <3>5. SentAs(number)'
      <4>1. SentAs(number)' <=> SentAs(number)
        BY <3>1, Zenon DEF SentAs
      <4> QED
        BY <3>2, <4>1
    <3>6. \E n \in Byte : seq' = (n + 1) % 256 /\ SentAs(n)'
      BY <3>1, <3>2, <3>5, Zenon
    <3>7. frame' # NoFrame => ~damaged' /\ frame' = DecodeFrame(packet')
      BY <3>1, <3>4, Zenon
    <3> QED
      BY <3>1, <3>3, <3>6, <3>7, Zenon DEF CodecInv
  <2>4. CASE UNCHANGED codecVars
    BY <2>4, Zenon DEF codecVars, CodecInv, SentAs
  <2> QED
    BY <2>1, <2>2, <2>3, <2>4 DEF CodecNext
<1> QED
  BY <1>1, <1>2, PTL DEF CodecSpec

(* The length field is honest in every packet.                             *)
THEOREM LengthField == CodecSpec => []LengthHonest
<1>1. CodecInv => LengthHonest
  <2> SUFFICES ASSUME CodecInv, packet # <<>> PROVE packet[2] = Len(packet) - 3
    BY DEF LengthHonest
  <2>1. PICK number \in Byte : SentAs(number)
    BY Zenon DEF CodecInv
  <2>2. ring \in Rings /\ number \in Nat
    BY ByteIsNat DEF CodecInv
  <2>3. CASE damaged
    <3>1. PICK i \in Nat : /\ packet \in Seq(Byte) /\ i >= 3
                           /\ DifferAt(EncodeFrame(ring, number), packet, i)
      BY <2>1, <2>3, Zenon DEF SentAs
    <3> QED
      BY <2>2, <3>1, DamageLaw
  <2>4. CASE ~damaged
    <3>1. packet = EncodeFrame(ring, number)
      BY <2>1, <2>4, Zenon DEF SentAs
    <3>2. EncodeFrame(ring, number)[2] = Len(EncodeFrame(ring, number)) - 3
      BY <2>2, SentPacket
    <3> QED
      BY <3>1, <3>2, Zenon
  <2> QED
    BY <2>3, <2>4
<1> QED
  BY <1>1, CodecInvariant, PTL

(* A damaged packet is never shown.                                        *)
THEOREM DamageSeen == CodecSpec => []DamageDetected
<1>1. CodecInv => DamageDetected
  BY Zenon DEF CodecInv, DamageDetected
<1> QED
  BY <1>1, CodecInvariant, PTL

(* What was received shows the ring.                                       *)
LEMMA ReceivedShows ==
  ASSUME CodecInv, Received
  PROVE  /\ ring \in Seq(Segments) /\ Len(ring) \in Nat /\ Room(Len(ring)) \in Nat
         /\ (frame.seq + 1) % 256 = seq /\ frame.brightness = BRIGHTNESS
         /\ Shows(frame.segments, ring, Room(Len(ring)))
<1>1. frame # NoFrame /\ ~damaged /\ frame = DecodeFrame(packet) /\ ring \in Rings /\ packet # <<>>
  BY Zenon DEF CodecInv, Received
<1>2. PICK number \in Byte : seq = (number + 1) % 256 /\ packet = EncodeFrame(ring, number)
  BY <1>1, Zenon DEF CodecInv, SentAs
<1>3. number \in Nat /\ number % 256 = number
  BY DEF Byte
<1>4. PICK q : /\ Shows(q, ring, Room(Len(ring)))
               /\ DecodeFrame(EncodeFrame(ring, number))
                    = [seq |-> number % 256, brightness |-> BRIGHTNESS, segments |-> q]
  BY <1>1, <1>3, DecodeLaw
<1>5. frame = [seq |-> number, brightness |-> BRIGHTNESS, segments |-> q]
  BY <1>1, <1>2, <1>3, <1>4, Zenon
<1>6. frame.seq = number /\ frame.brightness = BRIGHTNESS /\ frame.segments = q
  BY <1>5
<1>7. ring \in Seq(Segments) /\ Len(ring) <= MAX_SEGS /\ Len(ring) \in Nat
  BY <1>1, <1>3, EncodeLaw
<1>8. Room(Len(ring)) \in Nat
  BY <1>3, <1>7, PayloadLaw
<1> QED
  BY <1>2, <1>4, <1>6, <1>7, <1>8, Zenon

(* Each session is shown in its place, as it is.                           *)
THEOREM ShownInPlace == CodecSpec => []RoundTrip
<1>1. CodecInv => RoundTrip
  <2> SUFFICES ASSUME CodecInv, Received
               PROVE  /\ frame.brightness = BRIGHTNESS /\ (frame.seq + 1) % 256 = seq
                      /\ Len(frame.segments) = Len(ring)
                      /\ \A i \in 1 .. Len(ring) :
                           /\ frame.segments[i].state = ring[i].state
                           /\ <<frame.segments[i].hue, frame.segments[i].anim>>
                                = STATE_STYLE[ring[i].state + 1]
                           /\ frame.segments[i].harness = ring[i].harness
                           /\ frame.segments[i].title \in {<<>>, Cut(ring[i])}
    BY Zenon DEF RoundTrip
  <2> DEFINE q == frame.segments
             n == Len(ring)
  <2>1. /\ ring \in Seq(Segments) /\ n \in Nat
        /\ (frame.seq + 1) % 256 = seq /\ frame.brightness = BRIGHTNESS
        /\ Shows(q, ring, Room(n))
    BY ReceivedShows
  <2> HIDE DEF q, n
  <2>2. Len(q) = n /\ \A i \in 1 .. n : \E left \in Nat : q[i] = SeenAs(ring[i], left)
    BY <2>1, Zenon DEF Shows, n
  <2>3. ASSUME NEW i \in 1 .. n
        PROVE  /\ q[i].state = ring[i].state
               /\ <<q[i].hue, q[i].anim>> = STATE_STYLE[ring[i].state + 1]
               /\ q[i].harness = ring[i].harness
               /\ q[i].title \in {<<>>, Cut(ring[i])}
    <3>1. ring[i] \in Segments
      BY <2>1, AtItsPlace, Zenon DEF n
    <3>2. PICK left \in Nat : q[i] = SeenAs(ring[i], left)
      BY <2>2, Zenon
    <3> DEFINE seg == ring[i]
               x == q[i]
               style == STATE_STYLE[seg.state + 1]
    <3>3. seg \in Segments /\ x = SeenAs(seg, left)
      BY <3>1, <3>2
    <3> HIDE DEF seg, x
    <3>4. /\ x.title = Written(seg, left) /\ x.harness = seg.harness /\ x.state = seg.state
          /\ x.hue = style[1] /\ x.anim = style[2]
      BY <3>3, SeenAsLaw
    <3>5. x.title \in {<<>>, Cut(seg)}
      BY <3>4 DEF Written
    <3>6. \E a, b : style = <<a, b>>
      <4>1. seg.state \in {0, 1, 2, 3, 4, 5, 6}
        BY <3>3 DEF Segments
      <4> QED
        BY <4>1 DEF STATE_STYLE
    <3> HIDE DEF style
    <3>7. style = <<style[1], style[2]>>
      BY <3>6
    <3>8. <<x.hue, x.anim>> = style
      BY <3>4, <3>7, Zenon
    <3> QED
      BY <3>4, <3>5, <3>8, Zenon DEF seg, x, style
  <2> QED
    BY <2>1, <2>2, <2>3, Zenon DEF q, n
<1> QED
  BY <1>1, CodecInvariant, PTL

(* A title is shown whole, or cut between codepoints where the cap says,   *)
(* or left out because it does not fit.                                    *)
THEOREM TitlesShownWhole == CodecSpec => []TitlesWhole
<1>1. CodecInv => TitlesWhole
  <2> DEFINE n == Len(ring)
             q == frame.segments
             room == 255 - 4 - 6 * n
             Right(i) ==
               LET title == q[i].title
                   begun == {Utf8(SubSeq(ring[i].title, 1, k)) : k \in 0 .. Len(ring[i].title)}
                   shown == TitleBytes(SubSeq(q, 1, i - 1))
               IN  /\ title \in begun
                   /\ Len(title) <= MAX_TITLE
                   /\ \A longer \in begun :
                        Len(title) < Len(longer) /\ Len(longer) <= MAX_TITLE =>
                          title = <<>> /\ \E cut \in begun :
                            Len(cut) <= MAX_TITLE /\ shown + Len(cut) > room
  <2> SUFFICES ASSUME CodecInv, Received PROVE \A i \in 1 .. Len(q) : Right(i)
    BY Zenon DEF TitlesWhole
  <2>1. /\ ring \in Seq(Segments) /\ n \in Nat /\ Room(n) \in Nat
        /\ Shows(q, ring, Room(n))
    BY ReceivedShows
  <2> HIDE DEF q, n
  <2>1a. room = Room(n)
    BY DEF Room
  <2> HIDE DEF room
  <2>2. /\ Len(q) = n /\ q \in Seq(Shown)
        /\ \A i \in 1 .. n : \E left \in Nat : /\ left + TitleBytes(SubSeq(q, 1, i - 1)) = room
                                               /\ q[i] = SeenAs(ring[i], left)
    BY <2>1, <2>1a, Zenon DEF Shows, n
  <2>3. ASSUME NEW i \in 1 .. n PROVE Right(i)
    <3> DEFINE seg == ring[i]
               begun == Begun(seg.title)
               title == q[i].title
               cut == Cut(seg)
               shown == TitleBytes(SubSeq(q, 1, i - 1))
    <3>1. seg \in Segments
      BY <2>1, AtItsPlace, Zenon DEF n
    <3>2. PICK left \in Nat : left + shown = room /\ q[i] = SeenAs(seg, left)
      BY <2>2, Zenon
    <3>3. seg.title \in Seq(1 .. 4)
      BY <3>1 DEF Segments
    <3>4. /\ cut \in begun /\ cut \in Seq(Byte) /\ Len(cut) <= MAX_TITLE
          /\ \A b \in begun : Len(b) <= MAX_TITLE => Len(b) <= Len(cut)
      BY <3>3, CutLaw DEF Cut
    <3>5. <<>> \in begun /\ begun \subseteq Seq(Byte)
      <4>1. 1 \in 1 .. 4
        OBVIOUS
      <4> QED
        BY <3>3, <4>1, BegunLaw
    <3>6. title = Written(seg, left)
      BY <3>1, <3>2, SeenAsLaw
    <3>7. shown \in Nat
      <4>1. SubSeq(q, 1, i - 1) \in Seq(Shown)
        BY <2>1, <2>2
      <4> QED
        BY <4>1, TitleBytesLaw
    <3>8. MAX_TITLE \in Nat
      BY CodecAssumption, ByteIsNat
    <3> HIDE DEF seg, begun, title, cut, shown
    <3>9. /\ title \in begun /\ Len(title) <= MAX_TITLE
          /\ \A longer \in begun :
               Len(title) < Len(longer) /\ Len(longer) <= MAX_TITLE =>
                 title = <<>> /\ \E c \in begun : Len(c) <= MAX_TITLE /\ shown + Len(c) > room
      <4>0. Len(cut) \in Nat /\ \A b \in begun : Len(b) \in Nat
        BY <3>4, <3>5
      <4>1. CASE Len(cut) > left
        <5>1. title = <<>>
          BY <3>6, <4>1, Zenon DEF Written, cut
        <5>2. Len(title) <= MAX_TITLE
          BY <3>8, <5>1
        <5>3. shown + Len(cut) > room
          BY <3>2, <3>7, <4>0, <4>1
        <5> QED
          BY <3>4, <3>5, <5>1, <5>2, <5>3, Zenon
      <4>2. CASE ~(Len(cut) > left)
        <5>1. title = cut
          BY <3>6, <4>2, Zenon DEF Written, cut
        <5>2. \A longer \in begun : Len(longer) <= MAX_TITLE => ~(Len(cut) < Len(longer))
          BY <3>4, <4>0
        <5> QED
          BY <3>4, <5>1, <5>2, Zenon
      <4> QED
        BY <4>1, <4>2
    <3> QED
      BY <3>9, Zenon DEF Begun, seg, begun, title, shown
  <2> QED
    BY <2>2, <2>3, Zenon
<1> QED
  BY <1>1, CodecInvariant, PTL

(***************************************************************************)
(* The lines of a TOML file                                                *)
(***************************************************************************)

LEMMA LeastOf ==
  ASSUME NEW S \in SUBSET Nat, S # {}
  PROVE  Min(S) \in S /\ \A j \in S : Min(S) <= j
BY LeastNatural DEF Min

LEMMA GreatestOf ==
  ASSUME NEW n \in Nat, NEW S \in SUBSET (1 .. n), S # {}
  PROVE  Max(S) \in S /\ \A j \in S : Max(S) >= j
<1> DEFINE R == {k \in Nat : n - k \in S}
<1>1. R \in SUBSET Nat /\ R # {}
  <2>1. PICK i \in S : TRUE
    OBVIOUS
  <2>2. n - i \in Nat /\ n - (n - i) = i
    OBVIOUS
  <2>3. n - i \in R
    BY <2>2
  <2> QED
    BY <2>3
<1>2. PICK r \in R : \A j \in R : r <= j
  <2> HIDE DEF R
  <2> QED
    BY <1>1, LeastNatural
<1>3. ASSUME NEW j \in S PROVE n - r >= j
  <2>1. j \in Nat /\ n - j \in Nat /\ n - (n - j) = j
    OBVIOUS
  <2>2. n - j \in R
    BY <2>1
  <2>3. r <= n - j /\ r \in Nat
    BY <1>2, <2>2
  <2> QED
    BY <2>1, <2>3
<1>4. n - r \in S
  OBVIOUS
<1>5. \E x \in S : \A j \in S : x >= j
  BY <1>3, <1>4
<1> QED
  BY <1>5 DEF Max

LEMMA CommandLaw ==
  ASSUME NEW block \in Seq(Kinds), NEW x \in Kinds
  PROVE  /\ CommandOf(<<>>) = "none"
         /\ CommandOf(block) \in Commands \cup {"none"}
         /\ CommandOf(Append(block, x)) =
              IF x \in Commands /\ CommandOf(block) = "none" THEN x ELSE CommandOf(block)
<1> DEFINE at(b) == {i \in 1 .. Len(b) : b[i] \in Commands}
           n == Len(block)
           longer == Append(block, x)
<1>1. CommandOf(<<>>) = "none"
  BY DEF CommandOf
<1>2. \A b : CommandOf(b) = IF at(b) = {} THEN "none" ELSE b[Min(at(b))]
  BY DEF CommandOf
<1>3. \A b \in Seq(Kinds) : at(b) # {} => Min(at(b)) \in at(b) /\ \A j \in at(b) : Min(at(b)) <= j
  <2>1. \A b \in Seq(Kinds) : at(b) \in SUBSET Nat
    OBVIOUS
  <2> HIDE DEF at
  <2> QED
    BY <2>1, LeastOf
<1>4. \A b \in Seq(Kinds) : at(b) # {} => CommandOf(b) \in Commands
  BY <1>2, <1>3
<1>5. /\ longer \in Seq(Kinds) /\ Len(longer) = n + 1 /\ n \in Nat /\ longer[n + 1] = x
      /\ \A i \in 1 .. n : longer[i] = block[i]
  OBVIOUS
<1>6. at(longer) = at(block) \cup {i \in {n + 1} : x \in Commands}
  BY <1>5
<1>7. "none" \notin Commands
  BY DEF Commands
<1>8. CASE at(block) # {}
  <2>1. Min(at(longer)) \in at(longer) /\ \A j \in at(longer) : Min(at(longer)) <= j
    BY <1>3, <1>5, <1>6, <1>8
  <2>2. Min(at(block)) \in at(block) /\ \A j \in at(block) : Min(at(block)) <= j
    BY <1>3, <1>8
  <2>3. at(block) \subseteq 1 .. n
    OBVIOUS
  <2>4. Min(at(longer)) = Min(at(block))
    <3>1. at(block) \subseteq at(longer) /\ at(longer) \subseteq at(block) \cup {n + 1}
      BY <1>6
    <3> HIDE DEF at, longer, n
    <3>2. Min(at(longer)) <= Min(at(block)) /\ Min(at(block)) \in 1 .. n
      BY <2>1, <2>2, <2>3, <3>1
    <3>3. Min(at(longer)) \in at(block)
      BY <1>5, <2>1, <3>1, <3>2
    <3>4. Min(at(block)) <= Min(at(longer)) /\ Min(at(longer)) \in 1 .. n
      BY <2>2, <2>3, <3>3
    <3> QED
      BY <1>5, <3>2, <3>4
  <2>5. longer[Min(at(longer))] = block[Min(at(block))]
    BY <1>5, <2>2, <2>3, <2>4
  <2>6. at(longer) # {}
    BY <1>6, <1>8
  <2>7. CommandOf(longer) = CommandOf(block) /\ CommandOf(block) \in Commands
    <3> HIDE DEF at, longer, n
    <3> QED
      BY <1>2, <1>4, <1>8, <2>5, <2>6
  <2> QED
    BY <1>1, <1>7, <2>7
<1>9. CASE at(block) = {} /\ x \in Commands
  <2>1. at(longer) = {n + 1}
    BY <1>6, <1>9
  <2>2. Min(at(longer)) = n + 1
    BY <1>3, <1>5, <2>1
  <2>3. CommandOf(longer) = x /\ CommandOf(block) = "none"
    <3> HIDE DEF at, longer, n
    <3> QED
      BY <1>2, <1>5, <1>9, <2>1, <2>2
  <2> QED
    BY <1>1, <1>9, <2>3
<1>10. CASE at(block) = {} /\ x \notin Commands
  <2>1. at(longer) = {}
    BY <1>6, <1>10
  <2>2. CommandOf(longer) = "none" /\ CommandOf(block) = "none"
    <3> HIDE DEF at, longer, n
    <3> QED
      BY <1>2, <1>10, <2>1
  <2> QED
    BY <1>1, <1>10, <2>2
<1> QED
  BY <1>8, <1>9, <1>10

LEMMA TrimLaw ==
  ASSUME NEW s \in Seq(Kinds), NEW x \in Kinds
  PROVE  /\ TrimEnd(<<>>) = <<>>
         /\ TrimEnd(s) \in Seq(Kinds)
         /\ TrimEnd(Append(s, x)) = IF x = "blank" THEN TrimEnd(s) ELSE Append(s, x)
<1> DEFINE full(b) == {i \in 1 .. Len(b) : b[i] # "blank"}
           last(b) == IF full(b) = {} THEN 0 ELSE Max(full(b))
           n == Len(s)
           longer == Append(s, x)
<1>1. \A b : TrimEnd(b) = SubSeq(b, 1, last(b))
  BY DEF TrimEnd
<1>2. TrimEnd(<<>>) = <<>>
  BY DEF TrimEnd
<1>3. \A b \in Seq(Kinds) : full(b) # {} => Max(full(b)) \in full(b) /\ \A j \in full(b) : Max(full(b)) >= j
  <2>1. \A b \in Seq(Kinds) : Len(b) \in Nat /\ full(b) \in SUBSET (1 .. Len(b))
    OBVIOUS
  <2> HIDE DEF full
  <2> QED
    BY <2>1, GreatestOf
<1>4. \A b \in Seq(Kinds) : last(b) \in 0 .. Len(b)
  <2>1. \A b \in Seq(Kinds) : full(b) # {} => Max(full(b)) \in 1 .. Len(b)
    BY <1>3
  <2> HIDE DEF full
  <2> QED
    BY <2>1
<1>5. TrimEnd(s) \in Seq(Kinds)
  <2>1. last(s) \in 0 .. Len(s)
    BY <1>4
  <2>2. \A m \in 0 .. Len(s) : SubSeq(s, 1, m) \in Seq(Kinds)
    OBVIOUS
  <2> HIDE DEF last
  <2> QED
    BY <1>1, <2>1, <2>2
<1>6. /\ longer \in Seq(Kinds) /\ Len(longer) = n + 1 /\ n \in Nat /\ longer[n + 1] = x
      /\ \A i \in 1 .. n : longer[i] = s[i]
  OBVIOUS
<1>7. full(longer) = full(s) \cup {i \in {n + 1} : x # "blank"}
  BY <1>6
<1>8. CASE x = "blank"
  <2>1. full(longer) = full(s)
    BY <1>7, <1>8
  <2>2. last(longer) = last(s)
    <3> HIDE DEF full
    <3> QED
      BY <2>1
  <2>3. \A m \in 0 .. Len(s) : SubSeq(Append(s, x), 1, m) = SubSeq(s, 1, m)
    OBVIOUS
  <2>4. last(s) \in 0 .. Len(s)
    BY <1>4
  <2>5. TrimEnd(Append(s, x)) = TrimEnd(s)
    <3> HIDE DEF last
    <3> QED
      BY <1>1, <2>2, <2>3, <2>4
  <2> QED
    BY <1>2, <1>5, <1>8, <2>5
<1>9. CASE x # "blank"
  <2>1. n + 1 \in full(longer)
    BY <1>7, <1>9
  <2>2. Max(full(longer)) = n + 1
    <3>1. Max(full(longer)) \in full(longer) /\ Max(full(longer)) >= n + 1
      <4> HIDE DEF full, longer, n
      <4> QED
        BY <1>3, <1>6, <2>1
    <3>2. full(longer) \subseteq 1 .. n + 1
      BY <1>6
    <3> HIDE DEF full, longer, n
    <3>3. Max(full(longer)) \in 1 .. n + 1
      BY <3>1, <3>2
    <3> QED
      BY <1>6, <3>1, <3>3
  <2>3. last(longer) = n + 1
    <3> HIDE DEF full
    <3> QED
      BY <2>1, <2>2
  <2>4. SubSeq(longer, 1, n + 1) = longer
    BY <1>6
  <2>5. TrimEnd(longer) = longer
    <3> HIDE DEF last, longer, n
    <3> QED
      BY <1>1, <2>3, <2>4
  <2> QED
    BY <1>2, <1>5, <1>9, <2>5
<1> QED
  BY <1>8, <1>9

LEMMA TrimTwice ==
  ASSUME NEW s \in Seq(Kinds)
  PROVE  TrimEnd(TrimEnd(s)) = TrimEnd(s)
<1> DEFINE P == {t \in Seq(Kinds) : TrimEnd(TrimEnd(t)) = TrimEnd(t)}
<1>1. <<>> \in P
  <2>1. <<>> \in Seq(Kinds) /\ "blank" \in Kinds
    BY DEF Kinds
  <2> QED
    BY <2>1, TrimLaw
<1>2. ASSUME NEW t \in Seq(Kinds), NEW x \in Kinds, t \in P PROVE Append(t, x) \in P
  <2>1. Append(t, x) \in Seq(Kinds)
    OBVIOUS
  <2>2. TrimEnd(Append(t, x)) = IF x = "blank" THEN TrimEnd(t) ELSE Append(t, x)
    BY TrimLaw
  <2> QED
    BY <1>2, <2>1, <2>2
<1>3. Seq(Kinds) \subseteq P
  <2> HIDE DEF P
  <2> QED
    BY <1>1, <1>2, ListInduction
<1> QED
  BY <1>3

NothingSeen == [behind |-> <<>>, within |-> "out", own |-> <<>>]

(* What a reader knows after one more line.                                *)
LEMMA SeeLaw ==
  ASSUME NEW v \in Views, NEW x \in Kinds
  PROVE  /\ SeeLine[x][v] \in Views
         /\ Loads(v) \in Seq(Commands \cup {"none"})
         /\ x = "hooks" =>
              SeeLine[x][v] = [behind |-> Loads(v), within |-> "none", own |-> v.own]
         /\ x = "section" =>
              SeeLine[x][v] = [behind |-> Loads(v), within |-> "out", own |-> Append(v.own, x)]
         /\ x \notin Headers /\ v.within = "out" =>
              SeeLine[x][v] =
                [behind |-> v.behind, within |-> "out",
                 own |-> IF x \in {"blank", "flag", "tight"} THEN v.own ELSE Append(v.own, x)]
         /\ x \notin Headers /\ v.within # "out" =>
              SeeLine[x][v] =
                [behind |-> v.behind, own |-> v.own,
                 within |-> IF x \in Commands /\ v.within = "none" THEN x ELSE v.within]
<1>1. /\ v.behind \in Seq(Commands \cup {"none"})
      /\ v.within \in Commands \cup {"none", "out"}
      /\ v.own \in Seq(Kinds)
      /\ v = [behind |-> v.behind, within |-> v.within, own |-> v.own]
  BY DEF Views
<1>2. Loads(v) \in Seq(Commands \cup {"none"})
  BY <1>1 DEF Loads
<1>3. Append(v.own, x) \in Seq(Kinds)
  BY <1>1
<1>4. CASE x = "hooks"
  <2>1. SeeLine[x][v] = [behind |-> Loads(v), within |-> "none", own |-> v.own]
    BY <1>1, <1>4 DEF SeeLine, Headers
  <2> QED
    BY <1>1, <1>2, <1>4, <2>1 DEF Views, Headers
<1>5. CASE x = "section"
  <2>1. SeeLine[x][v] = [behind |-> Loads(v), within |-> "out", own |-> Append(v.own, x)]
    BY <1>1, <1>5 DEF SeeLine, Headers
  <2> QED
    BY <1>1, <1>2, <1>3, <1>5, <2>1 DEF Views, Headers
<1>a. \A o, w : /\ [v EXCEPT !.own = o] = [behind |-> v.behind, within |-> v.within, own |-> o]
                /\ [v EXCEPT !.within = w] = [behind |-> v.behind, within |-> w, own |-> v.own]
  <2>1. PICK b, w, o : v = [behind |-> b, within |-> w, own |-> o]
    BY <1>1
  <2> QED
    BY <2>1
<1>b. x \notin Headers =>
        SeeLine[x][v] =
          IF v.within = "out" /\ x \notin {"blank", "flag", "tight"}
            THEN [v EXCEPT !.own = Append(@, x)]
          ELSE IF v.within = "none" /\ x \in Commands THEN [v EXCEPT !.within = x]
          ELSE v
  BY DEF SeeLine
<1>6. CASE x \notin Headers /\ v.within = "out"
  <2>1. SeeLine[x][v] =
          [behind |-> v.behind, within |-> "out",
           own |-> IF x \in {"blank", "flag", "tight"} THEN v.own ELSE Append(v.own, x)]
    BY <1>1, <1>6, <1>a, <1>b
  <2> QED
    BY <1>1, <1>2, <1>3, <1>6, <2>1 DEF Views, Headers
<1>7. CASE x \notin Headers /\ v.within # "out"
  <2>1. SeeLine[x][v] =
          [behind |-> v.behind, own |-> v.own,
           within |-> IF x \in Commands /\ v.within = "none" THEN x ELSE v.within]
    BY <1>1, <1>7, <1>a, <1>b
  <2> QED
    BY <1>1, <1>2, <1>7, <2>1 DEF Views, Headers
<1> QED
  BY <1>4, <1>5, <1>6, <1>7 DEF Headers

LEMMA ViewLaw ==
  ASSUME NEW s \in Seq(Kinds)
  PROVE  /\ View(<<>>) = NothingSeen
         /\ View(s) \in Views
         /\ \A x \in Kinds : View(Append(s, x)) = SeeLine[x][View(s)]
<1>1. NothingSeen \in Views
  BY DEF NothingSeen, Views
<1>2. SeeLine \in [Kinds -> [Views -> Views]]
  <2> DEFINE see(x, v) == SeeLine[x][v]
             body(x, v) ==
               IF x \in Headers
                 THEN [behind |-> Loads(v),
                       within |-> IF x = "hooks" THEN "none" ELSE "out",
                       own    |-> IF x = "hooks" THEN v.own ELSE Append(v.own, x)]
               ELSE IF v.within = "out" /\ x \notin {"blank", "flag", "tight"}
                 THEN [v EXCEPT !.own = Append(@, x)]
               ELSE IF v.within = "none" /\ x \in Commands THEN [v EXCEPT !.within = x]
               ELSE v
  <2>1. SeeLine = [x \in Kinds |-> [v \in Views |-> body(x, v)]]
    BY DEF SeeLine
  <2>2. \A x \in Kinds, v \in Views : SeeLine[x][v] \in Views
    BY SeeLaw
  <2> HIDE DEF body
  <2>3. \A x \in Kinds : SeeLine[x] = [v \in Views |-> body(x, v)]
    BY <2>1
  <2>4. \A x \in Kinds : SeeLine[x] \in [Views -> Views]
    BY <2>2, <2>3
  <2> QED
    BY <2>1, <2>4
<1>3. Loop(Views, Kinds, SeeLine, NothingSeen)
  BY <1>1, <1>2 DEF Loop
<1>4. \A t : View(t) = Fold(SeeLine, NothingSeen, t)
  BY DEF View, NothingSeen
<1>5. /\ Fold(SeeLine, NothingSeen, <<>>) = NothingSeen
      /\ Fold(SeeLine, NothingSeen, s) \in Views
      /\ \A x \in Kinds : Fold(SeeLine, NothingSeen, Append(s, x))
                            = SeeLine[x][Fold(SeeLine, NothingSeen, s)]
  BY <1>3, FoldLaw
<1> QED
  BY <1>4, <1>5

(* Blank lines and the flag are not seen.                                  *)
LEMMA UnseenLine ==
  ASSUME NEW s \in Seq(Kinds), NEW x \in {"blank", "flag", "tight"}
  PROVE  View(Append(s, x)) = View(s)
<1>1. x \in Kinds /\ x \notin Headers /\ x \notin Commands
  BY DEF Kinds, Headers, Commands
<1>2. View(s) \in Views /\ View(Append(s, x)) = SeeLine[x][View(s)]
  BY <1>1, ViewLaw
<1>3. View(s) = [behind |-> View(s).behind, within |-> View(s).within, own |-> View(s).own]
  BY <1>2 DEF Views
<1>4. /\ View(s).within = "out" =>
           SeeLine[x][View(s)] = [behind |-> View(s).behind, within |-> "out",
              own |-> IF x \in {"blank", "flag", "tight"} THEN View(s).own ELSE Append(View(s).own, x)]
      /\ View(s).within # "out" =>
           SeeLine[x][View(s)] = [behind |-> View(s).behind, own |-> View(s).own,
              within |-> IF x \in Commands /\ View(s).within = "none" THEN x ELSE View(s).within]
  BY <1>1, <1>2, SeeLaw
<1> QED
  BY <1>1, <1>2, <1>3, <1>4

LEMMA TrimView ==
  ASSUME NEW s \in Seq(Kinds)
  PROVE  View(TrimEnd(s)) = View(s)
<1> DEFINE P == {t \in Seq(Kinds) : View(TrimEnd(t)) = View(t)}
<1>1. <<>> \in P
  <2>1. <<>> \in Seq(Kinds) /\ "blank" \in Kinds
    BY DEF Kinds
  <2> QED
    BY <2>1, TrimLaw
<1>2. ASSUME NEW t \in Seq(Kinds), NEW x \in Kinds, t \in P PROVE Append(t, x) \in P
  <2>1. Append(t, x) \in Seq(Kinds)
    OBVIOUS
  <2>2. TrimEnd(Append(t, x)) = IF x = "blank" THEN TrimEnd(t) ELSE Append(t, x)
    BY TrimLaw
  <2>3. x = "blank" => View(Append(t, x)) = View(t)
    BY UnseenLine
  <2> QED
    BY <1>2, <2>1, <2>2, <2>3
<1>3. Seq(Kinds) \subseteq P
  <2> HIDE DEF P
  <2> QED
    BY <1>1, <1>2, ListInduction
<1> QED
  BY <1>3

(* What is seen of two files stays the same when both go on alike.         *)
LEMMA SameView ==
  ASSUME NEW s \in Seq(Kinds), NEW t \in Seq(Kinds), View(s) = View(t), NEW u \in Seq(Kinds)
  PROVE  View(s \o u) = View(t \o u)
<1> DEFINE P == {w \in Seq(Kinds) : View(s \o w) = View(t \o w)}
<1>1. <<>> \in P
  <2>1. <<>> \in Seq(Kinds)
    OBVIOUS
  <2>2. s \o <<>> = s /\ t \o <<>> = t
    BY ConcatLaw
  <2> QED
    BY <2>1, <2>2
<1>2. ASSUME NEW w \in Seq(Kinds), NEW x \in Kinds, w \in P PROVE Append(w, x) \in P
  <2>1. Append(w, x) \in Seq(Kinds) /\ s \o w \in Seq(Kinds) /\ t \o w \in Seq(Kinds)
    OBVIOUS
  <2>2. s \o Append(w, x) = Append(s \o w, x) /\ t \o Append(w, x) = Append(t \o w, x)
    OBVIOUS
  <2>3. \A a \in Seq(Kinds) : View(Append(a, x)) = SeeLine[x][View(a)]
    BY ViewLaw
  <2> QED
    BY <1>2, <2>1, <2>2, <2>3
<1>3. Seq(Kinds) \subseteq P
  <2> HIDE DEF P
  <2> QED
    BY <1>1, <1>2, ListInduction
<1> QED
  BY <1>3

(***************************************************************************)
(* The blocks that are taken out and put in                                *)
(***************************************************************************)

PartsOf(s) == Fold(TakeLine, NoParts, s)

LEMMA CloseLaw ==
  ASSUME NEW p \in Parts
  PROVE  /\ p.out \in Seq(Kinds) /\ p.block \in Seq(Kinds)
         /\ CloseBlock(p).out \in Seq(Kinds) /\ CloseBlock(p).block = <<>>
         /\ p.block = <<>> => CloseBlock(p).out = p.out
         /\ CommandOf(p.block) \in OurCommands => CloseBlock(p).out = TrimEnd(p.out)
         /\ CommandOf(p.block) \notin OurCommands => CloseBlock(p).out = p.out \o p.block
<1>1. p.out \in Seq(Kinds) /\ p.block \in Seq(Kinds)
  BY DEF Parts
<1>2. TrimEnd(p.out) \in Seq(Kinds) /\ p.out \o p.block \in Seq(Kinds)
  <2>1. "blank" \in Kinds
    BY DEF Kinds
  <2> QED
    BY <1>1, <2>1, TrimLaw
<1>3. p.block = <<>> => CommandOf(p.block) \notin OurCommands /\ p.out \o p.block = p.out
  <2>1. "blank" \in Kinds
    BY DEF Kinds
  <2>2. CommandOf(<<>>) = "none" /\ p.out \o <<>> = p.out
    BY <1>1, <2>1, CommandLaw, ConcatLaw
  <2>3. "none" \notin OurCommands
    BY DEF OurCommands
  <2> QED
    BY <2>2, <2>3
<1> QED
  BY <1>1, <1>2, <1>3 DEF CloseBlock, BlockIsOurs

LEMMA TakeLaw ==
  ASSUME NEW p \in Parts, NEW x \in Kinds
  PROVE  /\ TakeLine[x][p] \in Parts
         /\ p.block # <<>> /\ x \notin Headers =>
              TakeLine[x][p] = [out |-> p.out, block |-> Append(p.block, x)]
         /\ x = "hooks" =>
              TakeLine[x][p] = [out |-> CloseBlock(p).out, block |-> <<x>>]
         /\ x # "hooks" /\ (p.block = <<>> \/ x \in Headers) =>
              TakeLine[x][p] = [out |-> Append(CloseBlock(p).out, x), block |-> <<>>]
<1>1. /\ p.out \in Seq(Kinds) /\ p.block \in Seq(Kinds)
      /\ CloseBlock(p).out \in Seq(Kinds) /\ CloseBlock(p).block = <<>>
  BY CloseLaw
<1>2. /\ Append(p.block, x) \in Seq(Kinds) /\ <<x>> \in Seq(Kinds) /\ <<>> \in Seq(Kinds)
      /\ Append(CloseBlock(p).out, x) \in Seq(Kinds)
  BY <1>1
<1>3. \A b : [p EXCEPT !.block = b] = [out |-> p.out, block |-> b]
  <2>1. PICK o, c : p = [out |-> o, block |-> c]
    BY DEF Parts
  <2> QED
    BY <2>1
<1>4. /\ \A b : [CloseBlock(p) EXCEPT !.block = b] = [out |-> CloseBlock(p).out, block |-> b]
      /\ \A o : [CloseBlock(p) EXCEPT !.out = o] = [out |-> o, block |-> <<>>]
  <2>1. PICK o : CloseBlock(p) = [out |-> o, block |-> <<>>]
    BY DEF CloseBlock
  <2> QED
    BY <2>1
<1>5. TakeLine[x][p] =
        IF p.block # <<>> /\ x \notin Headers
          THEN [p EXCEPT !.block = Append(@, x)]
        ELSE IF x = "hooks" THEN [CloseBlock(p) EXCEPT !.block = <<x>>]
        ELSE [CloseBlock(p) EXCEPT !.out = Append(@, x)]
  BY DEF TakeLine
<1>6. CASE p.block # <<>> /\ x \notin Headers
  <2>1. TakeLine[x][p] = [out |-> p.out, block |-> Append(p.block, x)]
    BY <1>3, <1>5, <1>6
  <2> QED
    BY <1>1, <1>2, <1>6, <2>1 DEF Parts, Headers
<1>7. CASE x = "hooks"
  <2>1. TakeLine[x][p] = [out |-> CloseBlock(p).out, block |-> <<x>>]
    BY <1>4, <1>5, <1>7 DEF Headers
  <2> QED
    BY <1>1, <1>2, <1>7, <2>1 DEF Parts, Headers
<1>8. CASE x # "hooks" /\ (p.block = <<>> \/ x \in Headers)
  <2>1. TakeLine[x][p] = [out |-> Append(CloseBlock(p).out, x), block |-> <<>>]
    BY <1>4, <1>5, <1>8
  <2> QED
    BY <1>1, <1>2, <1>8, <2>1 DEF Parts, Headers
<1> QED
  BY <1>6, <1>7, <1>8 DEF Headers

LEMMA PartsLaw ==
  ASSUME NEW s \in Seq(Kinds)
  PROVE  /\ PartsOf(<<>>) = NoParts
         /\ PartsOf(s) \in Parts
         /\ \A x \in Kinds : PartsOf(Append(s, x)) = TakeLine[x][PartsOf(s)]
<1>1. NoParts \in Parts
  BY DEF NoParts, Parts
<1>2. TakeLine \in [Kinds -> [Parts -> Parts]]
  <2> DEFINE body(x, p) ==
               IF p.block # <<>> /\ x \notin Headers
                 THEN [p EXCEPT !.block = Append(@, x)]
               ELSE IF x = "hooks" THEN [CloseBlock(p) EXCEPT !.block = <<x>>]
               ELSE [CloseBlock(p) EXCEPT !.out = Append(@, x)]
  <2>1. TakeLine = [x \in Kinds |-> [p \in Parts |-> body(x, p)]]
    BY DEF TakeLine
  <2>2. \A x \in Kinds, p \in Parts : TakeLine[x][p] \in Parts
    BY TakeLaw
  <2> HIDE DEF body
  <2>3. \A x \in Kinds : TakeLine[x] = [p \in Parts |-> body(x, p)]
    BY <2>1
  <2>4. \A x \in Kinds : TakeLine[x] \in [Parts -> Parts]
    BY <2>2, <2>3
  <2> QED
    BY <2>1, <2>4
<1>3. Loop(Parts, Kinds, TakeLine, NoParts)
  BY <1>1, <1>2 DEF Loop
<1>4. /\ Fold(TakeLine, NoParts, <<>>) = NoParts
      /\ Fold(TakeLine, NoParts, s) \in Parts
      /\ \A x \in Kinds : Fold(TakeLine, NoParts, Append(s, x))
                            = TakeLine[x][Fold(TakeLine, NoParts, s)]
  BY <1>3, FoldLaw
<1> QED
  BY <1>4 DEF PartsOf

(* How the lines that stay are seen while a file is gone through: p are the*)
(* parts of the lines s, v is what is seen of s, w what is seen of the     *)
(* lines that stay.                                                        *)
Split(s, p, v, w) ==
  /\ w.own = v.own
  /\ Loads(w) = Without(v.behind, OurCommands)
  /\ p.block = <<>> => v.within = "out" /\ w.within = "out"
  /\ p.block # <<>> =>
       /\ v.within = CommandOf(p.block)
       /\ View(p.out \o p.block) =
            [behind |-> Loads(w), within |-> CommandOf(p.block), own |-> w.own]
  /\ Elements(v.behind) \cap OurCommands = {} => p.out \o p.block = s

Splits(s) == Split(s, PartsOf(s), View(s), View(PartsOf(s).out))

(* What is seen once the block is closed.                                  *)
LEMMA ClosedView ==
  ASSUME NEW s \in Seq(Kinds), Splits(s),
         NEW c, c = CloseBlock(PartsOf(s)).out
  PROVE  /\ c \in Seq(Kinds)
         /\ View(c).own = View(s).own
         /\ Loads(View(c)) = Without(Loads(View(s)), OurCommands)
         /\ Elements(Loads(View(s))) \cap OurCommands = {} => c = s
<1> DEFINE p == PartsOf(s)
           v == View(s)
           w == View(p.out)
           B == Commands \cup {"none"}
<1>1. p \in Parts /\ v \in Views
  BY PartsLaw, ViewLaw
<1>2. /\ p.out \in Seq(Kinds) /\ p.block \in Seq(Kinds) /\ c \in Seq(Kinds)
      /\ p.block = <<>> => c = p.out
      /\ CommandOf(p.block) \in OurCommands => c = TrimEnd(p.out)
      /\ CommandOf(p.block) \notin OurCommands => c = p.out \o p.block
  BY <1>1, CloseLaw
<1>3. v.behind \in Seq(B)
  BY <1>1 DEF Views
<1>4. w \in Views
  BY <1>2, ViewLaw
<1>5. Split(s, p, v, w)
  BY DEF Splits
<1>6. CASE p.block = <<>>
  <2>1. c = p.out /\ v.within = "out" /\ p.out \o p.block = p.out
    BY <1>2, <1>5, <1>6, ConcatLaw DEF Split
  <2>2. Loads(v) = v.behind
    BY <2>1 DEF Loads
  <2> HIDE DEF p, v, w
  <2>3. View(c) = w
    BY <2>1 DEF w
  <2> QED
    BY <1>2, <1>5, <2>1, <2>2, <2>3 DEF Split, v
<1>7. CASE p.block # <<>>
  <2>1. /\ v.within = CommandOf(p.block)
        /\ View(p.out \o p.block) =
             [behind |-> Loads(w), within |-> CommandOf(p.block), own |-> w.own]
    BY <1>5, <1>7 DEF Split
  <2>2. CommandOf(p.block) \in B /\ "out" \notin B
    <3>1. "blank" \in Kinds /\ "out" \notin B
      BY DEF Kinds, Commands
    <3> QED
      BY <1>2, <3>1, CommandLaw
  <2>3. Loads(v) = Append(v.behind, CommandOf(p.block))
    BY <2>1, <2>2 DEF Loads
  <2>4. /\ Without(Loads(v), OurCommands) =
             IF CommandOf(p.block) \in OurCommands THEN Without(v.behind, OurCommands)
             ELSE Append(Without(v.behind, OurCommands), CommandOf(p.block))
        /\ Elements(Loads(v)) = Elements(v.behind) \cup {CommandOf(p.block)}
    <3>1. \A b \in Seq(B), x \in B :
            Without(Append(b, x), OurCommands) =
              IF x \in OurCommands THEN Without(b, OurCommands)
              ELSE Append(Without(b, OurCommands), x)
      BY WithoutLaw
    <3>2. \A b \in Seq(B), x \in B : Elements(Append(b, x)) = Elements(b) \cup {x}
      BY ElementsLaw
    <3> HIDE DEF v, p, B
    <3> QED
      BY <1>3, <2>2, <2>3, <3>1, <3>2
  <2>5. CASE CommandOf(p.block) \in OurCommands
    <3>1. View(c) = w
      BY <1>2, <2>5, TrimView
    <3> QED
      BY <1>2, <1>5, <2>4, <2>5, <3>1 DEF Split
  <2>6. CASE CommandOf(p.block) \notin OurCommands
    <3>1. View(c) = [behind |-> Loads(w), within |-> CommandOf(p.block), own |-> w.own]
      BY <1>2, <2>1, <2>6
    <3>2. Loads(View(c)) = Append(Loads(w), CommandOf(p.block)) /\ View(c).own = w.own
      BY <2>2, <3>1 DEF Loads
    <3> QED
      BY <1>2, <1>5, <2>4, <2>6, <3>2 DEF Split
  <2> QED
    BY <2>5, <2>6
<1> QED
  BY <1>6, <1>7

LEMMA SplitStep ==
  ASSUME NEW s \in Seq(Kinds), Splits(s), NEW x \in Kinds
  PROVE  Splits(Append(s, x))
<1> DEFINE t == Append(s, x)
           p == PartsOf(s)
           q == PartsOf(t)
           v == View(s)
           c == CloseBlock(p).out
           B == Commands \cup {"none"}
<1>1. /\ p \in Parts /\ v \in Views /\ t \in Seq(Kinds)
      /\ q = TakeLine[x][p] /\ View(t) = SeeLine[x][v]
  BY PartsLaw, ViewLaw
<1>2. /\ p.out \in Seq(Kinds) /\ p.block \in Seq(Kinds)
      /\ v.behind \in Seq(B) /\ v.own \in Seq(Kinds) /\ Loads(v) \in Seq(B)
  BY <1>1, SeeLaw DEF Parts, Views
<1>3. /\ c \in Seq(Kinds)
      /\ View(c).own = v.own
      /\ Loads(View(c)) = Without(Loads(v), OurCommands)
      /\ Elements(Loads(v)) \cap OurCommands = {} => c = s
      /\ View(c) \in Views
  <2>1. c \in Seq(Kinds)
    BY <1>1, CloseLaw
  <2>2. View(c) \in Views
    BY <2>1, ViewLaw
  <2> HIDE DEF c
  <2> QED
    BY <2>1, <2>2, ClosedView DEF c
<1>4. /\ "hooks" \in Kinds /\ "hooks" \in Headers /\ "hooks" # "section" /\ "out" \notin B
      /\ "section" \in Headers /\ \A h \in Headers : h \in {"hooks", "section"}
  BY DEF Kinds, Headers, Commands
<1>5. CASE p.block # <<>> /\ x \notin Headers
  <2>1. q = [out |-> p.out, block |-> Append(p.block, x)]
    BY <1>1, <1>5, TakeLaw
  <2>a. \A b \in Seq(Kinds) : Append(b, x) # <<>>
    <3>1. \A b \in Seq(Kinds) : Len(Append(b, x)) = Len(b) + 1 /\ Len(b) \in Nat
      OBVIOUS
    <3>2. Len(<<>>) = 0
      OBVIOUS
    <3> QED
      BY <3>1, <3>2
  <2>2. q.out = p.out /\ q.block = Append(p.block, x) /\ q.block # <<>>
    <3> HIDE DEF p, q
    <3>1. q.out = p.out /\ q.block = Append(p.block, x)
      BY <2>1
    <3> QED
      BY <1>2, <2>a, <3>1
  <2>b. \A u \in Views : u.within # "out" =>
          SeeLine[x][u] = [behind |-> u.behind, own |-> u.own,
                           within |-> IF x \in Commands /\ u.within = "none" THEN x ELSE u.within]
    BY <1>5, SeeLaw
  <2>3. /\ v.within = CommandOf(p.block)
        /\ View(p.out \o p.block) =
             [behind |-> Loads(View(p.out)), within |-> CommandOf(p.block), own |-> View(p.out).own]
    BY <1>5 DEF Splits, Split
  <2>4. CommandOf(p.block) \in B
    BY <1>2, CommandLaw
  <2>5. View(t) = [behind |-> v.behind, own |-> v.own,
                   within |-> IF x \in Commands /\ v.within = "none" THEN x ELSE v.within]
    <3> HIDE DEF v, t, p
    <3> QED
      BY <1>1, <1>4, <2>3, <2>4, <2>b
  <2>6. CommandOf(q.block) =
          IF x \in Commands /\ CommandOf(p.block) = "none" THEN x ELSE CommandOf(p.block)
    BY <1>2, <2>2, CommandLaw
  <2>7. q.out \o q.block = Append(p.out \o p.block, x) /\ p.out \o p.block \in Seq(Kinds)
    <3>1. \A a \in Seq(Kinds), b \in Seq(Kinds) :
            a \o Append(b, x) = Append(a \o b, x) /\ a \o b \in Seq(Kinds)
      OBVIOUS
    <3> HIDE DEF p, q
    <3> QED
      BY <1>2, <2>2, <3>1
  <2>8. View(q.out \o q.block) =
          [behind |-> Loads(View(p.out)), within |-> CommandOf(q.block), own |-> View(p.out).own]
    <3> DEFINE d == View(p.out \o p.block)
    <3>1. d \in Views /\ View(q.out \o q.block) = SeeLine[x][d]
      BY <2>7, ViewLaw
    <3>2. d.within = CommandOf(p.block) /\ d.behind = Loads(View(p.out)) /\ d.own = View(p.out).own
      BY <2>3
    <3>3. SeeLine[x][d] = [behind |-> d.behind, own |-> d.own,
                           within |-> IF x \in Commands /\ d.within = "none" THEN x ELSE d.within]
      <4> HIDE DEF d
      <4> QED
        BY <1>4, <2>4, <2>b, <3>1, <3>2
    <3> HIDE DEF d
    <3> QED
      BY <2>6, <3>1, <3>2, <3>3
  <2>9. Split(s, p, v, View(p.out))
    BY DEF Splits
  <2>10. Split(t, q, View(t), View(q.out))
    <3> HIDE DEF p, q, v, t
    <3>1. View(t).within = CommandOf(q.block) /\ View(t).behind = v.behind /\ View(t).own = v.own
      BY <2>3, <2>5, <2>6
    <3>2. p.out \o p.block = s => q.out \o q.block = t
      BY <2>7 DEF t
    <3> QED
      BY <2>2, <2>8, <2>9, <3>1, <3>2 DEF Split
  <2> QED
    BY <2>10 DEF Splits
<1>6. CASE x = "hooks"
  <2>1. q = [out |-> c, block |-> <<x>>]
    BY <1>1, <1>6, TakeLaw
  <2>2. q.out = c /\ q.block = <<x>> /\ q.block # <<>>
    BY <2>1
  <2>3. View(t) = [behind |-> Loads(v), within |-> "none", own |-> v.own]
    BY <1>1, <1>6, SeeLaw
  <2>4. CommandOf(q.block) = "none"
    <3>1. <<>> \in Seq(Kinds) /\ x \notin Commands /\ q.block = Append(<<>>, x)
      BY <1>6, <2>2 DEF Commands
    <3>2. CommandOf(<<>>) = "none"
      BY <1>2, CommandLaw
    <3>3. \A b \in Seq(Kinds) : CommandOf(Append(b, x)) =
            IF x \in Commands /\ CommandOf(b) = "none" THEN x ELSE CommandOf(b)
      BY CommandLaw
    <3> HIDE DEF q
    <3> QED
      BY <3>1, <3>2, <3>3
  <2>5. c \o <<x>> = Append(c, x)
    BY <1>3
  <2>6. View(q.out \o q.block) = [behind |-> Loads(View(c)), within |-> "none", own |-> View(c).own]
    <3>1. View(Append(c, x)) = SeeLine[x][View(c)]
      BY <1>3, ViewLaw
    <3>2. \A u \in Views :
            SeeLine[x][u] = [behind |-> Loads(u), within |-> "none", own |-> u.own]
      BY <1>6, SeeLaw
    <3> HIDE DEF c, q
    <3> QED
      BY <1>3, <2>2, <2>5, <3>1, <3>2
  <2>7. Split(t, q, View(t), View(q.out))
    <3> HIDE DEF p, q, v, c
    <3> QED
      BY <1>3, <2>2, <2>3, <2>4, <2>5, <2>6 DEF Split
  <2> QED
    BY <2>7 DEF Splits
<1>7. CASE x = "section"
  <2>1. q = [out |-> Append(c, x), block |-> <<>>]
    BY <1>1, <1>4, <1>7, TakeLaw
  <2>2. q.out = Append(c, x) /\ q.block = <<>>
    BY <2>1
  <2>3. View(t) = [behind |-> Loads(v), within |-> "out", own |-> Append(v.own, x)]
    BY <1>1, <1>7, SeeLaw
  <2>4. View(q.out) = [behind |-> Loads(View(c)), within |-> "out", own |-> Append(View(c).own, x)]
    <3>1. View(Append(c, x)) = SeeLine[x][View(c)]
      BY <1>3, ViewLaw
    <3> HIDE DEF c, q
    <3> QED
      BY <1>3, <1>7, <2>2, <3>1, SeeLaw
  <2>5. q.out \o q.block = Append(c, x)
    BY <1>3, <2>2
  <2>6. Loads(View(q.out)) = Loads(View(c))
    BY <2>4 DEF Loads
  <2>7. Split(t, q, View(t), View(q.out))
    <3> HIDE DEF p, q, v, c
    <3> QED
      BY <1>3, <2>2, <2>3, <2>4, <2>5, <2>6 DEF Split
  <2> QED
    BY <2>7 DEF Splits
<1>8. CASE p.block = <<>> /\ x \notin Headers
  <2>1. q = [out |-> Append(c, x), block |-> <<>>] /\ c = p.out
    BY <1>1, <1>4, <1>8, TakeLaw, CloseLaw
  <2>2. q.out = Append(p.out, x) /\ q.block = <<>>
    BY <2>1
  <2>3. Split(s, p, v, View(p.out))
    BY DEF Splits
  <2>4. v.within = "out" /\ View(p.out).within = "out"
    BY <1>8, <2>3 DEF Split
  <2>b. \A u \in Views : u.within = "out" =>
          SeeLine[x][u] =
            [behind |-> u.behind, within |-> "out",
             own |-> IF x \in {"blank", "flag", "tight"} THEN u.own ELSE Append(u.own, x)]
    BY <1>8, SeeLaw
  <2>5. View(t) = [behind |-> v.behind, within |-> "out",
                   own |-> IF x \in {"blank", "flag", "tight"} THEN v.own ELSE Append(v.own, x)]
    <3> HIDE DEF v, t, p
    <3> QED
      BY <1>1, <2>4, <2>b
  <2>6. View(q.out) =
          [behind |-> View(p.out).behind, within |-> "out",
           own |-> IF x \in {"blank", "flag", "tight"} THEN View(p.out).own
                   ELSE Append(View(p.out).own, x)]
    <3>1. View(Append(p.out, x)) = SeeLine[x][View(p.out)] /\ View(p.out) \in Views
      BY <1>2, ViewLaw
    <3>2. \A u \in Views : u.within = "out" =>
            SeeLine[x][u] =
              [behind |-> u.behind, within |-> "out",
               own |-> IF x \in {"blank", "flag", "tight"} THEN u.own ELSE Append(u.own, x)]
      BY <1>8, SeeLaw
    <3> HIDE DEF p, q
    <3> QED
      BY <2>2, <2>4, <3>1, <3>2
  <2>7. Loads(View(q.out)) = Loads(View(p.out))
    BY <2>4, <2>6 DEF Loads
  <2>8. q.out \o q.block = Append(p.out, x) /\ p.out \o p.block = p.out
    BY <1>2, <1>8, <2>2
  <2>9. Split(t, q, View(t), View(q.out))
    <3> HIDE DEF p, q, v
    <3> QED
      BY <2>2, <2>3, <2>5, <2>6, <2>7, <2>8 DEF Split
  <2> QED
    BY <2>9 DEF Splits
<1> QED
  BY <1>4, <1>5, <1>6, <1>7, <1>8

LEMMA AlwaysSplits == \A s \in Seq(Kinds) : Splits(s)
<1> DEFINE P == {s \in Seq(Kinds) : Splits(s)}
<1>1. <<>> \in P
  <2>1. <<>> \in Seq(Kinds) /\ <<>> \o <<>> = <<>>
    OBVIOUS
  <2>2. PartsOf(<<>>) = NoParts /\ View(<<>>) = NothingSeen
    BY <2>1, PartsLaw, ViewLaw
  <2>3. NoParts.out = <<>> /\ NoParts.block = <<>>
    BY DEF NoParts
  <2>4. NothingSeen.behind = <<>> /\ NothingSeen.within = "out" /\ NothingSeen.own = <<>>
    BY DEF NothingSeen
  <2>5. Without(<<>>, OurCommands) = <<>>
    BY <2>1, WithoutLaw
  <2>6. Loads(NothingSeen) = <<>>
    BY <2>4 DEF Loads
  <2>7. Split(<<>>, NoParts, NothingSeen, NothingSeen)
    BY <2>1, <2>3, <2>4, <2>5, <2>6 DEF Split
  <2> QED
    BY <2>1, <2>2, <2>3, <2>7 DEF Splits
<1>2. ASSUME NEW s \in Seq(Kinds), NEW x \in Kinds, s \in P PROVE Append(s, x) \in P
  <2>1. Splits(Append(s, x)) /\ Append(s, x) \in Seq(Kinds)
    BY <1>2, SplitStep
  <2> QED
    BY <2>1
<1>3. Seq(Kinds) \subseteq P
  <2> HIDE DEF P
  <2> QED
    BY <1>1, <1>2, ListInduction
<1> QED
  BY <1>3

(* Taking our blocks out leaves the user's blocks and lines, and what has  *)
(* none of ours stays as it is.                                            *)
LEMMA StripLaw ==
  ASSUME NEW s \in Seq(Kinds)
  PROVE  /\ StripNsHookBlocks(s) \in Seq(Kinds)
         /\ UserLines(StripNsHookBlocks(s)) = UserLines(s)
         /\ Loaded(StripNsHookBlocks(s)) = UserBlocks(s)
         /\ Elements(Loaded(s)) \cap OurCommands = {} => StripNsHookBlocks(s) = s
<1>1. StripNsHookBlocks(s) = CloseBlock(PartsOf(s)).out
  BY DEF StripNsHookBlocks, PartsOf
<1>2. Splits(s)
  BY AlwaysSplits
<1> QED
  BY <1>1, <1>2, ClosedView DEF UserLines, UserBlocks, Loaded

LEMMA TemplateLines ==
  ASSUME NEW b \in Seq(Kinds), NEW n \in OurCommands
  PROVE  /\ n \in Kinds /\ n \in Commands /\ n \notin Headers
         /\ "hooks" \in Kinds /\ "blank" \in Kinds
         /\ Template(n) \in Seq(Kinds)
         /\ b \o Template(n) =
              Append(Append(Append(Append(Append(b, "hooks"), n), "blank"), "hooks"), n)
<1>1. /\ n \in Kinds /\ n \in Commands /\ n \notin Headers
      /\ "hooks" \in Kinds /\ "blank" \in Kinds
  BY DEF Kinds, OurCommands, Commands, Headers
<1>2. Template(n) \in Seq(Kinds)
  BY <1>1 DEF Template
<1>3. b \o <<"hooks", n, "blank", "hooks", n>> =
        Append(Append(Append(Append(Append(b, "hooks"), n), "blank"), "hooks"), n)
  BY <1>1
<1> QED
  BY <1>1, <1>2, <1>3 DEF Template

LEMMA TemplateView ==
  ASSUME NEW b \in Seq(Kinds), NEW n \in OurCommands
  PROVE  View(b \o Template(n)) =
           [behind |-> Append(Loads(View(b)), n), within |-> n, own |-> View(b).own]
<1> DEFINE b1 == Append(b, "hooks")
           b2 == Append(b1, n)
           b3 == Append(b2, "blank")
           b4 == Append(b3, "hooks")
           b5 == Append(b4, n)
           w(l, c) == [behind |-> l, within |-> c, own |-> View(b).own]
<1>1. /\ n \in Kinds /\ n \in Commands /\ n \notin Headers
      /\ "hooks" \in Kinds /\ "blank" \in Kinds
      /\ b \o Template(n) = b5
  BY TemplateLines
<1>2. n # "none" /\ n # "out"
  BY DEF OurCommands
<1>3. /\ b1 \in Seq(Kinds) /\ b2 \in Seq(Kinds) /\ b3 \in Seq(Kinds) /\ b4 \in Seq(Kinds)
  BY <1>1
<1>4. /\ \A u \in Views : SeeLine["hooks"][u] = w(Loads(u), "none") \/ u.own # View(b).own
      /\ \A u \in Views : u.within = "none" =>
           SeeLine[n][u] = w(u.behind, n) \/ u.own # View(b).own
  <2>1. \A u \in Views :
          SeeLine["hooks"][u] = [behind |-> Loads(u), within |-> "none", own |-> u.own]
    BY <1>1, SeeLaw
  <2>2. \A u \in Views : u.within = "none" =>
          SeeLine[n][u] = [behind |-> u.behind, own |-> u.own, within |-> n]
    BY <1>1, SeeLaw
  <2> QED
    BY <2>1, <2>2
<1>5. /\ View(b) \in Views /\ View(b1) \in Views /\ View(b2) \in Views
      /\ View(b3) \in Views /\ View(b4) \in Views
      /\ View(b1) = SeeLine["hooks"][View(b)] /\ View(b2) = SeeLine[n][View(b1)]
      /\ View(b3) = View(b2)
      /\ View(b4) = SeeLine["hooks"][View(b3)] /\ View(b5) = SeeLine[n][View(b4)]
  <2>1. \A a \in Seq(Kinds) : View(a) \in Views /\ \A x \in Kinds : View(Append(a, x)) = SeeLine[x][View(a)]
    BY ViewLaw
  <2>2. View(b3) = View(b2)
    BY <1>3, UnseenLine
  <2> HIDE DEF b1, b2, b3, b4, b5
  <2> QED
    BY <1>1, <1>3, <2>1, <2>2 DEF b1, b2, b3, b4, b5
<1> HIDE DEF b1, b2, b3, b4, b5
<1>6. View(b1) = w(Loads(View(b)), "none")
  BY <1>4, <1>5
<1>7. View(b2) = w(Loads(View(b)), n)
  BY <1>4, <1>5, <1>6
<1>8. Loads(View(b3)) = Append(Loads(View(b)), n)
  BY <1>2, <1>5, <1>7 DEF Loads
<1>9. View(b4) = w(Append(Loads(View(b)), n), "none")
  BY <1>4, <1>5, <1>7, <1>8
<1>10. View(b5) = w(Append(Loads(View(b)), n), n)
  BY <1>4, <1>5, <1>9
<1> QED
  BY <1>1, <1>10

(* What ends in the template loses it, and the blank lines before it.      *)
LEMMA StripTemplate ==
  ASSUME NEW b \in Seq(Kinds), NEW n \in OurCommands,
         Elements(Loaded(b)) \cap OurCommands = {}
  PROVE  StripNsHookBlocks(b \o Template(n)) = TrimEnd(b)
<1> DEFINE b1 == Append(b, "hooks")
           b2 == Append(b1, n)
           b3 == Append(b2, "blank")
           b4 == Append(b3, "hooks")
           b5 == Append(b4, n)
           o(l, c) == [out |-> l, block |-> c]
           B1 == <<"hooks">>
           B2 == Append(B1, n)
           B3 == Append(B2, "blank")
<1>1. /\ n \in Kinds /\ n \in Commands /\ n \notin Headers
      /\ "hooks" \in Kinds /\ "blank" \in Kinds
      /\ b \o Template(n) = b5
  BY TemplateLines
<1>2. "blank" \notin Headers /\ "blank" \notin Commands /\ "hooks" \notin Commands /\ "hooks" \in Headers
  BY DEF Headers, Commands
<1>3. b1 \in Seq(Kinds) /\ b2 \in Seq(Kinds) /\ b3 \in Seq(Kinds) /\ b4 \in Seq(Kinds) /\ b5 \in Seq(Kinds)
  BY <1>1
<1>4. /\ PartsOf(b1) = TakeLine["hooks"][PartsOf(b)] /\ PartsOf(b2) = TakeLine[n][PartsOf(b1)]
      /\ PartsOf(b3) = TakeLine["blank"][PartsOf(b2)]
      /\ PartsOf(b4) = TakeLine["hooks"][PartsOf(b3)] /\ PartsOf(b5) = TakeLine[n][PartsOf(b4)]
      /\ PartsOf(b) \in Parts /\ PartsOf(b1) \in Parts /\ PartsOf(b2) \in Parts
      /\ PartsOf(b3) \in Parts /\ PartsOf(b4) \in Parts /\ PartsOf(b5) \in Parts
  <2>1. \A a \in Seq(Kinds) : PartsOf(a) \in Parts /\ \A x \in Kinds : PartsOf(Append(a, x)) = TakeLine[x][PartsOf(a)]
    BY PartsLaw
  <2> HIDE DEF b1, b2, b3, b4, b5
  <2> QED
    BY <1>1, <1>3, <2>1 DEF b1, b2, b3, b4, b5
<1>5. CloseBlock(PartsOf(b)).out = b
  BY StripLaw DEF StripNsHookBlocks, PartsOf
<1>6. CommandOf(B2) = n /\ CommandOf(B3) = n /\ <<"hooks">> # <<>> /\ B2 # <<>>
  <2>1. <<>> \in Seq(Kinds) /\ <<"hooks">> \in Seq(Kinds) /\ B2 \in Seq(Kinds) /\ <<"hooks">> = Append(<<>>, "hooks")
    BY <1>1
  <2>2. \A a \in Seq(Kinds), x \in Kinds :
          CommandOf(Append(a, x)) = IF x \in Commands /\ CommandOf(a) = "none" THEN x ELSE CommandOf(a)
    BY CommandLaw
  <2>3. CommandOf(<<>>) = "none"
    BY <1>1, CommandLaw
  <2>4. CommandOf(<<"hooks">>) = "none"
    BY <1>1, <1>2, <2>1, <2>2, <2>3
  <2>5. Len(<<>>) = 0 /\ Len(<<"hooks">>) = 1 /\ Len(B2) = 2
    BY <1>1
  <2>6. CommandOf(B2) = n
    BY <1>1, <2>1, <2>2, <2>4
  <2>7. CommandOf(B3) = n
    <3> HIDE DEF B2
    <3> QED
      BY <1>1, <1>2, <2>1, <2>2, <2>6
  <2> QED
    BY <2>5, <2>6, <2>7
<1>7. /\ \A p \in Parts : TakeLine["hooks"][p] = o(CloseBlock(p).out, <<"hooks">>)
      /\ \A p \in Parts, x \in {n, "blank"} : p.block # <<>> => TakeLine[x][p] = o(p.out, Append(p.block, x))
      /\ \A p \in Parts : CommandOf(p.block) = n => CloseBlock(p).out = TrimEnd(p.out)
  <2>1. \A p \in Parts : TakeLine["hooks"][p] = o(CloseBlock(p).out, <<"hooks">>)
    BY <1>1, TakeLaw
  <2>2. \A p \in Parts, x \in {n, "blank"} : p.block # <<>> => TakeLine[x][p] = o(p.out, Append(p.block, x))
    BY <1>1, <1>2, TakeLaw
  <2>3. \A p \in Parts : CommandOf(p.block) = n => CloseBlock(p).out = TrimEnd(p.out)
    BY CloseLaw
  <2> QED
    BY <2>1, <2>2, <2>3
<1> HIDE DEF b1, b2, b3, b4, b5
<1>t. ASSUME NEW p \in Parts, NEW d, NEW k, p = o(d, k), k # <<>>, NEW x \in {n, "blank"}
      PROVE  TakeLine[x][p] = o(d, Append(k, x))
  <2>1. p.out = d /\ p.block = k
    BY <1>t
  <2> QED
    BY <1>7, <1>t, <2>1
<1>8. PartsOf(b1) = o(b, B1)
  BY <1>4, <1>5, <1>7
<1>9. PartsOf(b2) = o(b, B2)
  <2>1. B1 # <<>> /\ n \in {n, "blank"}
    BY <1>6
  <2>2. PartsOf(b1) \in Parts /\ PartsOf(b2) = TakeLine[n][PartsOf(b1)]
    BY <1>4
  <2> HIDE DEF B1
  <2>3. TakeLine[n][PartsOf(b1)] = o(b, Append(B1, n))
    BY <1>8, <1>t, <2>1, <2>2, Zenon
  <2> QED
    BY <2>2, <2>3
<1>10. PartsOf(b3) = o(b, B3)
  <2>1. B2 # <<>> /\ "blank" \in {n, "blank"}
    BY <1>6
  <2>2. PartsOf(b2) \in Parts /\ PartsOf(b3) = TakeLine["blank"][PartsOf(b2)]
    BY <1>4
  <2> HIDE DEF B2
  <2>3. TakeLine["blank"][PartsOf(b2)] = o(b, Append(B2, "blank"))
    BY <1>9, <1>t, <2>1, <2>2, Zenon
  <2> QED
    BY <2>2, <2>3
<1>11. PartsOf(b4) = o(TrimEnd(b), <<"hooks">>)
  <2> HIDE DEF B3
  <2> QED
    BY <1>4, <1>6, <1>7, <1>10
<1>12. PartsOf(b5) = o(TrimEnd(b), B2)
  BY <1>4, <1>6, <1>11, <1>t
<1>13. CloseBlock(PartsOf(b5)).out = TrimEnd(TrimEnd(b))
  <2> HIDE DEF B2
  <2> QED
    BY <1>4, <1>6, <1>7, <1>12
<1> QED
  BY <1>1, <1>13, TrimTwice DEF StripNsHookBlocks, PartsOf

(* What the composed file has: the user's lines and blocks in their order, *)
(* then our blocks, once; and it is what it composes to.                   *)
LEMMA ComposeLaw ==
  ASSUME NEW s \in Seq(Kinds), NEW n \in OurCommands, NEW c, c = ComposeVibeHooks(s, n)
  PROVE  /\ c \in Seq(Kinds)
         /\ UserLines(c) = UserLines(s)
         /\ UserBlocks(c) = UserBlocks(s)
         /\ BlocksWired(c, n)
         /\ ComposeVibeHooks(c, n) = c
<1> DEFINE B == Commands \cup {"none"}
           base == TrimEnd(StripNsHookBlocks(s))
           head == IF base = <<>> THEN <<>> ELSE Append(base, "blank")
           L == Loads(View(head))
<1>1. "blank" \in Kinds /\ "out" \notin B /\ OurCommands \subseteq B /\ n # "out"
  BY DEF Kinds, Commands, OurCommands
<1>2. StripNsHookBlocks(s) \in Seq(Kinds) /\ base \in Seq(Kinds)
  BY <1>1, StripLaw, TrimLaw
<1>3. head \in Seq(Kinds)
  BY <1>1, <1>2
<1>4. Template(n) \in Seq(Kinds) /\ c = head \o Template(n)
  <2>1. Template(n) \in Seq(Kinds)
    BY <1>2, TemplateLines
  <2>2. <<>> \o Template(n) = Template(n) /\ base \o <<"blank">> = Append(base, "blank")
    BY <1>1, <1>2, <2>1, ConcatLaw
  <2> HIDE DEF base
  <2> QED
    BY <2>1, <2>2 DEF ComposeVibeHooks, base
<1>5. TrimEnd(base) = base /\ TrimEnd(head) = base
  <2>1. TrimEnd(base) = base
    BY <1>2, TrimTwice
  <2>2. TrimEnd(Append(base, "blank")) = TrimEnd(base)
    <3> HIDE DEF base
    <3> QED
      BY <1>1, <1>2, TrimLaw
  <2> HIDE DEF base
  <2> QED
    BY <2>1, <2>2
<1>6. View(head) = View(StripNsHookBlocks(s))
  <2>1. View(base) = View(StripNsHookBlocks(s))
    BY <1>2, TrimView
  <2>2. View(Append(base, "blank")) = View(base)
    <3> HIDE DEF base
    <3> QED
      BY <1>2, UnseenLine
  <2> HIDE DEF base
  <2> QED
    BY <2>1, <2>2
<1>7. /\ View(head).own = UserLines(s)
      /\ L = UserBlocks(s) /\ L = Loaded(head)
  BY <1>6, StripLaw DEF UserLines, Loaded
<1>8. L \in Seq(B) /\ Elements(L) \cap OurCommands = {}
  <2>1. View(s) \in Views /\ "blank" \in Kinds
    BY <1>1, ViewLaw
  <2>2. Loaded(s) \in Seq(B)
    BY <2>1, SeeLaw DEF Loaded
  <2>3. Without(Loaded(s), OurCommands) \in Seq(B)
    BY <2>2, WithoutLaw
  <2>4. Elements(Without(Loaded(s), OurCommands)) = Elements(Loaded(s)) \ OurCommands
    BY <2>2, WithoutElements
  <2> HIDE DEF L
  <2> QED
    BY <1>7, <2>3, <2>4 DEF UserBlocks
<1> HIDE DEF head, base
<1>9. View(c) = [behind |-> Append(L, n), within |-> n, own |-> View(head).own]
  BY <1>3, <1>4, TemplateView
<1>10. Loaded(c) = Append(Append(L, n), n) /\ UserLines(c) = UserLines(s)
  BY <1>1, <1>7, <1>9 DEF Loaded, Loads, UserLines
<1>11. UserBlocks(c) = UserBlocks(s)
  <2>1. Append(L, n) \in Seq(B)
    BY <1>1, <1>8
  <2>2. \A a \in Seq(B) : Without(Append(a, n), OurCommands) = Without(a, OurCommands)
    BY <1>1, WithoutLaw
  <2>3. Without(L, OurCommands) = L
    BY <1>8, WithoutElements
  <2> HIDE DEF L
  <2> QED
    BY <1>7, <1>8, <1>10, <2>1, <2>2, <2>3 DEF UserBlocks
<1>12. BlocksWired(c, n)
  <2> DEFINE loaded == Append(Append(L, n), n)
             m == Len(L)
             ours == {i \in 1 .. Len(loaded) : loaded[i] \in OurCommands}
  <2>1. /\ m \in Nat /\ Len(loaded) = m + 2
        /\ loaded[m + 1] = n /\ loaded[m + 2] = n
        /\ \A i \in 1 .. m : loaded[i] = L[i]
    <3> HIDE DEF L
    <3>1. L \in Seq(B) /\ n \in B
      BY <1>1, <1>8
    <3> QED
      BY <3>1
  <2>2. \A i \in 1 .. m : L[i] \notin OurCommands
    BY <1>8 DEF Elements
  <2> HIDE DEF L, loaded, m
  <2>3. ours = {m + 1, m + 2}
    BY <2>1, <2>2
  <2>4. Cardinality({m + 1, m + 2}) = 2
    <3>1. IsFiniteSet({m + 1}) /\ Cardinality({m + 1}) = 1
      BY FS_Singleton
    <3>2. m + 2 \notin {m + 1}
      BY <2>1
    <3>3. Cardinality({m + 1} \cup {m + 2}) = 1 + 1
      BY <3>1, <3>2, FS_AddElement
    <3>4. {m + 1} \cup {m + 2} = {m + 1, m + 2}
      OBVIOUS
    <3> QED
      BY <3>3, <3>4
  <2>5. Cardinality(ours) = 2 /\ \A i \in ours : loaded[i] = n
    BY <2>1, <2>3, <2>4
  <2> QED
    BY <1>10, <2>5 DEF BlocksWired, loaded
<1>13. ComposeVibeHooks(c, n) = c
  <2>1. StripNsHookBlocks(c) = base
    BY <1>3, <1>4, <1>5, <1>7, <1>8, StripTemplate
  <2>2. TrimEnd(StripNsHookBlocks(c)) = TrimEnd(StripNsHookBlocks(s))
    BY <1>5, <2>1 DEF base
  <2> QED
    BY <2>2 DEF ComposeVibeHooks
<1>14. c \in Seq(Kinds)
  BY <1>3, <1>4
<1> QED
  BY <1>10, <1>11, <1>12, <1>13, <1>14

(***************************************************************************)
(* The flag, the rules and the groups                                      *)
(***************************************************************************)

(* Taking the flag out.                                                    *)
LEMMA RemoveLaw ==
  ASSUME NEW s \in Seq(Kinds), NEW r, r = RemoveVibeFlag(s)
  PROVE  r \in Seq(Kinds) /\ View(r) = View(s) /\ RemoveVibeFlag(r) = r /\ FlagGone(r)
<1> DEFINE F == {"flag", "tight"}
           P == {t \in Seq(Kinds) : View(Without(t, F)) = View(t)}
<1>1. <<>> \in P
  <2>1. <<>> \in Seq(Kinds)
    OBVIOUS
  <2>2. Without(<<>>, F) = <<>>
    BY <2>1, WithoutLaw
  <2> QED
    BY <2>1, <2>2
<1>2. ASSUME NEW t \in Seq(Kinds), NEW x \in Kinds, t \in P PROVE Append(t, x) \in P
  <2>1. Without(t, F) \in Seq(Kinds) /\ Append(t, x) \in Seq(Kinds)
    BY WithoutLaw
  <2>2. Without(Append(t, x), F) = IF x \in F THEN Without(t, F) ELSE Append(Without(t, F), x)
    BY WithoutLaw
  <2>3. x \in F => View(Append(t, x)) = View(t)
    BY UnseenLine
  <2>4. View(Append(Without(t, F), x)) = SeeLine[x][View(Without(t, F))] /\ View(Append(t, x)) = SeeLine[x][View(t)]
    <3>1. \A a \in Seq(Kinds) : View(Append(a, x)) = SeeLine[x][View(a)]
      BY ViewLaw
    <3> QED
      BY <2>1, <3>1
  <2> QED
    BY <1>2, <2>1, <2>2, <2>3, <2>4
<1>3. Seq(Kinds) \subseteq P
  <2> HIDE DEF P
  <2> QED
    BY <1>1, <1>2, ListInduction
<1>4. r \in Seq(Kinds) /\ Elements(r) \cap F = {}
  <2>1. Without(s, F) \in Seq(Kinds) /\ Elements(Without(s, F)) = Elements(s) \ F
    BY WithoutLaw, WithoutElements
  <2> QED
    BY <2>1 DEF RemoveVibeFlag
<1>5. Without(r, F) = r
  BY <1>4, WithoutElements
<1>6. View(r) = View(s)
  BY <1>3 DEF RemoveVibeFlag
<1>7. FlagGone(r)
  BY <1>4 DEF FlagGone, Elements
<1> QED
  BY <1>4, <1>5, <1>6, <1>7 DEF RemoveVibeFlag

(* Putting it in.                                                          *)
LEMMA InsertLaw ==
  ASSUME NEW s \in Seq(Kinds), NEW c, c = InsertVibeFlag(s)
  PROVE  c \in Seq(Kinds) /\ View(c) = View(s) /\ InsertVibeFlag(c) = c
<1> DEFINE heads == {i \in 1 .. Len(s) : s[i] \in Headers}
           there(t) == \E i \in 1 .. Len(t) : t[i] \in {"flag", "noted"}
<1>1. "flag" \in Kinds /\ "blank" \in Kinds
  BY DEF Kinds
<1>2. \A t : there(t) => InsertVibeFlag(t) = t
  BY DEF InsertVibeFlag
<1>3. CASE there(s)
  BY <1>2, <1>3
<1>4. CASE ~there(s) /\ heads # {}
  <2> DEFINE m == Min(heads)
             a == SubSeq(s, 1, m - 1)
             b == SubSeq(s, m, Len(s))
  <2>1. m \in 1 .. Len(s)
    <3>1. heads \in SUBSET Nat /\ heads \subseteq 1 .. Len(s)
      OBVIOUS
    <3> HIDE DEF heads
    <3> QED
      BY <1>4, <3>1, LeastOf
  <2>2. c = InsertAt(s, m, "flag")
    BY <1>4 DEF InsertVibeFlag
  <2> HIDE DEF m
  <2>3. a \in Seq(Kinds) /\ b \in Seq(Kinds) /\ s = a \o b
    BY <2>1
  <2>4. c = (a \o <<"flag">>) \o b
    BY <2>2 DEF InsertAt
  <2> HIDE DEF a, b
  <2>5. a \o <<"flag">> = Append(a, "flag") /\ Append(a, "flag") \in Seq(Kinds)
    BY <1>1, <2>3
  <2>6. View(Append(a, "flag")) = View(a)
    BY <2>3, UnseenLine
  <2>7. View(c) = View(s)
    <3> DEFINE a2 == Append(a, "flag")
    <3>1. a2 \in Seq(Kinds) /\ View(a2) = View(a)
      BY <2>5, <2>6
    <3> HIDE DEF a2
    <3>2. View(a2 \o b) = View(a \o b)
      BY <2>3, <3>1, SameView
    <3> QED
      BY <2>3, <2>4, <2>5, <3>2 DEF a2
  <2>8. /\ Append(a, "flag") \o b \in Seq(Kinds)
        /\ Len(Append(a, "flag") \o b) = Len(a) + 1 + Len(b) /\ Len(a) \in Nat /\ Len(b) \in Nat
        /\ (Append(a, "flag") \o b)[Len(a) + 1] = "flag"
    BY <1>1, <2>3
  <2>9. c \in Seq(Kinds) /\ Len(a) + 1 \in 1 .. Len(c) /\ c[Len(a) + 1] = "flag"
    BY <2>4, <2>5, <2>8
  <2> QED
    BY <1>2, <2>7, <2>9
<1>5. CASE ~there(s) /\ heads = {}
  <2>1. c = Append(TrimEnd(s), "flag")
    BY <1>5 DEF InsertVibeFlag
  <2>2. TrimEnd(s) \in Seq(Kinds) /\ View(TrimEnd(s)) = View(s)
    BY <1>1, TrimLaw, TrimView
  <2>3. View(Append(TrimEnd(s), "flag")) = View(TrimEnd(s))
    BY <2>2, UnseenLine
  <2>4. c \in Seq(Kinds) /\ Len(c) = Len(TrimEnd(s)) + 1 /\ Len(TrimEnd(s)) \in Nat
        /\ c[Len(TrimEnd(s)) + 1] = "flag"
    BY <1>1, <2>1, <2>2
  <2>5. Len(TrimEnd(s)) + 1 \in 1 .. Len(c)
    BY <2>4
  <2> QED
    BY <1>2, <2>1, <2>2, <2>3, <2>4, <2>5
<1> QED
  BY <1>3, <1>4, <1>5

(* The rules: those of the user stay, ours are all there after.            *)
LEMMA AllowLaw ==
  ASSUME NEW R, Elements(AllowRules) \subseteq R, NEW a \in Seq(R),
         NEW m, m = MergeAllow(a, AllowRules)
  PROVE  /\ m \in Seq(R)
         /\ UserRules(m) = UserRules(a)
         /\ RulesWired(m)
         /\ MergeAllow(m, AllowRules) = m
<1> DEFINE E == Elements(AllowRules)
           more == Without(AllowRules, Elements(a))
<1>1. AllowRules \in Seq(R) /\ AllowRules \in Seq(E)
  <2>1. AllowRules \in Seq(E)
    BY SettingsAssumption
  <2> HIDE DEF E
  <2>2. E \subseteq R
    BY DEF E
  <2> QED
    BY <2>1, <2>2
<1>2. more \in Seq(R) /\ Elements(more) = E \ Elements(a)
  BY <1>1, WithoutLaw, WithoutElements
<1>3. m = a \o more
  BY DEF MergeAllow
<1> HIDE DEF more
<1>4. m \in Seq(R) /\ Elements(m) = Elements(a) \cup Elements(more)
  BY <1>2, <1>3, ElementsLaw, ConcatLaw
<1>5. Without(more, E) = <<>>
  BY <1>2, WithoutElements
<1>6. Without(m, E) = Without(a, E)
  <2>1. Without(a \o more, E) = Without(a, E) \o Without(more, E)
    BY <1>2, WithoutConcat
  <2>2. Without(a, E) \in Seq(R)
    BY WithoutLaw
  <2>3. Without(a, E) \o <<>> = Without(a, E)
    BY <2>2, ConcatLaw
  <2> QED
    BY <1>3, <1>5, <2>1, <2>3
<1>7. E \subseteq Elements(m)
  BY <1>2, <1>4
<1>8. MergeAllow(m, AllowRules) = m
  <2>1. Without(AllowRules, Elements(m)) = <<>>
    BY <1>1, <1>7, WithoutElements
  <2>2. m \o <<>> = m
    BY <1>4, ConcatLaw
  <2> QED
    BY <2>1, <2>2 DEF MergeAllow
<1> QED
  BY <1>4, <1>6, <1>7, <1>8 DEF UserRules, RulesWired

(* The groups of an event: those of the user stay, and one of ours is among*)
(* them.                                                                   *)
LEMMA GroupsLaw ==
  ASSUME NEW G, Ours \in G, Malformed \notin Seq(G), NEW groups \in Seq(G) \cup {Malformed},
         NEW m, m = MergedGroups(groups)
  PROVE  /\ m \in Seq(G) \cup {Malformed}
         /\ UserGroups(m) = UserGroups(groups)
         /\ m # Malformed => Ours \in Elements(m)
         /\ MergedGroups(m) = m
<1>1. CASE Skipped(groups)
  <2>1. m = groups
    BY <1>1 DEF MergedGroups
  <2>2. m # Malformed => Ours \in Elements(m)
    BY <1>1, <2>1 DEF Skipped, GroupIsOurs, Elements
  <2> QED
    BY <1>1, <2>1, <2>2 DEF MergedGroups
<1>2. CASE ~Skipped(groups)
  <2>1. groups \in Seq(G) /\ groups # Malformed
    BY <1>2 DEF Skipped
  <2>2. m = Append(groups, Ours)
    BY <1>2 DEF MergedGroups
  <2>3. m \in Seq(G)
    BY <2>1, <2>2
  <2>4. Elements(m) = Elements(groups) \cup {Ours}
    BY <2>1, <2>2, ElementsLaw
  <2>5. Without(Append(groups, Ours), {Ours}) = Without(groups, {Ours})
    BY <2>1, WithoutLaw
  <2>6. Skipped(m)
    BY <2>4 DEF Skipped, GroupIsOurs, Elements
  <2> QED
    BY <2>1, <2>2, <2>3, <2>4, <2>5, <2>6 DEF UserGroups, MergedGroups
<1> QED
  BY <1>1, <1>2

(* Every event keeps the groups it had, at their places, and gets at most  *)
(* one more: one of ours behind them, where there was none.  What cannot   *)
(* be appended to stays as it is.                                          *)
THEOREM MergeKeepsGroups ==
  ASSUME NEW S, NEW D, NEW hooks \in [D -> Seq(S) \cup {Malformed}], NEW e \in D
  PROVE  LET old == hooks[e]
             new == MergeHooks(hooks)[e]
         IN  \/ new = old
             \/ /\ e \in HookEvents /\ old \in Seq(S) /\ Ours \notin Elements(old)
                /\ Len(new) = Len(old) + 1 /\ new[Len(old) + 1] = Ours
                /\ \A i \in 1..Len(old) : new[i] = old[i]
<1> DEFINE old == hooks[e]
           new == MergeHooks(hooks)[e]
<1>1. new = IF e \in HookEvents THEN MergedGroups(old) ELSE old
  BY DEF MergeHooks, GroupsOf
<1>2. CASE e \notin HookEvents \/ Skipped(old)
  BY <1>1, <1>2 DEF MergedGroups
<1>3. CASE e \in HookEvents /\ ~Skipped(old)
  <2>1. old \in Seq(S)
    BY <1>3 DEF Skipped
  <2>2. Ours \notin Elements(old)
    BY <1>3, <2>1 DEF Skipped, GroupIsOurs, Elements
  <2>3. new = Append(old, Ours)
    BY <1>1, <1>3 DEF MergedGroups
  <2> HIDE DEF old, new
  <2>4. old \in Seq(S \cup {Ours})
    BY <2>1
  <2>5. /\ Len(new) = Len(old) + 1 /\ new[Len(old) + 1] = Ours
        /\ \A i \in 1..Len(old) : new[i] = old[i]
    BY <2>3, <2>4
  <2> QED
    BY <1>3, <2>1, <2>2, <2>5 DEF old, new
<1> QED
  BY <1>2, <1>3

(* The settings with these hooks and rules.                                *)
Settings(h, a) == [hooks |-> h, allow |-> a]

(* An object that has an array of groups, or what is none, for some events.*)
HookMap(h, G) ==
  /\ h = [e \in DOMAIN h |-> h[e]]
  /\ \A e \in DOMAIN h : h[e] \in Seq(G) \cup {Malformed}

(* The hooks of all events.                                                *)
LEMMA HooksLaw ==
  ASSUME NEW G, Ours \in G, Malformed \notin Seq(G), NEW h, HookMap(h, G),
         NEW m, m = MergeHooks(h)
  PROVE  /\ HookMap(m, G)
         /\ UserHooks(m) = UserHooks(h)
         /\ HooksWired(m)
         /\ MergeHooks(m) = m
<1> DEFINE D == DOMAIN h
<1>1. /\ DOMAIN m = D \cup HookEvents
      /\ m = [e \in D \cup HookEvents |-> m[e]]
      /\ \A e \in HookEvents : m[e] = MergedGroups(GroupsOf(h, e))
      /\ \A e \in D \ HookEvents : m[e] = h[e]
  BY DEF MergeHooks
<1>2. /\ \A e \in D \cup HookEvents : GroupsOf(h, e) \in Seq(G) \cup {Malformed}
      /\ \A e \in D : GroupsOf(h, e) = h[e]
      /\ \A e \in HookEvents \ D : GroupsOf(h, e) = <<>>
  BY DEF HookMap, GroupsOf
<1>3. ASSUME NEW e \in HookEvents
      PROVE  /\ m[e] \in Seq(G) \cup {Malformed}
             /\ UserGroups(m[e]) = UserGroups(GroupsOf(h, e))
             /\ m[e] # Malformed => Ours \in Elements(m[e])
             /\ MergedGroups(m[e]) = m[e]
  BY <1>1, <1>2, GroupsLaw
<1>4. UserGroups(<<>>) = <<>>
  <2>1. <<>> \in Seq(G)
    OBVIOUS
  <2>2. <<>> # Malformed
    BY <2>1, Zenon
  <2>3. Without(<<>>, {Ours}) = <<>>
    BY <2>1, WithoutLaw
  <2> QED
    BY <2>2, <2>3 DEF UserGroups
<1>5. HookMap(m, G)
  BY <1>1, <1>2, <1>3 DEF HookMap
<1>6. UserHooks(m) = UserHooks(h)
  <2>1. \A e \in D : UserGroups(m[e]) = UserGroups(h[e])
    BY <1>1, <1>2, <1>3
  <2>2. \A e \in HookEvents \ D : UserGroups(m[e]) = <<>>
    BY <1>2, <1>3, <1>4
  <2>3. {d \in DOMAIN m : UserGroups(m[d]) # <<>>} = {d \in D : UserGroups(h[d]) # <<>>}
    BY <1>1, <2>1, <2>2
  <2> QED
    BY <2>1, <2>3 DEF UserHooks
<1>7. HooksWired(m)
  BY <1>1, <1>3 DEF HooksWired
<1>8. MergeHooks(m) = m
  <2>1. \A e \in HookEvents : GroupsOf(m, e) = m[e]
    BY <1>1 DEF GroupsOf
  <2>2. MergeHooks(m) = [e \in D \cup HookEvents |-> IF e \in HookEvents THEN MergedGroups(GroupsOf(m, e)) ELSE m[e]]
    BY <1>1 DEF MergeHooks
  <2> QED
    BY <1>1, <1>3, <2>1, <2>2
<1> QED
  BY <1>5, <1>6, <1>7, <1>8

(* A settings.json whose hooks are groups of G and whose rules are of R.   *)
SettingsFit(text, G, R) ==
  \E h, a : /\ text = Settings(h, a)
            /\ h = Malformed \/ HookMap(h, G)
            /\ a = Malformed \/ a \in Seq(R)

Fit(f, text, G, R) ==
  IF f = "settings.json" THEN text \in {Invalid, Malformed} \/ SettingsFit(text, G, R)
                         ELSE text \in Seq(Kinds)

IsNoText(c) == c \notin Seq(Kinds) /\ \A h, a : Settings(h, a) # c

FilesFit(G, R) ==
  /\ {"user", Ours} \subseteq G /\ Malformed \notin Seq(G) /\ ~HookMap(Malformed, G)
  /\ Elements(AllowRules) \cup {"own"} \subseteq R /\ Malformed \notin Seq(R)
  /\ \A c \in {Absent, Blank, Invalid, Malformed} : IsNoText(c)
  /\ \A f \in Files : \A text \in Originals[f] \ {Absent, Blank} : Fit(f, text, G, R)
  /\ \A f \in Files \ {"settings.json"} : LineKinds[f] \subseteq Kinds

LEMMA SettingsAfter ==
  ASSUME NEW G, NEW R, FilesFit(G, R), file = "settings.json", job \in JobsOf(file),
         NEW text, Fit(file, text, G, R), Mergeable(text), NEW new, new = After(job, text)
  PROVE  /\ Fit(file, new, G, R) /\ new \notin {Absent, Blank}
         /\ OfUser(new) = OfUser(text)
         /\ \A j \in JobsOf(file) :
              j = job \/ (After(j, text) = text /\ Wired(j, text)) => After(j, new) = new /\ Wired(j, new)
<1>1. text \notin {Invalid, Malformed}
  BY DEF Mergeable, Refuses, Raises, JobsOf
<1>2. PICK h, a : /\ text = Settings(h, a)
                  /\ h = Malformed \/ HookMap(h, G)
                  /\ a = Malformed \/ a \in Seq(R)
  BY <1>1 DEF Fit, SettingsFit
<1>3. /\ job \in {"hooks", "allow"} /\ JobsOf(file) = {"hooks", "allow"}
      /\ text.hooks = h /\ text.allow = a
  BY <1>2 DEF JobsOf, Settings
<1>4. \A k, b : Settings(k, b) \notin {Absent, Blank, Invalid, Malformed}
  BY DEF FilesFit, IsNoText
<1>5. \A k, b : OfUser(Settings(k, b)) =
                  <<IF k = Malformed THEN Malformed ELSE UserHooks(k),
                    IF b = Malformed THEN Malformed ELSE UserRules(b)>>
  <2>1. \A k, b : Settings(k, b).hooks = k /\ Settings(k, b).allow = b
    BY DEF Settings
  <2> QED
    BY <1>4, <2>1 DEF OfUser
<1>6. \A k, b : /\ After("hooks", Settings(k, b)) = Settings(MergeHooks(k), b)
                /\ After("allow", Settings(k, b)) = Settings(k, MergeAllow(b, AllowRules))
                /\ Wired("hooks", Settings(k, b)) = HooksWired(k)
                /\ Wired("allow", Settings(k, b)) = RulesWired(b)
  BY DEF After, Wired, Settings
<1>7. \A k, b, l, c : Settings(k, b) = Settings(l, c) => k = l /\ b = c
  <2>1. \A k, b : Settings(k, b).hooks = k /\ Settings(k, b).allow = b
    BY DEF Settings
  <2> QED
    BY <2>1
<1>8. CASE job = "hooks"
  <2> DEFINE m == MergeHooks(h)
  <2>1. h # Malformed
    BY <1>1, <1>3, <1>8 DEF Mergeable, Raises
  <2>2. HookMap(m, G) /\ UserHooks(m) = UserHooks(h) /\ HooksWired(m) /\ MergeHooks(m) = m
    BY <1>2, <2>1, HooksLaw DEF FilesFit
  <2>3. new = Settings(m, a)
    BY <1>2, <1>6, <1>8
  <2>4. m # Malformed
    BY <2>2 DEF FilesFit
  <2> HIDE DEF m
  <2>5. Fit(file, new, G, R)
    BY <1>2, <2>2, <2>3 DEF Fit, SettingsFit
  <2>6. OfUser(new) = OfUser(text)
    BY <1>2, <1>5, <2>1, <2>2, <2>3, <2>4
  <2>7. After("hooks", new) = new /\ Wired("hooks", new)
    BY <1>6, <2>2, <2>3
  <2>8. After("allow", text) = text /\ Wired("allow", text) => After("allow", new) = new /\ Wired("allow", new)
    BY <1>2, <1>6, <1>7, <2>3
  <2> QED
    BY <1>3, <1>4, <1>8, <2>3, <2>5, <2>6, <2>7, <2>8
<1>9. CASE job = "allow"
  <2> DEFINE m == MergeAllow(a, AllowRules)
  <2>1. a # Malformed
    BY <1>1, <1>3, <1>9 DEF Mergeable, Refuses
  <2>2. m \in Seq(R) /\ UserRules(m) = UserRules(a) /\ RulesWired(m) /\ MergeAllow(m, AllowRules) = m
    BY <1>2, <2>1, AllowLaw DEF FilesFit
  <2>3. new = Settings(h, m)
    BY <1>2, <1>6, <1>9
  <2>4. m # Malformed
    BY <2>2 DEF FilesFit
  <2> HIDE DEF m
  <2>5. Fit(file, new, G, R)
    BY <1>2, <2>2, <2>3 DEF Fit, SettingsFit
  <2>6. OfUser(new) = OfUser(text)
    BY <1>2, <1>5, <2>1, <2>2, <2>3, <2>4
  <2>7. After("allow", new) = new /\ Wired("allow", new)
    BY <1>6, <2>2, <2>3
  <2>8. After("hooks", text) = text /\ Wired("hooks", text) => After("hooks", new) = new /\ Wired("hooks", new)
    BY <1>2, <1>6, <1>7, <2>3
  <2> QED
    BY <1>3, <1>4, <1>9, <2>3, <2>5, <2>6, <2>7, <2>8
<1> QED
  BY <1>3, <1>8, <1>9

LEMMA LinesAfter ==
  ASSUME NEW G, NEW R, FilesFit(G, R), file \in Files \ {"settings.json"}, job \in JobsOf(file),
         NEW text, Fit(file, text, G, R), NEW new, new = After(job, text)
  PROVE  /\ Fit(file, new, G, R) /\ new \notin {Absent, Blank}
         /\ OfUser(new) = OfUser(text)
         /\ After(job, new) = new /\ Wired(job, new)
<1>1. text \in Seq(Kinds) /\ file # "settings.json"
  BY DEF Fit
<1>2. \A t \in Seq(Kinds) : t \notin {Absent, Blank, Invalid, Malformed}
  BY DEF FilesFit, IsNoText
<1>3. \A t \in Seq(Kinds) : OfUser(t) = <<UserBlocks(t), UserLines(t)>>
  BY <1>1, <1>2 DEF OfUser
<1>4. \/ file = "hooks.toml" /\ job \in {"new", "old"}
      \/ file = "config.toml" /\ job \in {"flag", "unflag"}
  BY DEF Files, JobsOf
<1>5. new \in Seq(Kinds) /\ OfUser(new) = OfUser(text) /\ After(job, new) = new /\ Wired(job, new)
  <2>1. CASE job \in {"new", "old"}
    <3>1. job \in OurCommands /\ \A t : After(job, t) = ComposeVibeHooks(t, job)
      BY <2>1 DEF OurCommands, After
    <3>2. Wired(job, new) = BlocksWired(new, job)
      BY <2>1 DEF Wired
    <3>3. /\ new \in Seq(Kinds) /\ UserLines(new) = UserLines(text)
          /\ UserBlocks(new) = UserBlocks(text)
          /\ BlocksWired(new, job) /\ ComposeVibeHooks(new, job) = new
      BY <1>1, <3>1, ComposeLaw
    <3> QED
      BY <1>1, <1>3, <3>1, <3>2, <3>3
  <2>2. CASE job = "flag"
    <3>1. (\A t : After(job, t) = InsertVibeFlag(t)) /\ Wired(job, new)
      BY <2>2 DEF After, Wired
    <3>2. new \in Seq(Kinds) /\ View(new) = View(text) /\ InsertVibeFlag(new) = new
      BY <1>1, <3>1, InsertLaw
    <3> QED
      BY <1>1, <1>3, <3>1, <3>2 DEF UserBlocks, UserLines, Loaded
  <2>3. CASE job = "unflag"
    <3>1. (\A t : After(job, t) = RemoveVibeFlag(t)) /\ Wired(job, new) = FlagGone(new)
      BY <2>3 DEF After, Wired
    <3>2. new \in Seq(Kinds) /\ View(new) = View(text) /\ RemoveVibeFlag(new) = new /\ FlagGone(new)
      BY <1>1, <3>1, RemoveLaw
    <3> QED
      BY <1>1, <1>3, <3>1, <3>2 DEF UserBlocks, UserLines, Loaded
  <2> QED
    BY <1>4, <2>1, <2>2, <2>3
<1> QED
  BY <1>1, <1>2, <1>5 DEF Fit

LEMMA EditsFit ==
  ASSUME NEW G, NEW R, FilesFit(G, R), file \in Files, NEW text, Fit(file, text, G, R),
         NEW content \in IF file = "settings.json" THEN SettingsEdits(text) ELSE LineEdits(text)
  PROVE  Fit(file, content, G, R) /\ content \notin {Absent, Blank}
<1>1. CASE file = "settings.json"
  <2>1. \A k, b : Settings(k, b) \notin {Absent, Blank, Invalid, Malformed}
    BY DEF FilesFit, IsNoText
  <2>2. <<>> \in Seq(R) /\ <<"own">> \in Seq(R)
    BY DEF FilesFit
  <2>3. CASE text \in {Invalid, Malformed}
    <3>1. content = Settings([e \in {} |-> <<>>], <<>>)
      BY <1>1, <2>3 DEF SettingsEdits, NoSettings, Settings
    <3>2. HookMap([e \in {} |-> <<>>], G)
      BY DEF HookMap
    <3> QED
      BY <1>1, <2>1, <2>2, <3>1, <3>2 DEF Fit, SettingsFit
  <2>4. CASE text \notin {Invalid, Malformed}
    <3>1. PICK k, b : /\ text = Settings(k, b)
                      /\ k = Malformed \/ HookMap(k, G)
                      /\ b = Malformed \/ b \in Seq(R)
      BY <1>1, <2>4 DEF Fit, SettingsFit
    <3>2. \/ content = Settings(k, <<"own">>)
          \/ \E groups \in {<<>>, <<"user">>, <<Ours, "user">>} :
               content = Settings([e \in HookEvents |-> groups], b)
      BY <1>1, <2>4, <3>1 DEF SettingsEdits, Settings
    <3>3. \A groups \in {<<>>, <<"user">>, <<Ours, "user">>} :
            HookMap([e \in HookEvents |-> groups], G)
      <4>1. {<<>>, <<"user">>, <<Ours, "user">>} \subseteq Seq(G)
        BY DEF FilesFit
      <4> QED
        BY <4>1 DEF HookMap
    <3>4. \E l, c : /\ content = Settings(l, c)
                    /\ l = Malformed \/ HookMap(l, G)
                    /\ c = Malformed \/ c \in Seq(R)
      BY <2>2, <3>1, <3>2, <3>3
    <3> QED
      BY <1>1, <2>1, <3>4 DEF Fit, SettingsFit
  <2> QED
    BY <2>3, <2>4
<1>2. CASE file # "settings.json"
  <2>1. text \in Seq(Kinds) /\ LineKinds[file] \subseteq Kinds
    BY <1>2 DEF Fit, FilesFit
  <2>2. \/ \E i \in 1 .. Len(text) : content = RemoveAt(text, i)
        \/ \E i \in 1 .. (Len(text) + 1), l \in LineKinds[file] : content = InsertAt(text, i, l)
    BY <1>2 DEF LineEdits
  <2>3. \A i \in 1 .. Len(text) : RemoveAt(text, i) \in Seq(Kinds)
    BY <2>1 DEF RemoveAt
  <2>4. \A i \in 1 .. (Len(text) + 1), l \in Kinds : InsertAt(text, i, l) \in Seq(Kinds)
    BY <2>1 DEF InsertAt
  <2>5. content \in Seq(Kinds)
    BY <2>1, <2>2, <2>3, <2>4
  <2> QED
    BY <1>2, <2>5 DEF Fit, FilesFit, IsNoText
<1> QED
  BY <1>1, <1>2

(***************************************************************************)
(* The steps of a job                                                      *)
(***************************************************************************)

(* What a job read is what is there until it replaces it, and from the     *)
(* copy on the .bak is that, too.                                          *)
BackupInv ==
  /\ TypeOK
  /\ stage # "read" => read = disk
  /\ stage \in {"tmp", "write", "replace"} /\ disk # Absent => bak = disk

LEMMA BackupInit == Init => BackupInv
<1> SUFFICES ASSUME Init PROVE BackupInv
  OBVIOUS
<1>1. file \in Files /\ job = "none" /\ stage = "read" /\ settled = {} /\ edits = 0
  BY DEF Init
<1>2. read = Absent /\ bak = Absent /\ tmp = Absent
  BY DEF Init
<1>3. edits \in 0..MaxEdits
  BY <1>1, EditsAssumption
<1> QED
  BY <1>1, <1>2, <1>3 DEF BackupInv, TypeOK

LEMMA BackupStep ==
  ASSUME ~Racing, BackupInv, [Next]_vars
  PROVE  BackupInv'
<1> USE EditsAssumption DEF BackupInv, TypeOK
<1>1. ASSUME NEW j \in JobsOf(file), Begins(j) PROVE BackupInv'
  BY <1>1 DEF Begins
<1>2. CASE GivesUp \/ Killed
  BY <1>2 DEF GivesUp, Killed, Ends
<1>3. CASE FindsCurrent \/ Replaces
  BY <1>3 DEF FindsCurrent, Replaces, Ends, Settles
<1>4. CASE Reads
  BY <1>4 DEF Reads, FirstStage
<1>5. CASE OpensBackup \/ Copies
  BY <1>5 DEF OpensBackup, Copies
<1>6. CASE OpensTmp \/ WritesTmp
  BY <1>6 DEF OpensTmp, WritesTmp
<1>7. CASE UserEdits
  BY <1>7, ~Racing DEF UserEdits
<1>8. CASE UNCHANGED vars
  BY <1>8 DEF vars
<1> QED
  BY <1>1, <1>2, <1>3, <1>4, <1>5, <1>6, <1>7, <1>8 DEF Next

(* As long as nobody edits a file under the installer, what is replaced    *)
(* was copied before, whatever jobs run and whenever one is killed.        *)
THEOREM CopiedBeforeReplaced ==
  ASSUME ~Racing
  PROVE  Spec => BackupFirst
<1>1. BackupInv /\ [Next]_vars => BackupInv'
  BY BackupStep
<1>2. BackupInv /\ [Next]_vars
        => [stage = "replace" /\ disk # Absent /\ disk' # disk => bak = disk]_vars
  BY DEF BackupInv
<1> QED
  BY <1>1, <1>2, BackupInit, PTL DEF Spec, BackupFirst

(* A job goes on only with a content that it can merge, and a .tmp that is *)
(* complete is what it makes of that content.                              *)
WholeInv ==
  /\ BackupInv
  /\ stage # "read" => Mergeable(Text(disk))
  /\ stage = "replace" => tmp = After(job, Text(disk))

LEMMA WholeStep ==
  ASSUME ~Racing, WholeInv, [Next]_vars
  PROVE  WholeInv'
<1>b. BackupInv /\ BackupInv'
  BY BackupStep DEF WholeInv
<1>t. /\ job = "none" => stage = "read"
      /\ stage # "read" => read = disk
  BY <1>b DEF BackupInv, TypeOK
<1>1. CASE \/ \E j \in JobsOf(file) : Begins(j)
           \/ GivesUp \/ FindsCurrent \/ Replaces \/ Killed \/ UserEdits
  <2>1. stage' = "read"
    BY <1>1, <1>t DEF Begins, GivesUp, FindsCurrent, Replaces, Killed, Ends, UserEdits,
                      WholeInv, BackupInv, TypeOK
  <2> QED
    BY <1>b, <2>1 DEF WholeInv
<1>2. CASE Reads \/ OpensBackup \/ Copies \/ OpensTmp \/ WritesTmp
  <2>1. /\ stage' \in {"bak", "copy", "tmp", "write", "replace"}
        /\ UNCHANGED <<file, disk, job>> /\ Mergeable(Text(disk))
        /\ stage' = "replace" => tmp' = After(job, Text(read)) /\ stage = "write"
    BY <1>2 DEF Reads, FirstStage, OpensBackup, Copies, OpensTmp, WritesTmp, WholeInv
  <2>2. Mergeable(Text(disk))'
    BY <2>1 DEF Mergeable, Refuses, Raises, Text
  <2>3. (stage = "replace" => tmp = After(job, Text(disk)))'
    BY <1>t, <2>1 DEF After, Text
  <2> QED
    BY <1>b, <2>2, <2>3 DEF WholeInv
<1>3. CASE UNCHANGED vars
  BY <1>3, <1>b DEF vars, WholeInv, Mergeable, Refuses, Raises, Text, After
<1> QED
  BY <1>1, <1>2, <1>3 DEF Next

(* The content changes only to what the user makes of it, or in one step   *)
(* to the whole of what a job makes of the content that it replaces.       *)
OldOrNew ==
  [][disk' # disk => \/ UserEdits
                     \/ disk' = After(job, Text(disk)) /\ Mergeable(Text(disk))]_vars

(* A kill between the reading, copying, writing and replacing of a file    *)
(* leaves the whole old or the whole new one (_write_config), as long as   *)
(* nobody edits it under the installer.                                    *)
THEOREM OldOrNewWhole ==
  ASSUME ~Racing
  PROVE  Spec => OldOrNew
<1>1. Init => WholeInv
  BY BackupInit DEF Init, WholeInv
<1>2. WholeInv /\ [Next]_vars => WholeInv'
  BY WholeStep
<1>3. WholeInv /\ [Next]_vars
        => [disk' # disk => \/ UserEdits
                            \/ disk' = After(job, Text(disk)) /\ Mergeable(Text(disk))]_vars
  <2> SUFFICES ASSUME WholeInv, Next, disk' # disk
               PROVE  \/ UserEdits
                      \/ disk' = After(job, Text(disk)) /\ Mergeable(Text(disk))
    OBVIOUS
  <2>1. CASE UserEdits
    BY <2>1
  <2>2. CASE Replaces
    BY <2>2 DEF Replaces, WholeInv
  <2>3. \/ UserEdits \/ Replaces
    BY DEF Next, Begins, GivesUp, FindsCurrent, Reads, OpensBackup, Copies, OpensTmp,
           WritesTmp, Killed
  <2> QED
    BY <2>1, <2>2, <2>3
<1> QED
  BY <1>1, <1>2, <1>3, PTL DEF Spec, OldOrNew

(***************************************************************************)
(* A file through any number of runs, kills and edits                      *)
(***************************************************************************)

(* The file is one that a job can be given, has what is the user's, and    *)
(* has what the jobs that were done made of it.                            *)
KeptInv(G, R) ==
  WholeInv /\ Fit(file, Text(disk), G, R) /\ UsersKept /\ RerunIsNoop

LEMMA KeptInit ==
  ASSUME NEW G, NEW R, FilesFit(G, R), Init
  PROVE  KeptInv(G, R) /\ Fit(file, Text(user), G, R)
<1>1. WholeInv /\ user = disk /\ settled = {} /\ file \in Files /\ disk \in Originals[file]
  BY BackupInit DEF Init, WholeInv
<1>2. Fit(file, Text(disk), G, R)
  <2>1. CASE disk \notin {Absent, Blank}
    BY <1>1, <2>1 DEF FilesFit, Text
  <2>2. CASE disk \in {Absent, Blank} /\ file = "settings.json"
    <3>1. Text(disk) = Settings([e \in {} |-> <<>>], <<>>)
      BY <2>2 DEF Text, NoSettings, Settings
    <3>2. HookMap([e \in {} |-> <<>>], G) /\ <<>> \in Seq(R)
      BY DEF HookMap
    <3> QED
      BY <2>2, <3>1, <3>2 DEF Fit, SettingsFit
  <2>3. CASE disk \in {Absent, Blank} /\ file # "settings.json"
    <3>1. Text(disk) = <<>>
      BY <2>3 DEF Text
    <3>2. <<>> \in Seq(Kinds)
      OBVIOUS
    <3> QED
      BY <2>3, <3>1, <3>2 DEF Fit
  <2> QED
    BY <2>1, <2>2, <2>3
<1> QED
  BY <1>1, <1>2 DEF KeptInv, UsersKept, RerunIsNoop

(* What a job makes of a file that it can merge.                           *)
LEMMA AfterLaw ==
  ASSUME NEW G, NEW R, FilesFit(G, R), file \in Files, job \in JobsOf(file),
         NEW text, Fit(file, text, G, R), Mergeable(text), NEW new, new = After(job, text)
  PROVE  /\ Fit(file, new, G, R) /\ new \notin {Absent, Blank}
         /\ OfUser(new) = OfUser(text)
         /\ After(job, new) = new /\ Wired(job, new)
         /\ file = "settings.json" =>
              \A j \in JobsOf(file) :
                After(j, text) = text /\ Wired(j, text) => After(j, new) = new /\ Wired(j, new)
<1>1. CASE file = "settings.json"
  <2>1. /\ Fit(file, new, G, R) /\ new \notin {Absent, Blank}
        /\ OfUser(new) = OfUser(text)
    BY <1>1, SettingsAfter
  <2>2. \A j \in JobsOf(file) :
          j = job \/ (After(j, text) = text /\ Wired(j, text)) => After(j, new) = new /\ Wired(j, new)
    BY <1>1, SettingsAfter
  <2> QED
    BY <1>1, <2>1, <2>2
<1>2. CASE file # "settings.json"
  <2>1. file \in Files \ {"settings.json"}
    BY <1>2
  <2> QED
    BY <1>2, <2>1, LinesAfter
<1> QED
  BY <1>1, <1>2

(* Where a job leaves a file that it is through with.                      *)
LEMMA JobDone ==
  ASSUME NEW G, NEW R, FilesFit(G, R), WholeInv, Fit(file, Text(disk), G, R),
         FindsCurrent \/ Replaces
  PROVE  /\ file \in Files /\ job \in JobsOf(file) /\ Mergeable(Text(disk))
         /\ file' = file /\ settled \subseteq JobsOf(file)
         /\ settled' = IF file = "settings.json" THEN settled \cup {job} ELSE {job}
         /\ Text(disk)' = After(job, Text(disk)) /\ Text(user)' = Text(user)
<1> DEFINE new == After(job, Text(disk))
<1>1. /\ file \in Files /\ job \in JobsOf(file) /\ Mergeable(Text(disk))
      /\ file' = file /\ user' = user /\ settled \subseteq JobsOf(file)
      /\ settled' = IF file = "settings.json" THEN settled \cup {job} ELSE {job}
      /\ \/ disk' = new
         \/ disk' = disk /\ Text(disk) = new
  BY DEF FindsCurrent, Replaces, Settles, WholeInv, BackupInv, TypeOK
<1>2. new \notin {Absent, Blank}
  BY <1>1, AfterLaw
<1> HIDE DEF new
<1>3. Text(user)' = Text(user)
  BY <1>1 DEF Text
<1>4. ASSUME disk' = new PROVE Text(disk)' = new
  BY <1>2, <1>4 DEF Text
<1>5. ASSUME disk' = disk, Text(disk) = new PROVE Text(disk)' = new
  BY <1>1, <1>5 DEF Text
<1>6. Text(disk)' = new
  BY <1>1, <1>4, <1>5
<1> QED
  BY <1>1, <1>3, <1>6 DEF new

LEMMA KeptStep ==
  ASSUME ~Racing, NEW G, NEW R, FilesFit(G, R), KeptInv(G, R), [Next]_vars
  PROVE  KeptInv(G, R)'
<1>w. WholeInv /\ WholeInv' /\ file \in Files
  BY WholeStep DEF KeptInv, WholeInv, BackupInv, TypeOK
<1>1. CASE FindsCurrent \/ Replaces
  <2> DEFINE text == Text(disk)
             new  == After(job, text)
  <2>1. /\ file \in Files /\ job \in JobsOf(file) /\ Mergeable(text)
        /\ file' = file /\ settled \subseteq JobsOf(file)
        /\ settled' = IF file = "settings.json" THEN settled \cup {job} ELSE {job}
    BY <1>1, <1>w, JobDone DEF KeptInv
  <2>2. /\ Fit(file, new, G, R) /\ new \notin {Absent, Blank}
        /\ OfUser(new) = OfUser(text)
        /\ After(job, new) = new /\ Wired(job, new)
        /\ file = "settings.json" =>
             \A j \in JobsOf(file) :
               After(j, text) = text /\ Wired(j, text) => After(j, new) = new /\ Wired(j, new)
    <3>1. Fit(file, text, G, R)
      BY DEF KeptInv
    <3> HIDE DEF text
    <3> QED
      BY <2>1, <3>1, AfterLaw
  <2>3. Text(disk)' = new /\ Text(user)' = Text(user)
    BY <1>1, <1>w, JobDone DEF KeptInv
  <2> HIDE DEF new
  <2>5. UsersKept'
    <3>1. OfUser(text) = OfUser(Text(user))
      BY DEF KeptInv, UsersKept
    <3>2. OfUser(Text(disk))' = OfUser(new) /\ OfUser(Text(user))' = OfUser(Text(user))
      BY <2>1, <2>3 DEF OfUser
    <3> QED
      BY <2>2, <3>1, <3>2 DEF UsersKept
  <2>6. RerunIsNoop'
    <3>1. ASSUME NEW j \in settled' PROVE After(j, new) = new /\ Wired(j, new)
      <4>1. CASE j = job
        BY <2>2, <4>1
      <4>2. CASE j # job
        <5>1. file = "settings.json" /\ j \in settled /\ j \in JobsOf(file)
          BY <2>1, <3>1, <4>2
        <5>2. After(j, text) = text /\ Wired(j, text)
          BY <5>1 DEF KeptInv, RerunIsNoop
        <5> QED
          BY <2>2, <5>1, <5>2
      <4> QED
        BY <4>1, <4>2
    <3> QED
      BY <2>3, <3>1 DEF RerunIsNoop, After, Wired
  <2>7. Fit(file, Text(disk), G, R)'
    BY <2>1, <2>2, <2>3 DEF Fit
  <2> QED
    BY <1>w, <2>5, <2>6, <2>7 DEF KeptInv
<1>2. CASE UserEdits
  <2>1. PICK content \in IF file = "settings.json" THEN SettingsEdits(Text(disk))
                                                   ELSE LineEdits(Text(disk)) :
          disk' = content /\ user' = content
    BY <1>2 DEF UserEdits
  <2>2. file' = file /\ settled' = {}
    BY <1>2 DEF UserEdits
  <2>3. Fit(file, content, G, R) /\ content \notin {Absent, Blank}
    BY <1>w, <2>1, EditsFit DEF KeptInv
  <2>4. Text(disk)' = content /\ Text(user)' = content
    BY <2>1, <2>2, <2>3 DEF Text
  <2>5. Fit(file, Text(disk), G, R)'
    BY <2>2, <2>3, <2>4 DEF Fit
  <2>6. UsersKept' /\ RerunIsNoop'
    BY <2>1, <2>2 DEF UsersKept, RerunIsNoop
  <2> QED
    BY <1>w, <2>5, <2>6 DEF KeptInv
<1>3. CASE UNCHANGED <<file, disk, user, settled>>
  BY <1>3, <1>w DEF KeptInv, Fit, UsersKept, RerunIsNoop, OfUser, Text, After, Wired
<1>4. \/ FindsCurrent \/ Replaces \/ UserEdits
      \/ UNCHANGED <<file, disk, user, settled>>
  BY DEF Next, vars, Begins, GivesUp, Reads, OpensBackup, Copies, OpensTmp, WritesTmp, Killed
<1> QED
  BY <1>1, <1>2, <1>3, <1>4

LEMMA AlwaysKept ==
  ASSUME ~Racing, NEW G, NEW R, FilesFit(G, R)
  PROVE  Spec => []KeptInv(G, R)
<1>1. Init => KeptInv(G, R)
  BY KeptInit
<1>2. KeptInv(G, R) /\ [Next]_vars => KeptInv(G, R)'
  BY KeptStep
<1> QED
  BY <1>1, <1>2, PTL DEF Spec

(* Whatever runs of the installer go over a file, wherever they are killed *)
(* and whatever is edited between them: the hooks, rules and lines of the  *)
(* user are those that the user left.                                      *)
THEOREM UsersStay ==
  ASSUME ~Racing, NEW G, NEW R, FilesFit(G, R)
  PROVE  Spec => []UsersKept
<1>1. KeptInv(G, R) => UsersKept
  BY DEF KeptInv
<1> QED
  BY <1>1, AlwaysKept, PTL

(* A job that was done finds nothing to do until the user edits the file,  *)
(* and the file is wired as the job has it.                                *)
THEOREM RerunChangesNothing ==
  ASSUME ~Racing, NEW G, NEW R, FilesFit(G, R)
  PROVE  Spec => []RerunIsNoop
<1>1. KeptInv(G, R) => RerunIsNoop
  BY DEF KeptInv
<1> QED
  BY <1>1, AlwaysKept, PTL

(* The hooks of a settings.json are those the user left, or these with ours*)
(* merged in once; after a job that wired them they are the latter.        *)
HooksMergedOnce ==
  file = "settings.json" /\ Text(user) \notin {Invalid, Malformed} =>
    LET mine == Text(user).hooks
        now  == Text(disk).hooks
    IN  \/ now = mine /\ "hooks" \notin settled
        \/ mine # Malformed /\ now = MergeHooks(mine) /\ MergeHooks(now) = now

MergedInv(G, R) ==
  /\ KeptInv(G, R) /\ Fit(file, Text(user), G, R)
  /\ file = "settings.json" /\ Text(user) \notin {Invalid, Malformed} =>
       \/ Text(disk).hooks = Text(user).hooks /\ "hooks" \notin settled
       \/ /\ Text(user).hooks # Malformed
          /\ Text(disk).hooks = MergeHooks(Text(user).hooks)

(* Hooks that are settings' hooks and can be merged are an object.         *)
LEMMA HooksOf ==
  ASSUME NEW G, NEW R, FilesFit(G, R), NEW text, SettingsFit(text, G, R)
  PROVE  /\ text.hooks = Malformed \/ HookMap(text.hooks, G)
         /\ After("hooks", text).hooks = MergeHooks(text.hooks)
         /\ After("allow", text).hooks = text.hooks
         /\ After("hooks", text) = text => MergeHooks(text.hooks) = text.hooks
<1>1. PICK h, a : text = Settings(h, a) /\ (h = Malformed \/ HookMap(h, G))
  BY DEF SettingsFit
<1>2. \A k, b : Settings(k, b).hooks = k
  BY DEF Settings
<1>3. /\ After("hooks", text) = Settings(MergeHooks(h), a)
      /\ After("allow", text) = Settings(h, MergeAllow(a, AllowRules))
  BY <1>1 DEF After, Settings
<1> QED
  BY <1>1, <1>2, <1>3

LEMMA MergedStep ==
  ASSUME ~Racing, NEW G, NEW R, FilesFit(G, R), MergedInv(G, R), [Next]_vars
  PROVE  MergedInv(G, R)'
<1>k. KeptInv(G, R) /\ KeptInv(G, R)' /\ WholeInv /\ Fit(file, Text(disk), G, R) /\ file \in Files
  BY KeptStep DEF MergedInv, KeptInv, WholeInv, BackupInv, TypeOK
<1>1. CASE FindsCurrent \/ Replaces
  <2>1. /\ job \in JobsOf(file) /\ Mergeable(Text(disk)) /\ file' = file
        /\ Text(disk)' = After(job, Text(disk)) /\ Text(user)' = Text(user)
        /\ file = "settings.json" => settled' = settled \cup {job}
    BY <1>1, <1>k, JobDone
  <2>2. Fit(file, Text(user), G, R)'
    BY <2>1 DEF MergedInv, Fit
  <2>3. SUFFICES ASSUME file = "settings.json", Text(user) \notin {Invalid, Malformed}
                 PROVE  \/ /\ After(job, Text(disk)).hooks = Text(user).hooks
                           /\ "hooks" \notin settled'
                        \/ /\ Text(user).hooks # Malformed
                           /\ After(job, Text(disk)).hooks = MergeHooks(Text(user).hooks)
    BY <1>k, <2>1, <2>2 DEF MergedInv
  <2>4. SettingsFit(Text(disk), G, R) /\ SettingsFit(Text(user), G, R) /\ job \in {"hooks", "allow"}
    BY <1>k, <2>1, <2>3 DEF Fit, Mergeable, Refuses, Raises, MergedInv, JobsOf
  <2>5. CASE job = "hooks"
    <3>1. Text(disk).hooks # Malformed
      <4>1. Text(disk) \notin {Invalid, Malformed}
        BY <2>4 DEF SettingsFit, FilesFit, IsNoText
      <4> QED
        BY <2>1, <2>5, <4>1 DEF Mergeable, Raises
    <3>2. Text(user).hooks # Malformed
      BY <2>3, <3>1 DEF MergedInv
    <3>3. MergeHooks(MergeHooks(Text(user).hooks)) = MergeHooks(Text(user).hooks)
      BY <2>4, <3>2, HooksOf, HooksLaw DEF FilesFit
    <3>4. After(job, Text(disk)).hooks = MergeHooks(Text(disk).hooks)
      BY <2>4, <2>5, HooksOf
    <3> QED
      BY <2>3, <3>2, <3>3, <3>4 DEF MergedInv
  <2>6. CASE job = "allow"
    BY <2>1, <2>3, <2>4, <2>6, HooksOf DEF MergedInv
  <2> QED
    BY <2>4, <2>5, <2>6
<1>2. CASE UserEdits
  <2>1. file' = file /\ Text(disk)' = Text(user)' /\ settled' = {}
    BY <1>2 DEF UserEdits, Text
  <2> QED
    BY <1>k, <2>1 DEF MergedInv, KeptInv, Fit
<1>3. CASE UNCHANGED <<file, disk, user, settled>>
  BY <1>3, <1>k DEF MergedInv, Fit, Text
<1>4. \/ FindsCurrent \/ Replaces \/ UserEdits
      \/ UNCHANGED <<file, disk, user, settled>>
  BY DEF Next, vars, Begins, GivesUp, Reads, OpensBackup, Copies, OpensTmp, WritesTmp, Killed
<1> QED
  BY <1>1, <1>2, <1>3, <1>4

(* However often install-hooks is run, killed and run again, an event of a *)
(* settings.json gets one group of ours, and no more.                      *)
THEOREM HooksStayAndSettle ==
  ASSUME ~Racing, NEW G, NEW R, FilesFit(G, R)
  PROVE  Spec => []HooksMergedOnce
<1>1. Init => MergedInv(G, R)
  BY KeptInit DEF Init, MergedInv
<1>2. MergedInv(G, R) /\ [Next]_vars => MergedInv(G, R)'
  BY MergedStep
<1>3. MergedInv(G, R) => HooksMergedOnce
  <2> SUFFICES ASSUME MergedInv(G, R), file = "settings.json",
                      Text(user) \notin {Invalid, Malformed}
               PROVE  LET mine == Text(user).hooks
                          now  == Text(disk).hooks
                      IN  \/ now = mine /\ "hooks" \notin settled
                          \/ /\ mine # Malformed /\ now = MergeHooks(mine)
                             /\ MergeHooks(now) = now
    BY DEF HooksMergedOnce
  <2>1. SettingsFit(Text(user), G, R)
    BY DEF MergedInv, Fit
  <2>2. Text(user).hooks # Malformed =>
          MergeHooks(MergeHooks(Text(user).hooks)) = MergeHooks(Text(user).hooks)
    BY <2>1, HooksOf, HooksLaw DEF FilesFit
  <2> QED
    BY <2>2 DEF MergedInv
<1> QED
  BY <1>1, <1>2, <1>3, PTL DEF Spec
=============================================================================
