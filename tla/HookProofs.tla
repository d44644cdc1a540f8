------------------------------ MODULE HookProofs ------------------------------
(***************************************************************************)
(* What the readers of the hooks make of one input, for every input: the   *)
(* parts of an answer and its limit, the lines of a heredoc, and the       *)
(* characters and words of a command. Each is a fold or a function that    *)
(* goes on from place to place: the first section says what those compute. *)
(***************************************************************************)
EXTENDS HookCommands, FiniteSetTheorems, SequenceTheorems, WellFoundedInduction, TLAPS

-----------------------------------------------------------------------------
(* What a walk over a sequence passes on *)

\* What holds at first and goes on from each number to the next one.
LEMMA Upwards ==
  ASSUME NEW n \in Nat, NEW S, 0 \in S, \A i \in 1 .. n : i - 1 \in S => i \in S
  PROVE  \A i \in 0 .. n : i \in S
<1> SUFFICES ASSUME NEW j \in 0 .. n, j \notin S PROVE FALSE
  OBVIOUS
<1> DEFINE T == {i \in 0 .. n : i \notin S}
<1>1. T \subseteq Nat /\ T # {}
  OBVIOUS
<1>2. PICK k \in T : \A m \in T : <<m, k>> \notin OpToRel(<, Nat)
  <2> HIDE DEF T
  <2> QED BY <1>1, NatLessThanWellFounded, WFMin
<1>3. k # 0 /\ k \in 1 .. n /\ k - 1 \in 0 .. n /\ k - 1 < k /\ k - 1 \in Nat /\ k \in Nat
  OBVIOUS
<1>4. k - 1 \notin T
  <2> HIDE DEF T
  <2> QED BY <1>2, <1>3 DEF OpToRel
<1> QED BY <1>3, <1>4

\* What a function of places, and one of sets of places, has to be for a fold.
Walks(at, n, start, step) == at[0] = start /\ \A i \in 1 .. n : at[i] = step[<<at[i - 1], i>>]
FoldsSets(iter, n, start, step) ==
  \A s \in SUBSET (1 .. n) : iter[s] = IF s = {} THEN start ELSE step[<<iter[s \ {Max(s)}], Max(s)>>]

\* A step of a fold that knows where it is: there is a function that takes it from
\* place to place.
LEMMA Walk ==
  ASSUME NEW T, NEW n \in Nat, NEW start \in T, NEW step \in [T \X (1 .. n) -> T]
  PROVE  \E at \in [0 .. n -> T] : Walks(at, n, start, step)
<1> DEFINE Goes(at, k) == at[0] = start /\ \A i \in 1 .. k : at[i] = step[<<at[i - 1], i>>]
           S == {k \in 0 .. n : \E at \in [0 .. n -> T] : Goes(at, k)}
<1>1. 0 \in S
  <2> DEFINE at == [i \in 0 .. n |-> start]
  <2>1. at \in [0 .. n -> T] /\ Goes(at, 0) /\ 0 \in 0 .. n
    OBVIOUS
  <2> QED BY <2>1
<1>2. ASSUME NEW k \in 1 .. n, k - 1 \in S PROVE k \in S
  <2>1. PICK f \in [0 .. n -> T] : Goes(f, k - 1)
    BY <1>2
  <2> DEFINE t == step[<<f[k - 1], k>>]
             g == [f EXCEPT ![k] = t]
  <2>2. k - 1 \in 0 .. n /\ k \in 0 .. n
    OBVIOUS
  <2>3. t \in T
    BY <2>2
  <2>4. g \in [0 .. n -> T]
    BY <2>3
  <2>5. \A i \in 0 .. n : g[i] = IF i = k THEN t ELSE f[i]
    OBVIOUS
  <2> HIDE DEF g
  <2>6. ASSUME NEW i \in 1 .. k PROVE g[i] = step[<<g[i - 1], i>>]
    <3>1. i - 1 \in 0 .. n /\ i \in 0 .. n /\ i - 1 # k
      OBVIOUS
    <3>2. CASE i = k
      BY <2>5, <3>1, <3>2
    <3>3. CASE i # k
      <4>1. i \in 1 .. k - 1
        BY <3>3
      <4> QED BY <2>1, <2>5, <3>1, <3>3, <4>1
    <3> QED BY <3>2, <3>3
  <2>7. g[0] = start
    BY <2>1, <2>2, <2>5
  <2> QED BY <2>2, <2>4, <2>6, <2>7
<1>3. n \in S
  <2> HIDE DEF S
  <2> QED BY <1>1, <1>2, Upwards
<1> QED BY <1>3 DEF Walks

\* The last of a set of places is its greatest.
LEMMA MaxOfPlaces ==
  ASSUME NEW n \in Nat
  PROVE  Max(1 .. n + 1) = n + 1 /\ (1 .. n + 1) \ {n + 1} = 1 .. n
<1>1. n + 1 \in 1 .. n + 1 /\ \A y \in 1 .. n + 1 : n + 1 >= y
  OBVIOUS
<1>2. \A x \in 1 .. n + 1 : (\A y \in 1 .. n + 1 : x >= y) => x = n + 1
  BY <1>1
<1>3. Max(1 .. n + 1) = n + 1
  BY <1>1, <1>2 DEF Max
<1> QED BY <1>3

\* FoldLeft is defined by a function on sets of places: there is one.
LEMMA FoldExists ==
  ASSUME NEW T, NEW n \in Nat, NEW start \in T, NEW step \in [T \X (1 .. n) -> T]
  PROVE  \E iter \in [SUBSET (1 .. n) -> T] : FoldsSets(iter, n, start, step)
<1> DEFINE D == 1 .. n
           Goes(f, k) == \A s \in SUBSET (1 .. k) : f[s] = IF s = {} THEN start ELSE step[<<f[s \ {Max(s)}], Max(s)>>]
           S == {k \in 0 .. n : \E f \in [SUBSET D -> T] : Goes(f, k)}
<1>1. 0 \in S
  <2> DEFINE f == [s \in SUBSET D |-> start]
  <2>1. f \in [SUBSET D -> T]
    OBVIOUS
  <2>2. \A s \in SUBSET (1 .. 0) : s = {} /\ s \in SUBSET D
    OBVIOUS
  <2>3. Goes(f, 0) /\ 0 \in 0 .. n
    BY <2>2
  <2> QED BY <2>1, <2>3
<1>2. ASSUME NEW k \in 1 .. n, k - 1 \in S PROVE k \in S
  <2>1. PICK f \in [SUBSET D -> T] : Goes(f, k - 1)
    BY <1>2
  <2> DEFINE g == [s \in SUBSET D |-> IF k \in s THEN step[<<f[s \ {k}], k>>] ELSE f[s]]
  <2>2. ASSUME NEW s \in SUBSET D PROVE g[s] = (IF k \in s THEN step[<<f[s \ {k}], k>>] ELSE f[s]) /\ g[s] \in T
    <3>1. s \ {k} \in SUBSET D /\ f[s \ {k}] \in T /\ f[s] \in T
      OBVIOUS
    <3> QED BY <3>1
  <2>3. g \in [SUBSET D -> T]
    <3>1. g = [s \in SUBSET D |-> g[s]]
      OBVIOUS
    <3> HIDE DEF g
    <3> QED BY <2>2, <3>1
  <2> HIDE DEF g
  <2>4. ASSUME NEW s \in SUBSET (1 .. k)
        PROVE  g[s] = IF s = {} THEN start ELSE step[<<g[s \ {Max(s)}], Max(s)>>]
    <3>1. s \in SUBSET D /\ k \in Nat
      OBVIOUS
    <3>2. CASE k \in s
      <4>1. \A y \in s : k >= y
        BY <3>1
      <4>2. \A x \in s : (\A y \in s : x >= y) => x = k
        BY <3>1, <3>2
      <4>3. Max(s) = k
        BY <3>2, <4>1, <4>2 DEF Max
      <4>4. s \ {k} \in SUBSET D /\ k \notin s \ {k}
        BY <3>1
      <4>5. g[s \ {k}] = f[s \ {k}]
        BY <2>2, <4>4
      <4> QED BY <2>2, <3>1, <3>2, <4>3, <4>5
    <3>3. CASE k \notin s
      <4>1. s \in SUBSET (1 .. k - 1)
        BY <3>1, <3>3
      <4>2. k \notin s \ {Max(s)} /\ s \ {Max(s)} \in SUBSET D
        BY <3>1, <3>3
      <4>3. g[s] = f[s] /\ g[s \ {Max(s)}] = f[s \ {Max(s)}]
        BY <2>2, <3>1, <3>3, <4>2
      <4> QED BY <2>1, <4>1, <4>3
    <3> QED BY <3>2, <3>3
  <2>5. k \in 0 .. n /\ Goes(g, k)
    BY <2>4
  <2> QED BY <2>3, <2>5
<1>3. n \in S
  <2> HIDE DEF S
  <2> QED BY <1>1, <1>2, Upwards
<1>4. PICK f \in [SUBSET D -> T] : Goes(f, n)
  BY <1>3
<1> QED BY <1>4 DEF FoldsSets

\* A fold over a sequence looks at the last place of 1 .. i, and then at those before.
LEMMA Places ==
  ASSUME NEW n \in Nat
  PROVE  /\ 1 .. 0 = {} /\ {} \in SUBSET (1 .. n)
         /\ \A i \in 1 .. n : /\ Max(1 .. i) = i /\ (1 .. i) \ {i} = 1 .. i - 1
                              /\ 1 .. i \in SUBSET (1 .. n) /\ 1 .. i # {}
<1>1. ASSUME NEW i \in 1 .. n PROVE Max(1 .. i) = i /\ (1 .. i) \ {i} = 1 .. i - 1
  <2>1. i - 1 \in Nat /\ i - 1 + 1 = i
    OBVIOUS
  <2> QED BY <2>1, MaxOfPlaces
<1>2. \A i \in 1 .. n : 1 .. i \in SUBSET (1 .. n) /\ 1 .. i # {}
  OBVIOUS
<1>3. 1 .. 0 = {} /\ {} \in SUBSET (1 .. n)
  OBVIOUS
<1> QED BY <1>1, <1>2, <1>3

\* The greatest of the places that some predicate keeps is one of them.
LEMMA MaxInside ==
  ASSUME NEW n \in Nat, NEW s \in SUBSET (1 .. n), s # {}
  PROVE  Max(s) \in s
<1> DEFINE S == {k \in 0 .. n : s \cap (1 .. k) = {} \/ \E x \in s : \A y \in s \cap (1 .. k) : x >= y}
<1>1. 0 \in S
  OBVIOUS
<1>2. ASSUME NEW k \in 1 .. n, k - 1 \in S PROVE k \in S
  <2>1. CASE k \in s
    <3>1. k \in 0 .. n /\ \A y \in s \cap (1 .. k) : k >= y
      OBVIOUS
    <3> QED BY <2>1, <3>1
  <2>2. CASE k \notin s
    <3>1. s \cap (1 .. k) = s \cap (1 .. k - 1)
      BY <2>2
    <3> QED BY <1>2, <3>1
  <2> QED BY <2>1, <2>2
<1>3. n \in S
  <2> HIDE DEF S
  <2> QED BY <1>1, <1>2, Upwards
<1>4. s \cap (1 .. n) = s
  OBVIOUS
<1>5. PICK x \in s : \A y \in s : x >= y
  BY <1>3, <1>4
<1> QED BY <1>5 DEF Max

\* FlattenSeq joins sequences one by one.
Joins(at, seqs) == at[0] = <<>> /\ \A i \in 1 .. Len(seqs) : at[i] = at[i - 1] \o seqs[i]

\* FlattenSeq joins its sequences one by one.
LEMMA Flattens ==
  ASSUME NEW S, NEW seqs \in Seq(Seq(S))
  PROVE  \E at \in [0 .. Len(seqs) -> Seq(S)] : Joins(at, seqs) /\ FlattenSeq(seqs) = at[Len(seqs)]
<1> DEFINE n == Len(seqs)
           step == [p \in Seq(S) \X (1 .. n) |-> p[1] \o seqs[p[2]]]
<1>1. n \in Nat /\ <<>> \in Seq(S) /\ \A i \in 1 .. n : seqs[i] \in Seq(S)
  OBVIOUS
<1>2. step \in [Seq(S) \X (1 .. n) -> Seq(S)] /\ \A s \in Seq(S), i \in 1 .. n : step[<<s, i>>] = s \o seqs[i]
  <2> HIDE DEF n
  <2>1. \A p \in Seq(S) \X (1 .. n) : p[1] \o seqs[p[2]] \in Seq(S)
    BY <1>1
  <2> QED BY <2>1
<1> HIDE DEF n, step
<1>3. PICK at \in [0 .. n -> Seq(S)] : Walks(at, n, <<>>, step)
  BY <1>1, <1>2, Walk
<1>4. \A i \in 1 .. n : at[i] = at[i - 1] \o seqs[i]
  <2>1. \A i \in 1 .. n : at[i - 1] \in Seq(S)
    BY <1>1
  <2> QED BY <1>2, <1>3, <2>1 DEF Walks
<1>5. FlattenSeq(seqs) = at[n]
  <2>1. CASE n = 0
    <3>1. seqs = <<>>
      BY <2>1 DEF n
    <3> QED BY <1>3, <2>1, <3>1 DEF FlattenSeq, n, Walks
  <2>2. CASE n # 0
    <3> DEFINE Eq(f) == f = [i \in 1 .. n |-> IF i = 1 THEN seqs[i] ELSE f[i - 1] \o seqs[i]]
               f0 == [i \in 1 .. n |-> at[i]]
               f == CHOOSE g : Eq(g)
               R == {i \in 0 .. n : i = 0 \/ f[i] = at[i]}
    <3>1. at[1] = seqs[1]
      <4>1. 1 \in 1 .. n /\ 1 - 1 = 0
        BY <1>1, <2>2
      <4>2. at[1] = <<>> \o seqs[1] /\ seqs[1] \in Seq(S)
        BY <1>1, <1>3, <1>4, <4>1 DEF Walks
      <4> QED BY <4>2, ConcatEmptySeq
    <3>2. Eq(f0)
      <4>1. \A i \in 1 .. n : i # 1 => f0[i - 1] = at[i - 1]
        BY <1>1
      <4>2. \A i \in 1 .. n : f0[i] = IF i = 1 THEN seqs[i] ELSE f0[i - 1] \o seqs[i]
        BY <1>1, <1>4, <3>1, <4>1
      <4>3. f0 = [i \in 1 .. n |-> f0[i]]
        OBVIOUS
      <4> HIDE DEF f0
      <4> QED BY <4>2, <4>3
    <3>3. Eq(f)
      <4> HIDE DEF Eq
      <4> QED BY <3>2
    <3>4. FlattenSeq(seqs) = f[n]
      BY <2>2 DEF FlattenSeq, n
    <3>e. \A i \in 1 .. n : f[i] = IF i = 1 THEN seqs[i] ELSE f[i - 1] \o seqs[i]
      <4> HIDE DEF f
      <4> QED BY <3>3
    <3> HIDE DEF f, Eq, f0
    <3>5. 0 \in R
      BY <1>1
    <3>6. ASSUME NEW i \in 1 .. n, i - 1 \in R PROVE i \in R
      <4>1. CASE i = 1
        BY <3>1, <3>e, <4>1
      <4>2. CASE i # 1
        <5>1. f[i - 1] = at[i - 1] /\ i - 1 # 0
          BY <3>6, <4>2
        <5>2. f[i] = at[i]
          BY <1>4, <3>e, <4>2, <5>1
        <5> QED BY <5>2
      <4> QED BY <4>1, <4>2
    <3>7. n \in R
      <4> HIDE DEF R
      <4>1. \A i \in 0 .. n : i \in R
        BY <1>1, <3>5, <3>6, Upwards
      <4> QED BY <1>1, <4>1
    <3> QED BY <1>1, <2>2, <3>4, <3>7
  <2> QED BY <2>1, <2>2
<1> QED BY <1>3, <1>4, <1>5 DEF n, Walks, Joins

-----------------------------------------------------------------------------

\* The lines of a text.
TextOf(text) == DOMAIN text = 1 .. Len(text) /\ Len(text) \in Nat

-----------------------------------------------------------------------------

\* What a fold's function on sets of places does with what it has reached.
Iterates(iter, T, n, step) ==
  \A s \in SUBSET (1 .. n) :
    s # {} /\ iter[s \ {Max(s)}] \in T => iter[s] = step[<<iter[s \ {Max(s)}], Max(s)>>]

\* A walk of which that function has the end.
Arrives(at, n, start, step, iter) == Walks(at, n, start, step) /\ iter[1 .. n] = at[n]

\* What the definition of a fold says of its function is enough to go from place to place.
LEMMA FoldWalks ==
  ASSUME NEW T, NEW n \in Nat, NEW start \in T, NEW step \in [T \X (1 .. n) -> T], NEW iter, iter[{}] = start,
         Iterates(iter, T, n, step)
  PROVE  \E at \in [0 .. n -> T] : Arrives(at, n, start, step, iter)
<1> DEFINE at == [i \in 0 .. n |-> iter[1 .. i]]
           S == {i \in 0 .. n : at[i] \in T}
<1>1. at[0] = start /\ at[n] = iter[1 .. n]
  BY Places
<1>2. ASSUME NEW i \in 1 .. n, at[i - 1] \in T PROVE at[i] = step[<<at[i - 1], i>>]
  <2>1. Max(1 .. i) = i /\ (1 .. i) \ {i} = 1 .. i - 1 /\ 1 .. i \in SUBSET (1 .. n) /\ 1 .. i # {}
    BY Places
  <2>2. at[i - 1] = iter[1 .. i - 1] /\ at[i] = iter[1 .. i]
    OBVIOUS
  <2> QED BY <1>2, <2>1, <2>2 DEF Iterates
<1> HIDE DEF at
<1>3. \A i \in 0 .. n : i \in S
  <2>1. 0 \in S
    BY <1>1
  <2>2. ASSUME NEW i \in 1 .. n, i - 1 \in S PROVE i \in S
    <3>1. at[i - 1] \in T /\ i \in 0 .. n
      BY <2>2
    <3>2. step[<<at[i - 1], i>>] \in T
      BY <3>1
    <3> QED BY <1>2, <3>1, <3>2
  <2> HIDE DEF S
  <2> QED BY <2>1, <2>2, Upwards
<1>4. at \in [0 .. n -> T]
  BY <1>3 DEF at
<1>5. \A i \in 1 .. n : at[i - 1] \in T
  BY <1>3
<1> QED BY <1>1, <1>2, <1>4, <1>5 DEF Walks, Arrives

-----------------------------------------------------------------------------

\* A function that is defined from each place by the one before is such a walk.
Follows(f, T, n, step) == \A i \in 1 .. n : f[i - 1] \in T => f[i] = step[<<f[i - 1], i>>]

\* What a recursive function of 0 .. n computes goes from each place to the next.
LEMMA RecursionWalks ==
  ASSUME NEW T, NEW n \in Nat, NEW start \in T, NEW step \in [T \X (1 .. n) -> T], NEW f, f = [i \in 0 .. n |-> f[i]],
         f[0] = start, Follows(f, T, n, step)
  PROVE  f \in [0 .. n -> T] /\ Walks(f, n, start, step)
<1> DEFINE S == {i \in 0 .. n : f[i] \in T}
<1>1. 0 \in S
  OBVIOUS
<1>2. ASSUME NEW i \in 1 .. n, i - 1 \in S PROVE i \in S
  <2>1. f[i - 1] \in T /\ i \in 0 .. n
    BY <1>2
  <2>2. step[<<f[i - 1], i>>] \in T
    BY <2>1
  <2> QED BY <2>1, <2>2 DEF Follows
<1>3. \A i \in 0 .. n : i \in S
  <2> HIDE DEF S
  <2> QED BY <1>1, <1>2, Upwards
<1>4. \A i \in 1 .. n : f[i - 1] \in T
  BY <1>3
<1>5. f \in [0 .. n -> T]
  BY <1>3
<1> QED BY <1>4, <1>5 DEF Follows, Walks

-----------------------------------------------------------------------------
(* hook: what an agent is told *)

\* Parts whose size is known, and places of theirs.
PartsOk(parts) == TextOf(parts) /\ \A i \in DOMAIN parts : parts[i].size \in Nat
Paid(parts, sum, i) == sum + parts[i].size + (IF sum > 0 THEN 2 ELSE 0)
PaysOff(at, parts, kept) == at[0] = 0 /\ \A k \in 1 .. Len(kept) : at[k] = Paid(parts, at[k - 1], kept[k])

\* The parts are paid for one by one.
LEMMA CostWalks ==
  ASSUME NEW parts, NEW kept, PartsOk(parts), kept \in Seq(DOMAIN parts)
  PROVE  \E at \in [0 .. Len(kept) -> Nat] : PaysOff(at, parts, kept) /\ Cost(parts, kept) = at[Len(kept)]
<1> DEFINE T == Nat
           n == Len(kept)
           seq == kept
           step == [p \in T \X (1 .. n) |-> Paid(parts, p[1], seq[p[2]])]
           Eq(f) == f = [s \in SUBSET DOMAIN seq |-> IF s = {} THEN 0 ELSE Paid(parts, f[s \ {Max(s)}], seq[Max(s)])]
           iter == CHOOSE f : Eq(f)
<1>1. n \in Nat /\ DOMAIN seq = 1 .. n
  OBVIOUS
<1>2. 0 \in T
  OBVIOUS
<1>4. step \in [T \X (1 .. n) -> T] /\ \A s \in T, i \in 1 .. n : step[<<s, i>>] = Paid(parts, s, seq[i])
  <2>1. \A s \in T, i \in 1 .. n : Paid(parts, s, seq[i]) \in T
    <3>1. \A i \in 1 .. n : parts[seq[i]].size \in Nat
      BY <1>1 DEF PartsOk
    <3> QED BY <3>1 DEF Paid
  <2> HIDE DEF T, n, seq
  <2> QED BY <2>1
<1>5. Cost(parts, kept) = iter[DOMAIN seq]
  BY DEF Cost, Paid, FoldLeft, MapThenFoldSet
<1> HIDE DEF T, n, step, seq
<1>6. \E f : Eq(f)
  <2>1. PICK f \in [SUBSET (1 .. n) -> T] : FoldsSets(f, n, 0, step)
    BY <1>1, <1>2, <1>4, FoldExists
  <2>2. ASSUME NEW s \in SUBSET (1 .. n), s # {} PROVE f[s] = Paid(parts, f[s \ {Max(s)}], seq[Max(s)])
    <3>1. Max(s) \in 1 .. n /\ s \ {Max(s)} \in SUBSET (1 .. n)
      BY <1>1, <2>2, MaxInside
    <3>2. f[s \ {Max(s)}] \in T
      BY <3>1
    <3>3. f[s] = step[<<f[s \ {Max(s)}], Max(s)>>]
      BY <2>1, <2>2 DEF FoldsSets
    <3>4. step[<<f[s \ {Max(s)}], Max(s)>>] = Paid(parts, f[s \ {Max(s)}], seq[Max(s)])
      BY <1>1, <1>4, <3>1, <3>2
    <3> QED BY <3>3, <3>4
  <2>3. f[{}] = 0
    BY <2>1 DEF FoldsSets
  <2>4. Eq(f)
    BY <1>1, <2>1, <2>2, <2>3
  <2> QED BY <2>4
<1>7. Eq(iter)
  <2> HIDE DEF Eq
  <2> QED BY <1>6
<1> HIDE DEF iter
<1>8. iter[{}] = 0
  BY <1>7
<1>9. ASSUME NEW s \in SUBSET (1 .. n), s # {}, iter[s \ {Max(s)}] \in T
      PROVE iter[s] = step[<<iter[s \ {Max(s)}], Max(s)>>]
  <2>1. Max(s) \in 1 .. n
    BY <1>1, <1>9, MaxInside
  <2>2. step[<<iter[s \ {Max(s)}], Max(s)>>] = Paid(parts, iter[s \ {Max(s)}], seq[Max(s)])
    BY <1>1, <1>4, <1>9, <2>1
  <2>3. iter[s] = Paid(parts, iter[s \ {Max(s)}], seq[Max(s)])
    BY <1>1, <1>7, <1>9
  <2> QED BY <2>2, <2>3
<1> HIDE DEF Eq
<1>g. Iterates(iter, T, n, step)
  BY <1>9 DEF Iterates
<1>10. PICK at \in [0 .. n -> T] : Arrives(at, n, 0, step, iter)
  BY <1>1, <1>2, <1>4, <1>8, <1>g, FoldWalks
<1>11. ASSUME NEW i \in 1 .. n PROVE at[i] = Paid(parts, at[i - 1], seq[i])
  <2>1. at[i - 1] \in T
    BY <1>1
  <2> QED BY <1>4, <1>10, <2>1 DEF Walks, Arrives
<1> QED BY <1>1, <1>5, <1>10, <1>11 DEF n, T, seq, PaysOff, Walks, Arrives

\* What one more part costs.
LEMMA CostOfOneMore ==
  ASSUME NEW parts, PartsOk(parts), NEW kept \in Seq(DOMAIN parts), NEW p \in DOMAIN parts
  PROVE  Cost(parts, Append(kept, p)) = Paid(parts, Cost(parts, kept), p) /\ Cost(parts, kept) \in Nat
<1> DEFINE n == Len(kept)
           more == Append(kept, p)
<1>1. /\ more \in Seq(DOMAIN parts) /\ n \in Nat /\ Len(more) = n + 1 /\ more[n + 1] = p
      /\ \A k \in 1 .. n : more[k] = kept[k]
  OBVIOUS
<1> HIDE DEF more, n
<1>2. PICK f \in [0 .. n -> Nat] : PaysOff(f, parts, kept) /\ Cost(parts, kept) = f[n]
  BY CostWalks DEF n
<1>3. PICK g \in [0 .. n + 1 -> Nat] : PaysOff(g, parts, more) /\ Cost(parts, more) = g[n + 1]
  BY <1>1, CostWalks
<1> DEFINE S == {k \in 0 .. n : g[k] = f[k]}
<1>4. 0 \in S
  BY <1>1, <1>2, <1>3 DEF PaysOff
<1>5. ASSUME NEW k \in 1 .. n, k - 1 \in S PROVE k \in S
  <2>1. g[k] = Paid(parts, g[k - 1], more[k])
    BY <1>1, <1>3 DEF PaysOff
  <2>2. f[k] = Paid(parts, f[k - 1], kept[k])
    BY <1>2 DEF PaysOff, n
  <2> QED BY <1>1, <1>5, <2>1, <2>2
<1>6. n \in S
  <2> HIDE DEF S
  <2>1. \A k \in 0 .. n : k \in S
    BY <1>1, <1>4, <1>5, Upwards
  <2> QED BY <1>1, <2>1
<1>7. g[n + 1] = Paid(parts, g[n], p)
  <2>1. n + 1 \in 1 .. n + 1 /\ n + 1 - 1 = n
    BY <1>1
  <2> QED BY <1>1, <1>3, <2>1 DEF PaysOff
<1>8. f[n] \in Nat
  BY <1>1, <1>2
<1> QED BY <1>2, <1>3, <1>6, <1>7, <1>8 DEF more

\* No part costs nothing.
LEMMA NothingCosts ==
  ASSUME NEW parts, PartsOk(parts)
  PROVE  Cost(parts, <<>>) = 0
<1>1. <<>> \in Seq(DOMAIN parts) /\ Len(<<>>) = 0
  OBVIOUS
<1>2. PICK f \in [0 .. Len(<<>>) -> Nat] : PaysOff(f, parts, <<>>) /\ Cost(parts, <<>>) = f[Len(<<>>)]
  BY <1>1, CostWalks
<1> QED BY <1>1, <1>2 DEF PaysOff

\* What has been taken so far.
Takings(parts) == [kept : Seq(DOMAIN parts), used : Nat]
Fits(parts, limit, s) == s.used = Cost(parts, s.kept) /\ s.used <= limit /\ IsInjective(s.kept)
Over(parts, limit, used, i) == Paid(parts, used, i) > limit

\* One more part that is not taken yet is, or is too much, now and later on.
LEMMA TakeFits ==
  ASSUME NEW parts, PartsOk(parts), NEW limit \in Nat, NEW s \in Takings(parts), Fits(parts, limit, s),
         NEW i \in DOMAIN parts, i \notin ToSet(s.kept)
  PROVE  LET t == Take(parts, limit, s, i) IN
           /\ t \in Takings(parts) /\ Fits(parts, limit, t) /\ s.used <= t.used
           /\ ToSet(s.kept) \subseteq ToSet(t.kept) /\ ToSet(t.kept) \subseteq ToSet(s.kept) \cup {i}
           /\ i \in ToSet(t.kept) \/ Over(parts, limit, t.used, i)
<1> DEFINE t == Take(parts, limit, s, i)
           cost == Paid(parts, s.used, i)
           more == Append(s.kept, i)
           n == Len(s.kept)
<1>1. s.kept \in Seq(DOMAIN parts) /\ s.used \in Nat /\ parts[i].size \in Nat
  BY DEF Takings, PartsOk
<1>2. cost \in Nat /\ s.used <= cost
  <2>1. \A u, z \in Nat : u + z + (IF u > 0 THEN 2 ELSE 0) \in Nat /\ u <= u + z + (IF u > 0 THEN 2 ELSE 0)
    OBVIOUS
  <2> QED BY ONLY <1>1, <2>1 DEF Paid, cost
<1>3. t = IF cost > limit THEN s ELSE [kept |-> more, used |-> cost]
  <2>1. s.used + (parts[i].size + (IF s.used > 0 THEN 2 ELSE 0)) = cost
    BY <1>1 DEF Paid
  <2> QED BY <2>1 DEF Take
<1>4. CASE cost > limit
  <2>1. t = s
    BY <1>3, <1>4
  <2> HIDE DEF t
  <2> QED BY <1>1, <1>4, <2>1 DEF Over, t
<1>5. CASE ~(cost > limit)
  <2>1. t = [kept |-> more, used |-> cost]
    BY <1>3, <1>5
  <2>2. /\ more \in Seq(DOMAIN parts) /\ n \in Nat /\ DOMAIN more = 1 .. n + 1 /\ DOMAIN s.kept = 1 .. n
        /\ more[n + 1] = i /\ \A k \in 1 .. n : more[k] = s.kept[k]
    BY <1>1
  <2>3. t \in Takings(parts)
    BY <1>2, <2>1, <2>2 DEF Takings
  <2>4. cost = Cost(parts, more)
    BY <1>1, CostOfOneMore DEF Fits
  <2> HIDE DEF more, n, t, cost
  <2>5. ToSet(more) = ToSet(s.kept) \cup {i}
    <3>1. \A k \in 1 .. n + 1 : k = n + 1 \/ k \in 1 .. n
      BY <2>2
    <3>2. n + 1 \in 1 .. n + 1 /\ \A k \in 1 .. n : k \in 1 .. n + 1
      BY <2>2
    <3> QED BY <2>2, <3>1, <3>2 DEF ToSet
  <2>6. IsInjective(more)
    <3> SUFFICES ASSUME NEW a \in 1 .. n + 1, NEW b \in 1 .. n + 1, more[a] = more[b] PROVE a = b
      BY <2>2 DEF IsInjective
    <3>1. \A k \in 1 .. n + 1 : k = n + 1 \/ (k \in 1 .. n /\ more[k] = s.kept[k] /\ more[k] # i)
      <4>1. \A k \in 1 .. n + 1 : k = n + 1 \/ k \in 1 .. n
        BY <2>2
      <4>2. \A k \in 1 .. n : s.kept[k] \in ToSet(s.kept)
        BY <2>2 DEF ToSet
      <4> QED BY <2>2, <4>1, <4>2
    <3> QED BY <2>2, <3>1 DEF Fits, IsInjective
  <2>7. Fits(parts, limit, t)
    BY <1>2, <1>5, <2>1, <2>4, <2>6 DEF Fits
  <2> QED BY <1>2, <2>1, <2>3, <2>5, <2>7 DEF t
<1> QED BY <1>4, <1>5

\* A part of these is taken or is not; the others are left.
Tried(parts, limit, picks, s, i) == IF i \in picks THEN Take(parts, limit, s, i) ELSE s
TriesAll(at, parts, limit, picks, start) ==
  at[0] = start /\ \A i \in 1 .. Len(parts) : at[i] = Tried(parts, limit, picks, at[i - 1], i)

\* A pass tries the parts one by one.
LEMMA PassWalks ==
  ASSUME NEW parts, NEW limit, NEW picks, NEW start, PartsOk(parts), limit \in Nat, start \in Takings(parts)
  PROVE  \E at \in [0 .. Len(parts) -> Takings(parts)] : TriesAll(at, parts, limit, picks, start) /\ Pass(parts, limit, picks, start) = at[Len(parts)]
<1> DEFINE T == Takings(parts)
           n == Len(parts)
           seq == [i \in DOMAIN parts |-> i]
           step == [p \in T \X (1 .. n) |-> Tried(parts, limit, picks, p[1], seq[p[2]])]
           Eq(f) == f = [s \in SUBSET DOMAIN seq |-> IF s = {} THEN start ELSE Tried(parts, limit, picks, f[s \ {Max(s)}], seq[Max(s)])]
           iter == CHOOSE f : Eq(f)
<1>1. n \in Nat /\ DOMAIN seq = 1 .. n
  BY DEF PartsOk, TextOf
<1>2. start \in T
  OBVIOUS
<1>4. step \in [T \X (1 .. n) -> T] /\ \A s \in T, i \in 1 .. n : step[<<s, i>>] = Tried(parts, limit, picks, s, seq[i])
  <2>1. \A s \in T, i \in 1 .. n : Tried(parts, limit, picks, s, seq[i]) \in T
    <3> SUFFICES ASSUME NEW s \in T, NEW i \in 1 .. n PROVE Tried(parts, limit, picks, s, i) \in T
      OBVIOUS
    <3>1. i \in DOMAIN parts /\ parts[i].size \in Nat /\ s.used \in Nat /\ s.kept \in Seq(DOMAIN parts)
      BY <1>1 DEF PartsOk, Takings
    <3>2. Append(s.kept, i) \in Seq(DOMAIN parts)
      BY <3>1
    <3>3. s.used + (parts[i].size + (IF s.used > 0 THEN 2 ELSE 0)) \in Nat
      BY <3>1
    <3>4. \A k, u : k \in Seq(DOMAIN parts) /\ u \in Nat => [kept |-> k, used |-> u] \in T
      BY DEF Takings
    <3>5. Take(parts, limit, s, i) \in T
      BY <3>2, <3>3, <3>4 DEF Take
    <3> QED BY <3>5 DEF Tried
  <2> HIDE DEF T, n, seq
  <2> QED BY <2>1
<1>5. Pass(parts, limit, picks, start) = iter[DOMAIN seq]
  BY DEF Pass, Tried, FoldLeft, MapThenFoldSet
<1> HIDE DEF T, n, step, seq
<1>6. \E f : Eq(f)
  <2>1. PICK f \in [SUBSET (1 .. n) -> T] : FoldsSets(f, n, start, step)
    BY <1>1, <1>2, <1>4, FoldExists
  <2>2. ASSUME NEW s \in SUBSET (1 .. n), s # {} PROVE f[s] = Tried(parts, limit, picks, f[s \ {Max(s)}], seq[Max(s)])
    <3>1. Max(s) \in 1 .. n /\ s \ {Max(s)} \in SUBSET (1 .. n)
      BY <1>1, <2>2, MaxInside
    <3>2. f[s \ {Max(s)}] \in T
      BY <3>1
    <3>3. f[s] = step[<<f[s \ {Max(s)}], Max(s)>>]
      BY <2>1, <2>2 DEF FoldsSets
    <3>4. step[<<f[s \ {Max(s)}], Max(s)>>] = Tried(parts, limit, picks, f[s \ {Max(s)}], seq[Max(s)])
      BY <1>1, <1>4, <3>1, <3>2
    <3> QED BY <3>3, <3>4
  <2>3. f[{}] = start
    BY <2>1 DEF FoldsSets
  <2>4. Eq(f)
    BY <1>1, <2>1, <2>2, <2>3
  <2> QED BY <2>4
<1>7. Eq(iter)
  <2> HIDE DEF Eq
  <2> QED BY <1>6
<1> HIDE DEF iter
<1>8. iter[{}] = start
  BY <1>7
<1>9. ASSUME NEW s \in SUBSET (1 .. n), s # {}, iter[s \ {Max(s)}] \in T
      PROVE iter[s] = step[<<iter[s \ {Max(s)}], Max(s)>>]
  <2>1. Max(s) \in 1 .. n
    BY <1>1, <1>9, MaxInside
  <2>2. step[<<iter[s \ {Max(s)}], Max(s)>>] = Tried(parts, limit, picks, iter[s \ {Max(s)}], seq[Max(s)])
    BY <1>1, <1>4, <1>9, <2>1
  <2>3. iter[s] = Tried(parts, limit, picks, iter[s \ {Max(s)}], seq[Max(s)])
    BY <1>1, <1>7, <1>9
  <2> QED BY <2>2, <2>3
<1> HIDE DEF Eq
<1>g. Iterates(iter, T, n, step)
  BY <1>9 DEF Iterates
<1>10. PICK at \in [0 .. n -> T] : Arrives(at, n, start, step, iter)
  BY <1>1, <1>2, <1>4, <1>8, <1>g, FoldWalks
<1>11. ASSUME NEW i \in 1 .. n PROVE at[i] = Tried(parts, limit, picks, at[i - 1], seq[i])
  <2>1. at[i - 1] \in T
    BY <1>1
  <2> QED BY <1>4, <1>10, <2>1 DEF Walks, Arrives
<1> QED BY <1>1, <1>5, <1>10, <1>11 DEF n, T, seq, TriesAll, Walks, Arrives

\* After a pass, what it was to try is taken or is too much.
PassedOn(parts, limit, picks, start, s) ==
  /\ s \in Takings(parts) /\ Fits(parts, limit, s) /\ start.used <= s.used
  /\ ToSet(start.kept) \subseteq ToSet(s.kept) /\ ToSet(s.kept) \subseteq ToSet(start.kept) \cup picks
  /\ \A i \in picks : i \in ToSet(s.kept) \/ Over(parts, limit, s.used, i)

\* What is too much stays too much when more is used.
LEMMA OverStays ==
  ASSUME NEW parts, PartsOk(parts), NEW limit \in Nat, NEW i \in DOMAIN parts, NEW u \in Nat, NEW v \in Nat, u <= v,
         Over(parts, limit, u, i)
  PROVE  Over(parts, limit, v, i)
<1>1. parts[i].size \in Nat
  BY DEF PartsOk
<1> QED BY <1>1 DEF Over, Paid

\* A pass keeps what fits, all that was kept, and of its picks whatever there is room for.
LEMMA PassFits ==
  ASSUME NEW parts, PartsOk(parts), NEW limit \in Nat, NEW start \in Takings(parts), Fits(parts, limit, start),
         NEW picks \in SUBSET DOMAIN parts, picks \cap ToSet(start.kept) = {}
  PROVE  PassedOn(parts, limit, picks, start, Pass(parts, limit, picks, start))
<1> DEFINE n == Len(parts)
           Upto(k) == picks \cap (1 .. k)
<1>1. n \in Nat /\ DOMAIN parts = 1 .. n
  BY DEF PartsOk, TextOf
<1>2. PICK at \in [0 .. n -> Takings(parts)] :
        TriesAll(at, parts, limit, picks, start) /\ Pass(parts, limit, picks, start) = at[n]
  BY PassWalks
<1> HIDE DEF n
<1> DEFINE S == {k \in 0 .. n : PassedOn(parts, limit, Upto(k), start, at[k])}
<1>3. 0 \in S
  <2>1. Upto(0) = {} /\ at[0] = start /\ start.used \in Nat
    BY <1>2 DEF TriesAll, Takings
  <2>2. PassedOn(parts, limit, {}, start, start)
    BY <2>1 DEF PassedOn
  <2> QED BY <1>1, <2>1, <2>2
<1>4. ASSUME NEW k \in 1 .. n, k - 1 \in S PROVE k \in S
  <2> DEFINE s == at[k - 1]
             t == at[k]
  <2>1. t = Tried(parts, limit, picks, s, k)
    BY <1>2 DEF TriesAll, n
  <2>2. PassedOn(parts, limit, Upto(k - 1), start, s) /\ s.used \in Nat /\ start.used \in Nat
    BY <1>4 DEF PassedOn, Takings
  <2>3. k \in 0 .. n /\ k \in DOMAIN parts
    BY <1>1
  <2> HIDE DEF s, t
  <2>4. CASE k \notin picks
    <3>1. t = s
      BY <2>1, <2>4 DEF Tried
    <3>2. Upto(k) = Upto(k - 1)
      BY <1>1, <2>4
    <3> QED BY <2>2, <2>3, <3>1, <3>2 DEF t
  <2>5. CASE k \in picks
    <3>1. Upto(k) = Upto(k - 1) \cup {k} /\ k \notin Upto(k - 1)
      BY <1>1, <2>5
    <3>2. t = Take(parts, limit, s, k)
      BY <2>1, <2>5 DEF Tried
    <3>3. k \notin ToSet(s.kept)
      BY <2>2, <2>5, <3>1 DEF PassedOn
    <3> HIDE DEF Upto
    <3>4. /\ t \in Takings(parts) /\ Fits(parts, limit, t) /\ s.used <= t.used
          /\ ToSet(s.kept) \subseteq ToSet(t.kept) /\ ToSet(t.kept) \subseteq ToSet(s.kept) \cup {k}
          /\ k \in ToSet(t.kept) \/ Over(parts, limit, t.used, k)
      BY <2>2, <2>3, <3>2, <3>3, TakeFits DEF PassedOn
    <3>5. t.used \in Nat /\ start.used <= t.used
      <4>1. t.used \in Nat
        BY <3>4 DEF Takings
      <4> QED BY <2>2, <3>4, <4>1 DEF PassedOn
    <3>6. ASSUME NEW i \in Upto(k - 1) PROVE i \in ToSet(t.kept) \/ Over(parts, limit, t.used, i)
      <4>1. i \in DOMAIN parts
        BY DEF Upto
      <4> QED BY <2>2, <3>4, <3>5, <4>1, OverStays DEF PassedOn
    <3>7. ToSet(start.kept) \subseteq ToSet(t.kept) /\ ToSet(t.kept) \subseteq ToSet(start.kept) \cup Upto(k)
      BY <2>2, <3>1, <3>4 DEF PassedOn
    <3>8. PassedOn(parts, limit, Upto(k), start, t)
      BY <3>1, <3>4, <3>5, <3>6, <3>7 DEF PassedOn
    <3> QED BY <2>3, <3>8 DEF t
  <2> QED BY <2>4, <2>5
<1>5. n \in S
  <2> HIDE DEF S
  <2>1. \A k \in 0 .. n : k \in S
    BY <1>1, <1>3, <1>4, Upwards
  <2> QED BY <1>1, <2>1
<1>6. Upto(n) = picks
  BY <1>1
<1> QED BY <1>2, <1>5, <1>6

\* hook.fit, for any parts of which at most one is to be kept, and any limit: what is
\* told fits, tells a leak that fits, and leaves out nothing there is room for.
THEOREM ToldFits ==
  ASSUME NEW parts, PartsOk(parts), NEW limit \in Nat, \A i, j \in DOMAIN parts : parts[i].keep /\ parts[j].keep => i = j
  PROVE  FitsAndTells(parts, limit, Fit(parts, limit))
<1> DEFINE none == [kept |-> <<>>, used |-> 0]
           keeps == {i \in DOMAIN parts : parts[i].keep}
           first == Pass(parts, limit, keeps, none)
           rest == DOMAIN parts \ ToSet(first.kept)
           all == Pass(parts, limit, rest, first)
           reply == Fit(parts, limit)
<1>1. reply = [kept |-> all.kept, used |-> all.used, dropped |-> Len(parts) - Len(all.kept)]
  BY DEF Fit
<1>2. none \in Takings(parts) /\ Fits(parts, limit, none) /\ ToSet(none.kept) = {}
  <2>1. IsInjective(<<>>) /\ ToSet(<<>>) = {} /\ <<>> \in Seq(DOMAIN parts)
    BY DEF IsInjective, ToSet
  <2> QED BY <2>1, NothingCosts DEF Takings, Fits
<1>3. keeps \in SUBSET DOMAIN parts /\ keeps \cap ToSet(none.kept) = {}
  BY <1>2
<1> HIDE DEF none, reply
<1>4. PassedOn(parts, limit, keeps, none, first)
  <2> HIDE DEF keeps
  <2> QED BY <1>2, <1>3, PassFits
<1> HIDE DEF first
<1>5. PassedOn(parts, limit, rest, first, all)
  <2>1. rest \in SUBSET DOMAIN parts /\ rest \cap ToSet(first.kept) = {}
    OBVIOUS
  <2> HIDE DEF rest
  <2> QED BY <1>4, <2>1, PassFits DEF PassedOn
<1> HIDE DEF all
<1>6. all.kept \in Seq(DOMAIN parts) /\ all.used \in Nat /\ first.kept \in Seq(DOMAIN parts) /\ first.used \in Nat
  BY <1>4, <1>5 DEF PassedOn, Takings
<1>7. Len(parts) \in Nat /\ Len(all.kept) \in Nat
  BY <1>6 DEF PartsOk, TextOf
<1>8. Len(reply.kept) + reply.dropped = Len(parts)
  BY <1>1, <1>7
<1>9. ASSUME NEW i \in DOMAIN parts, i \notin ToSet(reply.kept)
      PROVE  /\ parts[i].size + reply.used + (IF reply.used > 0 THEN 2 ELSE 0) > limit
             /\ parts[i].keep => parts[i].size > limit
  <2>1. i \notin ToSet(all.kept) /\ i \in rest /\ parts[i].size \in Nat
    BY <1>1, <1>5, <1>9 DEF PassedOn, PartsOk
  <2>2. Over(parts, limit, all.used, i)
    BY <1>5, <2>1 DEF PassedOn
  <2>3. CASE ~parts[i].keep
    BY <1>1, <1>6, <2>1, <2>2, <2>3 DEF Over, Paid
  <2>4. CASE parts[i].keep
    <3>1. keeps = {i} /\ i \notin ToSet(first.kept)
      BY <2>1, <2>4
    <3>2. Over(parts, limit, first.used, i) /\ ToSet(first.kept) = {}
      BY <1>2, <1>4, <3>1 DEF PassedOn
    <3>3. first.kept = <<>>
      <4>1. \A k \in DOMAIN first.kept : first.kept[k] \in ToSet(first.kept)
        BY DEF ToSet
      <4>2. DOMAIN first.kept = {}
        BY <3>2, <4>1
      <4>3. \A q \in Seq(DOMAIN parts) : q # <<>> => 1 \in DOMAIN q
        <5>1. \A q \in Seq(DOMAIN parts) : q # <<>> => Len(q) \in Nat \ {0}
          BY EmptySeq
        <5> QED BY <5>1
      <4> QED BY <1>6, <4>2, <4>3
    <3>4. first.used = 0
      BY <1>4, <3>3, NothingCosts DEF PassedOn, Fits
    <3>5. parts[i].size > limit
      BY <2>1, <3>2, <3>4 DEF Over, Paid
    <3> QED BY <1>1, <1>6, <2>1, <2>2, <3>5 DEF Over, Paid
  <2> QED BY <2>3, <2>4
<1>10. reply.used = Cost(parts, reply.kept) /\ reply.used <= limit /\ IsInjective(reply.kept)
  BY <1>1, <1>5 DEF PassedOn, Fits
<1> QED BY <1>8, <1>9, <1>10 DEF FitsAndTells, reply

-----------------------------------------------------------------------------
(* hook: the message of a commit *)

OpenDocs(n) == [in : 0 .. n, set : SUBSET (1 .. n)]
NoDocs == [in |-> 0, set |-> {}]
OpeningsGo(at, lines) == at[0] = NoDocs /\ \A i \in 1 .. Len(lines) : at[i] = OpeningLine(lines, at[i - 1], i)

\* The openings of a command are found line by line.
LEMMA OpeningsWalk ==
  ASSUME NEW lines, TextOf(lines)
  PROVE  \E at \in [0 .. Len(lines) -> OpenDocs(Len(lines))] : OpeningsGo(at, lines) /\ Openings(lines) = at[Len(lines)].set
<1> DEFINE n == Len(lines)
           T == OpenDocs(n)
           step == [p \in T \X (1 .. n) |-> OpeningLine(lines, p[1], p[2])]
           Eq(f) == f = [i \in 0 .. n |-> IF i = 0 THEN NoDocs ELSE OpeningLine(lines, f[i - 1], i)]
           at == CHOOSE f : Eq(f)
<1>1. n \in Nat /\ NoDocs \in T
  BY DEF TextOf, OpenDocs, NoDocs
<1>2. Openings(lines) = at[n].set
  BY DEF Openings, NoDocs
<1>3. ASSUME NEW s \in T, NEW i \in 1 .. n PROVE OpeningLine(lines, s, i) \in T
  <2>1. s.in \in 0 .. n /\ s.set \in SUBSET (1 .. n) /\ i \in 0 .. n
    BY <1>1 DEF OpenDocs
  <2>2. OpeningLine(lines, s, i) \in {s, [in |-> 0, set |-> s.set], [in |-> i, set |-> s.set \cup {i}]}
    BY DEF OpeningLine
  <2>3. \A k \in 0 .. n, x \in SUBSET (1 .. n) : [in |-> k, set |-> x] \in T
    BY DEF OpenDocs
  <2>4. 0 \in 0 .. n /\ s.set \cup {i} \in SUBSET (1 .. n)
    BY <1>1, <2>1
  <2> QED BY <2>1, <2>2, <2>3, <2>4
<1>4. step \in [T \X (1 .. n) -> T] /\ \A s \in T, i \in 1 .. n : step[<<s, i>>] = OpeningLine(lines, s, i)
  <2> HIDE DEF T, n
  <2> QED BY <1>3
<1> HIDE DEF T, n, step
<1>5. \E f : Eq(f)
  <2>1. PICK f \in [0 .. n -> T] : Walks(f, n, NoDocs, step)
    BY <1>1, <1>4, Walk
  <2>2. \A i \in 1 .. n : f[i - 1] \in T
    BY <1>1
  <2>3. \A i \in 0 .. n : f[i] = IF i = 0 THEN NoDocs ELSE OpeningLine(lines, f[i - 1], i)
    <3>1. \A i \in 1 .. n : f[i] = OpeningLine(lines, f[i - 1], i)
      BY <1>4, <2>1, <2>2 DEF Walks
    <3>2. \A i \in 0 .. n : i = 0 \/ i \in 1 .. n
      BY <1>1
    <3>3. \A i \in 1 .. n : i # 0
      BY <1>1
    <3> QED BY <2>1, <3>1, <3>2, <3>3 DEF Walks
  <2>4. Eq(f)
    BY <2>3
  <2> QED BY <2>4
<1>6. Eq(at)
  <2> HIDE DEF Eq
  <2> QED BY <1>5
<1> HIDE DEF at
<1>7. \A i \in 1 .. n : at[i] = OpeningLine(lines, at[i - 1], i)
  BY <1>1, <1>6
<1>8. at = [i \in 0 .. n |-> at[i]] /\ at[0] = NoDocs
  BY <1>1, <1>6
<1> HIDE DEF Eq
<1>9. Follows(at, T, n, step)
  BY <1>4, <1>7 DEF Follows
<1>10. at \in [0 .. n -> T] /\ Walks(at, n, NoDocs, step)
  BY <1>1, <1>4, <1>8, <1>9, RecursionWalks
<1> QED BY <1>2, <1>7, <1>8, <1>10 DEF OpeningsGo, n, T

\* What is open was found, and has not ended.
StillOpen(lines, s, k) ==
  /\ s.set \subseteq 1 .. k
  /\ s.in # 0 => s.in \in s.set /\ \A j \in s.in + 1 .. k : ~Ends(lines[j], lines[s.in])

\* A heredoc is open until a line ends it.
LEMMA OpenUntilEnds ==
  ASSUME NEW lines, TextOf(lines), NEW at \in [0 .. Len(lines) -> OpenDocs(Len(lines))], OpeningsGo(at, lines)
  PROVE  \A k \in 0 .. Len(lines) : StillOpen(lines, at[k], k)
<1> DEFINE n == Len(lines)
           S == {k \in 0 .. n : StillOpen(lines, at[k], k)}
<1>1. n \in Nat
  BY DEF TextOf
<1> HIDE DEF n
<1>2. 0 \in S
  BY <1>1 DEF OpeningsGo, NoDocs, StillOpen
<1>3. ASSUME NEW k \in 1 .. n, k - 1 \in S PROVE k \in S
  <2> DEFINE s == at[k - 1]
             t == at[k]
  <2>1. t = OpeningLine(lines, s, k)
    BY DEF OpeningsGo, n
  <2>2. StillOpen(lines, s, k - 1) /\ k \in 0 .. n /\ k \in Nat /\ k # 0
    BY <1>1, <1>3
  <2> HIDE DEF s, t
  <2>3. s.set \subseteq 1 .. k
    BY <2>2 DEF StillOpen
  <2>4. CASE s.in # 0
    <3>1. CASE Ends(lines[k], lines[s.in])
      <4>1. t.in = 0 /\ t.set = s.set
        BY <2>1, <2>4, <3>1 DEF OpeningLine
      <4> QED BY <2>2, <2>3, <4>1 DEF StillOpen, t
    <3>2. CASE ~Ends(lines[k], lines[s.in])
      <4>1. t = s
        BY <2>1, <2>4, <3>2 DEF OpeningLine
      <4>2. s.in \in s.set /\ s.in \in 1 .. k - 1
        BY <2>2, <2>4 DEF StillOpen
      <4>3. \A j \in s.in + 1 .. k : j = k \/ j \in s.in + 1 .. k - 1
        BY <2>2, <4>2
      <4>4. \A j \in s.in + 1 .. k : ~Ends(lines[j], lines[s.in])
        BY <2>2, <2>4, <3>2, <4>3 DEF StillOpen
      <4>5. StillOpen(lines, s, k)
        BY <2>3, <4>2, <4>4 DEF StillOpen
      <4> QED BY <2>2, <4>1, <4>5 DEF t
    <3> QED BY <3>1, <3>2
  <2>5. CASE s.in = 0
    <3>1. CASE lines[k].kind = "open"
      <4>1. t.in = k /\ t.set = s.set \cup {k}
        BY <2>1, <2>5, <3>1 DEF OpeningLine
      <4>2. k + 1 .. k = {} /\ k \in 1 .. k
        BY <2>2
      <4> QED BY <2>2, <2>3, <4>1, <4>2 DEF StillOpen, t
    <3>2. CASE lines[k].kind # "open"
      <4>1. t = s
        BY <2>1, <2>5, <3>2 DEF OpeningLine
      <4> QED BY <2>2, <2>3, <2>5, <4>1 DEF StillOpen, t
    <3> QED BY <3>1, <3>2
  <2> QED BY <2>4, <2>5
<1>4. \A k \in 0 .. n : k \in S
  <2> HIDE DEF S
  <2> QED BY <1>1, <1>2, <1>3, Upwards
<1> QED BY <1>4 DEF n

\* A command with a heredoc behind other lines.
With(before, open, body, last) == before \o <<open>> \o body \o <<last>>

\* Where the lines of such a command are.
LEMMA LinesWith ==
  ASSUME NEW L, NEW before \in Seq(L), NEW open \in L, NEW body \in Seq(L), NEW last \in L
  PROVE  LET lines == With(before, open, body, last)
             a == Len(before)
             b == Len(body)
         IN  /\ TextOf(before) /\ TextOf(lines) /\ a \in Nat /\ b \in Nat /\ Len(lines) = a + b + 2
             /\ \A i \in 1 .. a : lines[i] = before[i]
             /\ lines[a + 1] = open /\ lines[a + b + 2] = last
             /\ \A j \in 1 .. b : lines[a + 1 + j] = body[j]
             /\ SubSeq(lines, a + 2, a + b + 1) = body
<1> DEFINE a == Len(before)
           b == Len(body)
           x == before \o <<open>>
           y == x \o body
           lines == y \o <<last>>
<1>1. a \in Nat /\ b \in Nat /\ DOMAIN before = 1 .. a /\ DOMAIN body = 1 .. b
  OBVIOUS
<1>2. x \in Seq(L) /\ Len(x) = a + 1 /\ x[a + 1] = open /\ \A i \in 1 .. a : x[i] = before[i]
  OBVIOUS
<1> HIDE DEF x
<1>3. /\ y \in Seq(L) /\ Len(y) = a + 1 + b /\ (\A i \in 1 .. a + 1 : y[i] = x[i])
      /\ \A j \in 1 .. b : y[a + 1 + j] = body[j]
  BY <1>1, <1>2
<1> HIDE DEF y
<1>4. /\ lines \in Seq(L) /\ Len(lines) = a + b + 2 /\ DOMAIN lines = 1 .. a + b + 2 /\ lines[a + b + 2] = last
      /\ \A i \in 1 .. a + b + 1 : lines[i] = y[i]
  <2>1. /\ lines \in Seq(L) /\ Len(lines) = Len(y) + 1 /\ DOMAIN lines = 1 .. Len(y) + 1 /\ lines[Len(y) + 1] = last
        /\ \A i \in 1 .. Len(y) : lines[i] = y[i]
    BY <1>3
  <2>2. Len(y) + 1 = a + b + 2 /\ Len(y) = a + b + 1
    BY <1>1, <1>3
  <2> HIDE DEF lines
  <2> QED BY <2>1, <2>2
<1> HIDE DEF lines, a, b
<1>5. /\ lines[a + 1] = open
      /\ \A i \in 1 .. a : lines[i] = before[i]
      /\ \A j \in 1 .. b : lines[a + 1 + j] = body[j]
  <2>1. a + 1 \in 1 .. a + 1 /\ a + 1 \in 1 .. a + b + 1
    BY <1>1
  <2>2. \A i \in 1 .. a : i \in 1 .. a + 1 /\ i \in 1 .. a + b + 1
    BY <1>1
  <2>3. \A j \in 1 .. b : a + 1 + j \in 1 .. a + b + 1
    BY <1>1
  <2> QED BY <1>2, <1>3, <1>4, <2>1, <2>2, <2>3
<1>6. SubSeq(lines, a + 2, a + b + 1) = body
  <2> DEFINE part == SubSeq(lines, a + 2, a + b + 1)
  <2>1. /\ part \in Seq(L) /\ Len(part) = b
        /\ \A j \in 1 .. b : part[j] = lines[a + 2 + j - 1]
    <3>2. \A i \in a + 2 .. a + b + 1 : lines[i] \in L
      <4>1. \A i \in a + 2 .. a + b + 1 : i \in 1 .. a + b + 2
        BY <1>1
      <4>2. \A i \in 1 .. a + b + 2 : lines[i] \in L
        BY <1>4
      <4> QED BY <4>1, <4>2
    <3>3. a + 2 \in Int /\ a + b + 1 \in Int
      BY <1>1
    <3> DEFINE m == a + 2
               k == a + b + 1
    <3>4. m \in Int /\ k \in Int /\ \A i \in m .. k : lines[i] \in L
      BY <3>2, <3>3
    <3>5. (IF m <= k THEN k - m + 1 ELSE 0) = b /\ k - m + 1 = b /\ \A j \in 1 .. b : m + j - 1 = a + 2 + j - 1
      BY <1>1
    <3>6. part = SubSeq(lines, m, k)
      OBVIOUS
    <3> HIDE DEF m, k, part
    <3>7. /\ SubSeq(lines, m, k) \in Seq(L) /\ Len(SubSeq(lines, m, k)) = IF m <= k THEN k - m + 1 ELSE 0
          /\ \A j \in 1 .. k - m + 1 : SubSeq(lines, m, k)[j] = lines[m + j - 1]
      BY <3>4, SubSeqProperties
    <3>8. part \in Seq(L) /\ Len(part) = b /\ \A j \in 1 .. b : part[j] = lines[m + j - 1]
      BY <3>5, <3>6, <3>7
    <3> QED BY <3>5, <3>8
  <2> HIDE DEF part
  <2>2. \A j \in 1 .. b : a + 2 + j - 1 = a + 1 + j
    BY <1>1
  <2>3. \A j \in 1 .. b : part[j] = body[j]
    BY <1>5, <2>1, <2>2
  <2>4. Len(part) = Len(body) /\ \A j \in 1 .. Len(part) : part[j] = body[j]
    BY <2>1, <2>3 DEF b
  <2>5. part = body
    BY <2>1, <2>4, SeqEqual
  <2> QED BY <2>5 DEF part
<1>7. lines = With(before, open, body, last)
  BY DEF With, lines, y, x
<1>8. TextOf(before) /\ TextOf(lines)
  BY <1>1, <1>4 DEF TextOf, a
<1> QED BY <1>1, <1>4, <1>5, <1>6, <1>7, <1>8 DEF a, b

\* What was open in the lines before is closed when they end.
ClosedBefore(before) == \A o \in Openings(before) : \E e \in o + 1 .. Len(before) : Ends(before[e], before[o])

\* The openings of the whole command are those before, this one, and later ones.
LEMMA OpeningsWith ==
  ASSUME NEW L, NEW before \in Seq(L), NEW open \in L, NEW body \in Seq(L), NEW last \in L,
         open.kind = "open", ClosedBefore(before)
  PROVE  LET all == Openings(With(before, open, body, last))
             a == Len(before)
         IN  all \subseteq 1 .. Len(With(before, open, body, last)) /\ a + 1 \in all
               /\ \A i \in all : i < a + 1 => i \in Openings(before)
<1> DEFINE lines == With(before, open, body, last)
           a == Len(before)
           b == Len(body)
           n == Len(lines)
<1>1. /\ TextOf(before) /\ TextOf(lines) /\ a \in Nat /\ b \in Nat /\ n = a + b + 2
      /\ (\A i \in 1 .. a : lines[i] = before[i]) /\ lines[a + 1] = open
  BY LinesWith
<1> HIDE DEF lines, a, b, n
<1>2. PICK f \in [0 .. a -> OpenDocs(a)] : OpeningsGo(f, before) /\ Openings(before) = f[a].set
  BY <1>1, OpeningsWalk DEF a
<1>3. PICK g \in [0 .. n -> OpenDocs(n)] : OpeningsGo(g, lines) /\ Openings(lines) = g[n].set
  BY <1>1, OpeningsWalk DEF n
<1>4. \A k \in 0 .. a : g[k] = f[k]
  <2> DEFINE S == {k \in 0 .. a : g[k] = f[k]}
  <2>1. 0 \in S
    BY <1>1, <1>2, <1>3 DEF OpeningsGo
  <2>2. ASSUME NEW k \in 1 .. a, k - 1 \in S PROVE k \in S
    <3>1. k \in 1 .. n /\ k \in 0 .. a /\ k - 1 \in 0 .. a
      BY <1>1
    <3>2. g[k] = OpeningLine(lines, g[k - 1], k) /\ f[k] = OpeningLine(before, f[k - 1], k)
      BY <1>2, <1>3, <3>1 DEF OpeningsGo, n, a
    <3> DEFINE s == f[k - 1]
    <3>3. g[k - 1] = s /\ s.in \in 0 .. a
      BY <1>2, <2>2, <3>1 DEF OpenDocs
    <3> HIDE DEF s
    <3>4. lines[k] = before[k] /\ (s.in # 0 => lines[s.in] = before[s.in])
      <4>1. s.in # 0 => s.in \in 1 .. a
        BY <1>1, <3>3
      <4>2. k \in 1 .. a /\ \A i \in 1 .. a : lines[i] = before[i]
        BY <1>1
      <4> QED BY ONLY <4>1, <4>2
    <3>5. OpeningLine(lines, s, k) = OpeningLine(before, s, k)
      BY <3>4 DEF OpeningLine
    <3> QED BY <3>1, <3>2, <3>3, <3>5 DEF s
  <2> HIDE DEF S
  <2>3. \A k \in 0 .. a : k \in S
    BY <1>1, <2>1, <2>2, Upwards
  <2> QED BY <2>3 DEF S
<1>5. f[a].in = 0 /\ f[a].set \subseteq 1 .. a
  <2>1. StillOpen(before, f[a], a)
    <3>1. \A k \in 0 .. a : StillOpen(before, f[k], k)
      BY <1>1, <1>2, OpenUntilEnds DEF a
    <3> QED BY <1>1, <3>1
  <2>2. f[a].in # 0 => f[a].in \in Openings(before)
    BY <1>2, <2>1 DEF StillOpen
  <2>3. ASSUME f[a].in # 0 PROVE FALSE
    <3>1. PICK e \in f[a].in + 1 .. a : Ends(before[e], before[f[a].in])
      BY <2>2, <2>3 DEF ClosedBefore, a
    <3> QED BY <2>1, <2>3, <3>1 DEF StillOpen
  <2> QED BY <2>1, <2>3 DEF StillOpen
<1> DEFINE R == {k \in 0 .. n : k <= a \/ (a + 1 \in g[k].set /\ \A i \in g[k].set : i < a + 1 => i \in f[a].set)}
<1>6. 0 \in R
  BY <1>1
<1>7. ASSUME NEW k \in 1 .. n, k - 1 \in R PROVE k \in R
  <2> DEFINE s == g[k - 1]
             t == g[k]
  <2>1. t = OpeningLine(lines, s, k) /\ k \in 0 .. n /\ k \in Nat
    BY <1>1, <1>3 DEF OpeningsGo, n
  <2>2. CASE k <= a
    BY <2>1, <2>2
  <2>3. CASE k = a + 1
    <3>1. s = f[a]
      BY <1>1, <1>4, <2>3
    <3> HIDE DEF s, t
    <3>2. t.set = s.set \cup {k}
      BY <1>1, <1>5, <2>1, <2>3, <3>1 DEF OpeningLine
    <3> QED BY <1>1, <2>1, <2>3, <3>1, <3>2 DEF t
  <2>4. CASE k > a + 1
    <3>1. ~(k - 1 <= a)
      BY <1>1, <2>1, <2>4
    <3>2. a + 1 \in s.set /\ \A i \in s.set : i < a + 1 => i \in f[a].set
      BY <1>7, <3>1
    <3> HIDE DEF s, t
    <3>3. t.set \in {s.set, s.set \cup {k}}
      BY <2>1 DEF OpeningLine
    <3>4. ~(k < a + 1)
      BY <1>1, <2>1, <2>4
    <3> QED BY <2>1, <3>2, <3>3, <3>4 DEF t
  <2> QED BY <1>1, <2>1, <2>2, <2>3, <2>4
<1>8. n \in R
  <2>0. n \in Nat
    BY <1>1
  <2> HIDE DEF R
  <2>1. \A k \in 0 .. n : k \in R
    BY <2>0, <1>6, <1>7, Upwards
  <2> QED BY <1>1, <2>1
<1>9. g[n].set \subseteq 1 .. n
  BY <1>1, <1>3 DEF OpenDocs
<1>10. ~(n <= a)
  BY <1>1
<1> QED BY <1>2, <1>3, <1>8, <1>9, <1>10 DEF lines, a, n

\* The least of some places.
LEMMA LeastIs ==
  ASSUME NEW S \in SUBSET Nat, NEW x \in S, \A y \in S : x <= y
  PROVE  Min(S) = x
<1>1. \A z \in S : (\A y \in S : z <= y) => z = x
  OBVIOUS
<1> QED BY <1>1 DEF Min

\* hook.readMessageFile, heredocInto: for any lines before the heredoc, any body and
\* any end of it.
THEOREM MessageIsRead ==
  ASSUME NEW L, NEW before \in Seq(L), NEW open \in L, NEW body \in Seq(L), NEW last \in L, NEW args, NEW onDisk,
         open.kind = "open", open.into \notin {"-", "none"}, args.file = open.into, Ends(last, open), ClosedBefore(before)
  PROVE  HeredocIsRead(before, open, body, Message(args, With(before, open, body, last), onDisk))
<1> SUFFICES ASSUME \A i \in Openings(before) : before[i].into # open.into, ~\E i \in DOMAIN body : Ends(body[i], open)
             PROVE  Message(args, With(before, open, body, last), onDisk) = body
  BY DEF HeredocIsRead
<1> DEFINE lines == With(before, open, body, last)
           a == Len(before)
           b == Len(body)
           all == Openings(lines)
           file == args.file
           into == {i \in all : lines[i].into = file /\ \E j \in i + 1 .. Len(lines) : Ends(lines[j], lines[i])}
           ends == {j \in a + 1 + 1 .. Len(lines) : Ends(lines[j], lines[a + 1])}
<1>1. /\ a \in Nat /\ b \in Nat /\ Len(lines) = a + b + 2 /\ DOMAIN body = 1 .. b /\ DOMAIN before = 1 .. a
      /\ (\A i \in 1 .. a : lines[i] = before[i]) /\ lines[a + 1] = open /\ lines[a + b + 2] = last
      /\ (\A j \in 1 .. b : lines[a + 1 + j] = body[j]) /\ SubSeq(lines, a + 2, a + b + 1) = body
  BY LinesWith
<1>2. all \subseteq 1 .. Len(lines) /\ a + 1 \in all /\ \A i \in all : i < a + 1 => i \in Openings(before)
  BY OpeningsWith
<1>3. Openings(before) \subseteq 1 .. a
  <2>1. PICK f \in [0 .. a -> OpenDocs(a)] : Openings(before) = f[a].set
    BY OpeningsWalk, LinesWith
  <2> QED BY <1>1, <2>1 DEF OpenDocs
<1> HIDE DEF all, lines, a, b
<1>4. ends = {a + b + 2}
  <2>1. a + b + 2 \in a + 1 + 1 .. Len(lines)
    BY <1>1
  <2>2. ASSUME NEW j \in a + 1 + 1 .. Len(lines), j # a + b + 2 PROVE ~Ends(lines[j], open)
    <3>1. j - (a + 1) \in 1 .. b /\ a + 1 + (j - (a + 1)) = j
      BY <1>1, <2>2
    <3>2. lines[j] = body[j - (a + 1)]
      BY <1>1, <3>1
    <3> QED BY <1>1, <3>1, <3>2
  <2> QED BY <1>1, <2>1, <2>2
<1>5. Min(ends) = a + b + 2 /\ ends # {}
  <2> DEFINE x == a + b + 2
  <2>1. x \in Nat /\ x <= x
    BY <1>1
  <2> HIDE DEF ends, x
  <2>2. ends \in SUBSET Nat /\ x \in ends /\ \A y \in ends : x <= y
    BY <1>4, <2>1 DEF x
  <2>3. Min(ends) = x
    BY <2>2, LeastIs
  <2> QED BY <2>2, <2>3 DEF x
<1>6. Body(lines, a + 1) = body
  <2>1. a + 1 + 1 = a + 2 /\ a + b + 2 - 1 = a + b + 1
    BY <1>1
  <2> HIDE DEF ends
  <2>2. ends # {} /\ SubSeq(lines, a + 1 + 1, Min(ends) - 1) = body
    BY <1>1, <1>5, <2>1
  <2>3. Body(lines, a + 1) = IF ends = {} THEN <<>> ELSE SubSeq(lines, a + 1 + 1, Min(ends) - 1)
    BY DEF Body, ends
  <2> QED BY <2>2, <2>3
<1>7. into \in SUBSET Nat /\ a + 1 \in into /\ \A i \in into : a + 1 <= i
  <2>1. a + 1 \in into
    BY <1>1, <1>2, <1>4
  <2>2. ASSUME NEW i \in into, i < a + 1 PROVE FALSE
    <3>1. i \in Openings(before) /\ i \in 1 .. a /\ lines[i].into = file
      BY <1>2, <1>3, <2>2
    <3> QED BY <1>1, <3>1
  <2>3. into \in SUBSET Nat
    <3>1. into \subseteq all
      OBVIOUS
    <3> HIDE DEF into
    <3>2. 1 .. Len(lines) \subseteq Nat
      BY <1>1
    <3> QED BY <1>2, <3>1, <3>2
  <2> HIDE DEF into
  <2> QED BY <1>1, <2>1, <2>2, <2>3
<1>8. Min(into) = a + 1
  <2> HIDE DEF into
  <2> QED BY <1>7, LeastIs
<1>9. HeredocInto(lines, file) = [found |-> TRUE, body |-> Body(lines, a + 1)]
  <2>1. into # {}
    BY <1>7
  <2>2. HeredocInto(lines, file) = IF into = {} THEN [found |-> FALSE, body |-> <<>>] ELSE [found |-> TRUE, body |-> Body(lines, Min(into))]
    BY DEF HeredocInto, all
  <2> HIDE DEF into
  <2> QED BY <1>8, <2>1, <2>2
<1> HIDE DEF into, ends
<1>10. Message(args, lines, onDisk) = body
  BY <1>6, <1>9 DEF Message
<1> QED BY <1>10 DEF lines

-----------------------------------------------------------------------------
(* hook: the characters of a command *)

\* What has been read of a command with a quote in it, character by character: the
\* words, the word that grows, and whether that is begun ("word"), stands in the
\* quote ("held") or behind it ("shut"), or the next character is passed over.
Yes == TRUE
No == FALSE
Scan(out, cur, has, quoted, open, skip) ==
  [out |-> out, cur |-> cur, has |-> has, quoted |-> quoted, open |-> open, skip |-> skip]
Scanned(out, cur, at, mark) ==
  IF at = "between" THEN Scan(out, cur, No, No, "none", No)
  ELSE IF at = "word" THEN Scan(out, cur, Yes, No, "none", No)
  ELSE IF at = "held" THEN Scan(out, cur, Yes, Yes, mark, No)
  ELSE IF at = "shut" THEN Scan(out, cur, Yes, Yes, "none", No)
  ELSE Scan(out, cur, No, No, "none", Yes)
Plainly(w) == [word |-> w, quoted |-> FALSE]
Held(w) == [word |-> w, quoted |-> TRUE]
Closed(inside) == <<Plainly(<<"x">>), Held(inside), Word(<<";">>)>>
ScanAround(mark, inside, i) ==
  LET n == Len(inside) IN
  IF i = 0 THEN Scanned(<<>>, <<>>, "between", mark)
  ELSE IF i = 1 THEN Scanned(<<>>, <<"x">>, "word", mark)
  ELSE IF i = 2 THEN Scanned(<<Plainly(<<"x">>)>>, <<>>, "between", mark)
  ELSE IF i <= n + 3 THEN Scanned(<<Plainly(<<"x">>)>>, SubSeq(inside, 1, i - 3), "held", mark)
  ELSE IF i = n + 4 THEN Scanned(<<Plainly(<<"x">>)>>, inside, "shut", mark)
  ELSE IF i = n + 5 THEN Scanned(Closed(inside), <<>>, "passing", mark)
  ELSE IF i = n + 6 THEN Scanned(Closed(inside), <<>>, "between", mark)
  ELSE Scanned(Closed(inside), <<"y">>, "word", mark)

\* What may stand inside a quote.
Inside(C, mark) == {c \in C : c # mark /\ (mark = DoubleQuote => c # Backslash)}

\* The characters by name are no others.
OtherChars == {"x", "y", "space", "newline", ";", "&", "none", "$", "a"}

\* Quotes and the backslash are characters of their own.
LEMMA MarksDiffer ==
  /\ SingleQuote # DoubleQuote /\ SingleQuote # Backslash /\ DoubleQuote # Backslash
  /\ SingleQuote \notin OtherChars /\ DoubleQuote \notin OtherChars /\ Backslash \notin OtherChars
BY Zenon DEF SingleQuote, DoubleQuote, Backslash, OtherChars

\* What has been read within the quotes.
LEMMA ScanHeld ==
  ASSUME NEW mark, NEW inside, NEW i, i # 0, i # 1, i # 2, i <= Len(inside) + 3
  PROVE  ScanAround(mark, inside, i) = Scanned(<<Plainly(<<"x">>)>>, SubSeq(inside, 1, i - 3), "held", mark)
BY DEF ScanAround

\* Two sequences behind each other.
LEMMA Joined ==
  ASSUME NEW S, NEW s \in Seq(S), NEW t \in Seq(S), NEW u, u = s \o t
  PROVE  /\ u \in Seq(S) /\ Len(u) = Len(s) + Len(t)
         /\ \A i \in 1 .. Len(s) : u[i] = s[i]
         /\ \A j \in 1 .. Len(t) : u[Len(s) + j] = t[j]
<1> DEFINE k == Len(s)
           m == Len(t)
<1>1. k \in Nat /\ m \in Nat
  OBVIOUS
<1>2. u \in Seq(S) /\ Len(u) = k + m /\ \A i \in 1 .. k + m : u[i] = IF i <= k THEN s[i] ELSE t[i - k]
  BY ConcatProperties
<1> HIDE DEF k, m
<1>3. \A i \in 1 .. k : u[i] = s[i]
  BY <1>1, <1>2
<1>4. ASSUME NEW j \in 1 .. m PROVE u[k + j] = t[j]
  <2> DEFINE i == k + j
  <2>1. i \in 1 .. k + m /\ ~(i <= k) /\ i - k = j
    BY <1>1
  <2> HIDE DEF i
  <2>2. u[i] = t[i - k]
    BY <1>2, <2>1
  <2> QED BY <2>1, <2>2 DEF i
<1> QED BY <1>2, <1>3, <1>4 DEF k, m

\* A sequence with one more is what has one more.
LEMMA AppendIs ==
  ASSUME NEW S, NEW s \in Seq(S), NEW e \in S, NEW t \in Seq(S),
         Len(t) = Len(s) + 1, \A i \in 1 .. Len(s) : t[i] = s[i], t[Len(s) + 1] = e
  PROVE  Append(s, e) = t
OBVIOUS

\* A second word.
LEMMA SecondWord ==
  ASSUME NEW a, NEW b
  PROVE  Append(<<a>>, b) = <<a, b>>
<1> DEFINE S == {a, b}
           few == <<a>>
           more == <<a, b>>
<1>1. a \in S /\ b \in S
  OBVIOUS
<1> HIDE DEF S
<1>2. few \in Seq(S) /\ Len(few) = 1 /\ few[1] = a
  BY <1>1
<1>3. more \in Seq(S) /\ Len(more) = 2 /\ more[1] = a /\ more[2] = b
  BY <1>1
<1> HIDE DEF few, more
<1>4. \A i \in 1 .. Len(few) : more[i] = few[i]
  <2>1. \A i \in 1 .. Len(few) : i = 1
    BY <1>2
  <2> QED BY <1>2, <1>3, <2>1
<1>5. Len(more) = Len(few) + 1 /\ more[Len(few) + 1] = b
  BY <1>2, <1>3
<1>6. Append(few, b) = more
  BY <1>1, <1>2, <1>3, <1>4, <1>5, AppendIs, Zenon
<1> QED BY <1>6 DEF few, more

\* A third word.
LEMMA ThirdWord ==
  ASSUME NEW a, NEW b, NEW c
  PROVE  Append(<<a, b>>, c) = <<a, b, c>>
<1> DEFINE S == {a, b, c}
           few == <<a, b>>
           more == <<a, b, c>>
<1>1. a \in S /\ b \in S /\ c \in S
  OBVIOUS
<1> HIDE DEF S
<1>2. few \in Seq(S) /\ Len(few) = 2 /\ few[1] = a /\ few[2] = b
  BY <1>1
<1>3. more \in Seq(S) /\ Len(more) = 3 /\ more[1] = a /\ more[2] = b /\ more[3] = c
  BY <1>1
<1> HIDE DEF few, more
<1>4. \A i \in 1 .. Len(few) : more[i] = few[i]
  <2>1. \A i \in 1 .. Len(few) : i = 1 \/ i = 2
    BY <1>2
  <2> QED BY <1>2, <1>3, <2>1
<1>5. Len(more) = Len(few) + 1 /\ more[Len(few) + 1] = c
  BY <1>2, <1>3
<1>6. Append(few, c) = more
  BY <1>1, <1>2, <1>3, <1>4, <1>5, AppendIs, Zenon
<1> QED BY <1>6 DEF few, more

\* A fourth word.
LEMMA FourthWord ==
  ASSUME NEW a, NEW b, NEW c, NEW d
  PROVE  Append(<<a, b, c>>, d) = <<a, b, c, d>>
<1> DEFINE S == {a, b, c, d}
           few == <<a, b, c>>
           more == <<a, b, c, d>>
<1>1. a \in S /\ b \in S /\ c \in S /\ d \in S
  OBVIOUS
<1> HIDE DEF S
<1>2. few \in Seq(S) /\ Len(few) = 3 /\ few[1] = a /\ few[2] = b /\ few[3] = c
  BY <1>1
<1>3. more \in Seq(S) /\ Len(more) = 4 /\ more[1] = a /\ more[2] = b /\ more[3] = c /\ more[4] = d
  BY <1>1
<1> HIDE DEF few, more
<1>4. \A i \in 1 .. Len(few) : more[i] = few[i]
  <2>1. \A i \in 1 .. Len(few) : i = 1 \/ i = 2 \/ i = 3
    BY <1>2
  <2> QED BY <1>2, <1>3, <2>1
<1>5. Len(more) = Len(few) + 1 /\ more[Len(few) + 1] = d
  BY <1>2, <1>3
<1>6. Append(few, d) = more
  BY <1>1, <1>2, <1>3, <1>4, <1>5, AppendIs, Zenon
<1> QED BY <1>6 DEF few, more

\* What changes of it.
Opens(s, x) == [s EXCEPT !.open = x]
Skips(s, x) == [s EXCEPT !.skip = x]
Grows(s, x) == [s EXCEPT !.cur = x]
Starts(s, x, y) == [s EXCEPT !.cur = x, !.has = y]
Quotes(s, x, y) == [s EXCEPT !.open = x, !.has = y, !.quoted = y]
Begins(s, x) == [s EXCEPT !.has = x]
Quotedly(s, x) == [s EXCEPT !.quoted = x]

\* What is open changes, and nothing else.
LEMMA ScanOpened ==
  \A o, c, h, q, p, k, x : Opens(Scan(o, c, h, q, p, k), x) = Scan(o, c, h, q, x, k)
BY DEF Opens, Scan

\* Whether the next character is skipped changes, and nothing else.
LEMMA ScanSkipped ==
  \A o, c, h, q, p, k, x : Skips(Scan(o, c, h, q, p, k), x) = Scan(o, c, h, q, p, x)
BY DEF Skips, Scan

\* The word changes, and nothing else.
LEMMA ScanGrown ==
  \A o, c, h, q, p, k, x : Grows(Scan(o, c, h, q, p, k), x) = Scan(o, x, h, q, p, k)
BY DEF Grows, Scan

\* Whether a word has begun changes, and nothing else.
LEMMA ScanBegun ==
  \A o, c, h, q, p, k, x : Begins(Scan(o, c, h, q, p, k), x) = Scan(o, c, x, q, p, k)
BY DEF Begins, Scan

\* Whether it was quoted changes, and nothing else.
LEMMA ScanQuotedly ==
  \A o, c, h, q, p, k, x : Quotedly(Scan(o, c, h, q, p, k), x) = Scan(o, c, h, x, p, k)
BY DEF Quotedly, Scan

\* A word begins.
LEMMA ScanStarted ==
  ASSUME NEW o, NEW c, NEW h, NEW q, NEW p, NEW k, NEW x, NEW y
  PROVE  Starts(Scan(o, c, h, q, p, k), x, y) = Scan(o, x, y, q, p, k)
<1>1. \A s : Starts(s, x, y) = Begins(Grows(s, x), y)
  BY DEF Starts, Begins, Grows
<1> QED BY <1>1, ScanGrown, ScanBegun

\* A quoted word begins.
LEMMA ScanQuoted ==
  ASSUME NEW o, NEW c, NEW h, NEW q, NEW p, NEW k, NEW x, NEW y
  PROVE  Quotes(Scan(o, c, h, q, p, k), x, y) = Scan(o, c, y, y, x, k)
<1>1. \A s : Quotes(s, x, y) = Quotedly(Begins(Opens(s, x), y), y)
  BY DEF Quotes, Quotedly, Begins, Opens
<1> QED BY <1>1, ScanOpened, ScanBegun, ScanQuotedly

\* Each kind of character that such a command has: a letter.
LEMMA ScanLetter ==
  ASSUME NEW out, NEW next, NEW c \in {"x", "y"}, NEW mark
  PROVE  TokenizeStep(Scanned(out, <<>>, "between", mark), c, next) = Scanned(out, <<c>>, "word", mark)
<1> DEFINE s == Scan(out, <<>>, No, No, "none", No)
<1>1. Scanned(out, <<>>, "between", mark) = s /\ Scanned(out, <<c>>, "word", mark) = Scan(out, <<c>>, Yes, No, "none", No)
  BY DEF Scanned
<1>2. /\ ~s.skip /\ s.open = "none" /\ s.cur = <<>> /\ Append(<<>>, c) = <<c>>
      /\ s.open # SingleQuote /\ s.open # DoubleQuote /\ c # Backslash /\ c \notin QuoteMarks
      /\ c # "$" /\ c # "space" /\ c \notin {"newline", ";", "&"}
  <2>1. ~s.skip /\ s.open = "none" /\ s.cur = <<>>
    BY DEF Scan, No
  <2>2. Append(<<>>, c) = <<c>>
    OBVIOUS
  <2>3. c \in OtherChars /\ c # "$" /\ c # "space" /\ c \notin {"newline", ";", "&"}
    BY DEF OtherChars
  <2>4. SingleQuote # "none" /\ DoubleQuote # "none"
    BY MarksDiffer DEF OtherChars
  <2> QED BY <2>1, <2>2, <2>3, <2>4, MarksDiffer DEF QuoteMarks
<1>3. Starts(Scan(out, <<>>, No, No, "none", No), <<c>>, Yes) = Scan(out, <<c>>, Yes, No, "none", No)
  BY ScanStarted
<1>0. s = Scan(out, <<>>, No, No, "none", No)
  OBVIOUS
<1> HIDE DEF s
<1>4. TokenizeStep(s, c, next) = Starts(s, Append(s.cur, c), Yes)
  BY <1>2, Zenon DEF TokenizeStep, Starts, Yes
<1> QED BY <1>0, <1>1, <1>2, <1>3, <1>4

\* A quote opens.
LEMMA ScanOpens ==
  ASSUME NEW out, NEW mark \in QuoteMarks, NEW next
  PROVE  TokenizeStep(Scanned(out, <<>>, "between", mark), mark, next) = Scanned(out, <<>>, "held", mark)
<1> DEFINE s == Scan(out, <<>>, No, No, "none", No)
<1>1. Scanned(out, <<>>, "between", mark) = s /\ Scanned(out, <<>>, "held", mark) = Scan(out, <<>>, Yes, Yes, mark, No)
  BY DEF Scanned
<1>2. ~s.skip /\ s.open = "none" /\ s.open # SingleQuote /\ s.open # DoubleQuote /\ mark # Backslash
  BY MarksDiffer DEF Scan, QuoteMarks, OtherChars, Yes, No
<1>3. Quotes(Scan(out, <<>>, No, No, "none", No), mark, Yes) = Scan(out, <<>>, Yes, Yes, mark, No)
  BY ScanQuoted
<1>0. s = Scan(out, <<>>, No, No, "none", No)
  OBVIOUS
<1> HIDE DEF s
<1>4. TokenizeStep(s, mark, next) = Quotes(s, mark, Yes)
  BY <1>2, Zenon DEF TokenizeStep, Quotes, Yes
<1> QED BY <1>0, <1>1, <1>3, <1>4

\* What stands in it is kept.
LEMMA ScanInside ==
  ASSUME NEW out, NEW cur, NEW mark \in QuoteMarks, NEW next, NEW C, NEW c \in Inside(C, mark)
  PROVE  TokenizeStep(Scanned(out, cur, "held", mark), c, next) = Scanned(out, Append(cur, c), "held", mark)
<1> DEFINE s == Scan(out, cur, Yes, Yes, mark, No)
<1>1. Scanned(out, cur, "held", mark) = s /\ Scanned(out, Append(cur, c), "held", mark) = Scan(out, Append(cur, c), Yes, Yes, mark, No)
  BY DEF Scanned
<1>2. ~s.skip /\ s.cur = cur /\ s.open = mark /\ c # mark /\ (mark = SingleQuote \/ (mark = DoubleQuote /\ c # Backslash))
  BY MarksDiffer DEF Scan, QuoteMarks, Inside, OtherChars, Yes, No
<1>3. Grows(Scan(out, cur, Yes, Yes, mark, No), Append(cur, c)) = Scan(out, Append(cur, c), Yes, Yes, mark, No)
  BY ScanGrown
<1>0. s = Scan(out, cur, Yes, Yes, mark, No)
  OBVIOUS
<1> HIDE DEF s
<1>4. TokenizeStep(s, c, next) = Grows(s, Append(s.cur, c))
  BY <1>2, Zenon DEF TokenizeStep, Grows
<1> QED BY <1>0, <1>1, <1>2, <1>3, <1>4

\* It closes.
LEMMA ScanCloses ==
  ASSUME NEW out, NEW cur, NEW mark \in QuoteMarks, NEW next
  PROVE  TokenizeStep(Scanned(out, cur, "held", mark), mark, next) = Scanned(out, cur, "shut", mark)
<1> DEFINE s == Scan(out, cur, Yes, Yes, mark, No)
<1>1. Scanned(out, cur, "held", mark) = s /\ Scanned(out, cur, "shut", mark) = Scan(out, cur, Yes, Yes, "none", No)
  BY DEF Scanned
<1>2. ~s.skip /\ s.open = mark /\ mark # "none"
  BY MarksDiffer DEF Scan, QuoteMarks, Inside, OtherChars, Yes, No
<1>3. Opens(Scan(out, cur, Yes, Yes, mark, No), "none") = Scan(out, cur, Yes, Yes, "none", No)
  BY ScanOpened
<1>0. s = Scan(out, cur, Yes, Yes, mark, No)
  OBVIOUS
<1> HIDE DEF s
<1>4. TokenizeStep(s, mark, next) = Opens(s, "none")
  BY <1>2, Zenon DEF TokenizeStep, Opens
<1> QED BY <1>0, <1>1, <1>2, <1>3, <1>4

\* Two ampersands end a word and a command, as one.
LEMMA ScanEnds ==
  ASSUME NEW out, NEW cur, NEW mark
  PROVE  TokenizeStep(Scanned(out, cur, "shut", mark), "&", "&") =
           Scanned(Append(Append(out, Held(cur)), Word(<<";">>)), <<>>, "passing", mark)
BY MarksDiffer DEF TokenizeStep, QuoteMarks, OtherChars, Scanned, Scan, Yes, No, Ended, Flushed, Held

\* The second is passed over.
LEMMA ScanPasses ==
  ASSUME NEW out, NEW next, NEW c, NEW mark
  PROVE  TokenizeStep(Scanned(out, <<>>, "passing", mark), c, next) = Scanned(out, <<>>, "between", mark)
<1> DEFINE s == Scan(out, <<>>, No, No, "none", Yes)
<1>1. Scanned(out, <<>>, "passing", mark) = s /\ Scanned(out, <<>>, "between", mark) = Scan(out, <<>>, No, No, "none", No)
  BY DEF Scanned
<1>2. s.skip
  BY MarksDiffer DEF Scan, QuoteMarks, Inside, OtherChars, Yes, No
<1>3. Skips(Scan(out, <<>>, No, No, "none", Yes), No) = Scan(out, <<>>, No, No, "none", No)
  BY ScanSkipped
<1>0. s = Scan(out, <<>>, No, No, "none", Yes)
  OBVIOUS
<1> HIDE DEF s
<1>4. TokenizeStep(s, c, next) = Skips(s, No)
  BY <1>2, Zenon DEF TokenizeStep, Skips, No
<1> QED BY <1>0, <1>1, <1>2, <1>3, <1>4

\* Where the characters of such a command are.
LEMMA CharsAround ==
  ASSUME NEW C, NEW inside \in Seq(C), NEW mark
  PROVE  LET chars == Around(mark, inside)
             n == Len(inside)
         IN  /\ Len(chars) = n + 7 /\ n \in Nat
             /\ chars[1] = "x" /\ chars[2] = "space" /\ chars[3] = mark
             /\ \A j \in 1 .. n : chars[j + 3] = inside[j]
             /\ chars[n + 4] = mark /\ chars[n + 5] = "&" /\ chars[n + 6] = "&" /\ chars[n + 7] = "y"
<1> DEFINE n == Len(inside)
           D == C \cup {"x", "space", mark, "&", "y"}
           front == <<"x", "space", mark>>
           back == <<mark, "&", "&", "y">>
           most == front \o inside
           chars == most \o back
<1>1. n \in Nat /\ inside \in Seq(D)
  OBVIOUS
<1>2. front \in Seq(D) /\ Len(front) = 3 /\ front[1] = "x" /\ front[2] = "space" /\ front[3] = mark
  OBVIOUS
<1>3. back \in Seq(D) /\ Len(back) = 4 /\ back[1] = mark /\ back[2] = "&" /\ back[3] = "&" /\ back[4] = "y"
  OBVIOUS
<1>m. most = front \o inside /\ chars = most \o back
  OBVIOUS
<1> HIDE DEF D, front, back, most, chars
<1>4. /\ most \in Seq(D) /\ Len(most) = Len(front) + Len(inside)
      /\ (\A i \in 1 .. Len(front) : most[i] = front[i]) /\ \A j \in 1 .. Len(inside) : most[Len(front) + j] = inside[j]
  <2>1. front \in Seq(D) /\ inside \in Seq(D) /\ most = front \o inside
    BY <1>m, <1>1, <1>2
  <2> QED BY ONLY <2>1, Joined
<1>5. /\ chars \in Seq(D) /\ Len(chars) = Len(most) + Len(back)
      /\ (\A i \in 1 .. Len(most) : chars[i] = most[i]) /\ \A j \in 1 .. Len(back) : chars[Len(most) + j] = back[j]
  <2>1. most \in Seq(D) /\ back \in Seq(D) /\ chars = most \o back
    BY <1>m, <1>3, <1>4
  <2> QED BY ONLY <2>1, Joined
<1> HIDE DEF n
<1>6. Len(front) = 3 /\ Len(inside) = n /\ Len(most) = n + 3 /\ Len(back) = 4 /\ Len(chars) = n + 7
  BY <1>1, <1>2, <1>3, <1>4, <1>5 DEF n
<1>7. chars[1] = "x" /\ chars[2] = "space" /\ chars[3] = mark
  <2>1. \A i \in 1 .. 3 : i \in 1 .. n + 3
    BY <1>1
  <2>2. \A i \in 1 .. 3 : chars[i] = front[i]
    BY <1>4, <1>5, <1>6, <2>1
  <2> QED BY <1>2, <2>2
<1>8. \A j \in 1 .. n : chars[j + 3] = inside[j]
  <2>1. \A j \in 1 .. n : j + 3 = 3 + j /\ j + 3 \in 1 .. n + 3
    BY <1>1
  <2>2. \A j \in 1 .. n : chars[j + 3] = most[j + 3]
    BY <1>5, <1>6, <2>1
  <2>3. \A j \in 1 .. n : most[3 + j] = inside[j]
    BY <1>4, <1>6
  <2> QED BY ONLY <2>1, <2>2, <2>3
<1>9. chars[n + 4] = mark /\ chars[n + 5] = "&" /\ chars[n + 6] = "&" /\ chars[n + 7] = "y"
  <2>1. n + 3 + 1 = n + 4 /\ n + 3 + 2 = n + 5 /\ n + 3 + 3 = n + 6 /\ n + 3 + 4 = n + 7
    BY <1>1
  <2>2. \A j \in 1 .. 4 : chars[n + 3 + j] = back[j]
    BY <1>5, <1>6
  <2> QED BY <1>3, <2>1, <2>2
<1> QED BY <1>1, <1>6, <1>7, <1>8, <1>9 DEF chars, most, front, back, Around, n

\* hook.tokenize: between two quotes nothing ends a word, whatever is there.
THEOREM QuotesAreKept ==
  ASSUME NEW C, NEW mark \in QuoteMarks, NEW inside \in Seq(Inside(C, mark))
  PROVE  QuotesHold(inside, Tokenize(Around(mark, inside)))
<1> DEFINE chars == Around(mark, inside)
           n == Len(inside)
           m == n + 7
           Next(i) == IF i < m THEN chars[i + 1] ELSE "end"
           S(i) == ScanAround(mark, inside, i)
           Start == [out |-> <<>>, cur |-> <<>>, has |-> FALSE, quoted |-> FALSE, open |-> "none", skip |-> FALSE]
           Eq(f) == f = [i \in 0 .. m |-> IF i = 0 THEN Start ELSE TokenizeStep(f[i - 1], chars[i], Next(i))]
           at == CHOOSE f : Eq(f)
           X == <<Plainly(<<"x">>)>>
           Z == Closed(inside)
<1>1. /\ Len(chars) = m /\ n \in Nat
      /\ chars[1] = "x" /\ chars[2] = "space" /\ chars[3] = mark
      /\ (\A j \in 1 .. n : chars[j + 3] = inside[j])
      /\ chars[n + 4] = mark /\ chars[n + 5] = "&" /\ chars[n + 6] = "&" /\ chars[n + 7] = "y"
  BY CharsAround
<1>2. Tokenize(chars) = Flushed(at[m])
  BY <1>1 DEF Tokenize
<1> HIDE DEF chars
<1>3. /\ S(0) = Scanned(<<>>, <<>>, "between", mark) /\ S(1) = Scanned(<<>>, <<"x">>, "word", mark)
      /\ S(2) = Scanned(X, <<>>, "between", mark)
      /\ (\A j \in 0 .. n : S(j + 3) = Scanned(X, SubSeq(inside, 1, j), "held", mark))
      /\ S(n + 4) = Scanned(X, inside, "shut", mark) /\ S(n + 5) = Scanned(Z, <<>>, "passing", mark)
      /\ S(n + 6) = Scanned(Z, <<>>, "between", mark) /\ S(n + 7) = Scanned(Z, <<"y">>, "word", mark)
  <2>1. S(0) = Scanned(<<>>, <<>>, "between", mark) /\ S(1) = Scanned(<<>>, <<"x">>, "word", mark)
          /\ S(2) = Scanned(X, <<>>, "between", mark)
    BY DEF ScanAround
  <2>2. ASSUME NEW j \in 0 .. n PROVE S(j + 3) = Scanned(X, SubSeq(inside, 1, j), "held", mark)
    <3> DEFINE k == j + 3
    <3>1. k # 0 /\ k # 1 /\ k # 2 /\ k <= Len(inside) + 3 /\ k - 3 = j
      BY <1>1
    <3> HIDE DEF k
    <3>2. S(k) = Scanned(X, SubSeq(inside, 1, k - 3), "held", mark)
      BY <3>1, ScanHeld
    <3> QED BY <3>1, <3>2 DEF k
  <2>3. \A k \in 4 .. 7 : n + k \notin {0, 1, 2} /\ ~(n + k <= n + 3) /\ \A l \in 4 .. 7 : n + k = n + l => k = l
    BY <1>1
  <2> QED BY <2>1, <2>2, <2>3 DEF ScanAround
<1>4. SubSeq(inside, 1, 0) = <<>> /\ SubSeq(inside, 1, n) = inside
        /\ \A j \in 1 .. n : SubSeq(inside, 1, j) = Append(SubSeq(inside, 1, j - 1), inside[j])
  <2>1. SubSeq(inside, 1, 0) = <<>>
    BY SubSeqEmpty
  <2>2. SubSeq(inside, 1, n) = inside
    BY SubSeqFull
  <2>3. ASSUME NEW j \in 1 .. n PROVE SubSeq(inside, 1, j) = Append(SubSeq(inside, 1, j - 1), inside[j])
    OBVIOUS
  <2> QED BY <2>1, <2>2, <2>3
<1>6. n \in Nat /\ m \in Nat /\ \A j \in 1 .. n : inside[j] \in Inside(C, mark)
  <2>1. n \in Nat
    OBVIOUS
  <2>2. m \in Nat
    BY <2>1
  <2> QED BY <2>1, <2>2
<1> HIDE DEF S, X, Z, n
<1>5. \A i \in 1 .. m : S(i) = TokenizeStep(S(i - 1), chars[i], Next(i))
  <2>0. Next(n + 5) = "&"
    <3>1. n + 5 < m /\ n + 5 + 1 = n + 6
      BY <1>6
    <3> QED BY <1>1, <3>1
  <2> HIDE DEF Next
  <2>1. S(1) = TokenizeStep(S(0), chars[1], Next(1))
    <3>1. TokenizeStep(Scanned(<<>>, <<>>, "between", mark), "x", Next(1)) = Scanned(<<>>, <<"x">>, "word", mark)
      BY ScanLetter
    <3> QED BY <1>1, <1>3, <3>1
  <2>2. S(2) = TokenizeStep(S(1), chars[2], Next(2))
    <3> DEFINE none == <<>>
               letter == <<"x">>
    <3>1. X = Append(none, Plainly(letter))
      BY DEF X
    <3> HIDE DEF X, none, letter
    <3>2. TokenizeStep(Scanned(none, letter, "word", mark), "space", Next(2)) = Scanned(X, <<>>, "between", mark)
      BY <3>1, MarksDiffer DEF TokenizeStep, QuoteMarks, OtherChars, Scanned, Scan, Yes, No, Ended, Flushed, Plainly
    <3> QED BY <1>1, <1>3, <3>2 DEF none, letter
  <2>3. S(3) = TokenizeStep(S(2), chars[3], Next(3))
    <3>1. 0 \in 0 .. n /\ 0 + 3 = 3
      BY <1>6
    <3>2. S(3) = Scanned(X, <<>>, "held", mark)
      BY <1>3, <1>4, <3>1
    <3>3. TokenizeStep(Scanned(X, <<>>, "between", mark), mark, Next(3)) = Scanned(X, <<>>, "held", mark)
      BY ScanOpens
    <3> QED BY <1>1, <1>3, <3>2, <3>3
  <2>4. ASSUME NEW j \in 1 .. n PROVE S(j + 3) = TokenizeStep(S(j + 2), chars[j + 3], Next(j + 3))
    <3> DEFINE r == SubSeq(inside, 1, j - 1)
    <3>1. j \in 0 .. n /\ j - 1 \in 0 .. n /\ j - 1 + 3 = j + 2
      BY <1>6
    <3>2. S(j + 2) = Scanned(X, r, "held", mark)
      BY <1>3, <3>1
    <3>3. S(j + 3) = Scanned(X, Append(r, inside[j]), "held", mark)
      BY <1>3, <1>4, <3>1
    <3>4. chars[j + 3] = inside[j] /\ inside[j] \in Inside(C, mark)
      BY <1>1, <1>6
    <3> HIDE DEF r
    <3>5. TokenizeStep(Scanned(X, r, "held", mark), inside[j], Next(j + 3)) = Scanned(X, Append(r, inside[j]), "held", mark)
      BY <3>4, ScanInside
    <3> QED BY <3>2, <3>3, <3>4, <3>5
  <2>5. S(n + 4) = TokenizeStep(S(n + 3), chars[n + 4], Next(n + 4))
    <3>1. n \in 0 .. n
      BY <1>6
    <3>2. S(n + 3) = Scanned(X, inside, "held", mark)
      BY <1>3, <1>4, <3>1
    <3>3. TokenizeStep(Scanned(X, inside, "held", mark), mark, Next(n + 4)) = Scanned(X, inside, "shut", mark)
      BY ScanCloses
    <3> QED BY <1>1, <1>3, <3>2, <3>3
  <2>6. S(n + 5) = TokenizeStep(S(n + 4), chars[n + 5], Next(n + 5))
    <3>3. Append(Append(X, Held(inside)), Word(<<";">>)) = Z
      <4> DEFINE x == Plainly(<<"x">>)
                 held == Held(inside)
                 cut == Word(<<";">>)
      <4>1. X = <<x>> /\ Z = <<x, held, cut>>
        BY DEF X, Z, Closed
      <4> HIDE DEF x, held, cut, X, Z
      <4>2. Append(<<x>>, held) = <<x, held>>
        BY ONLY SecondWord, Zenon
      <4>3. Append(<<x, held>>, cut) = <<x, held, cut>>
        BY ONLY ThirdWord, Zenon
      <4> QED BY <4>1, <4>2, <4>3, Zenon DEF held, cut
    <3>4. TokenizeStep(Scanned(X, inside, "shut", mark), "&", "&") = Scanned(Append(Append(X, Held(inside)), Word(<<";">>)), <<>>, "passing", mark)
      BY ScanEnds
    <3> QED BY <1>1, <1>3, <2>0, <3>3, <3>4
  <2>7. S(n + 6) = TokenizeStep(S(n + 5), chars[n + 6], Next(n + 6))
    <3>1. TokenizeStep(Scanned(Z, <<>>, "passing", mark), "&", Next(n + 6)) = Scanned(Z, <<>>, "between", mark)
      BY ScanPasses
    <3> QED BY <1>1, <1>3, <3>1
  <2>8. S(n + 7) = TokenizeStep(S(n + 6), chars[n + 7], Next(n + 7))
    <3>2. TokenizeStep(Scanned(Z, <<>>, "between", mark), "y", Next(n + 7)) = Scanned(Z, <<"y">>, "word", mark)
      BY ScanLetter
    <3> QED BY <1>1, <1>3, <3>2
  <2> HIDE DEF Next, m
  <2> SUFFICES ASSUME NEW i \in 1 .. m PROVE S(i) = TokenizeStep(S(i - 1), chars[i], Next(i))
    OBVIOUS
  <2>9. CASE i \in 1 .. 3
    BY <2>1, <2>2, <2>3, <2>9
  <2>10. CASE i \in 4 .. n + 3
    <3>1. i - 3 \in 1 .. n /\ i - 3 + 3 = i /\ i - 3 + 2 = i - 1
      BY <1>6, <2>10
    <3> QED BY <2>4, <3>1
  <2>11. CASE i \in n + 4 .. n + 7
    <3>1. n + 4 - 1 = n + 3 /\ n + 5 - 1 = n + 4 /\ n + 6 - 1 = n + 5 /\ n + 7 - 1 = n + 6
      BY <1>6
    <3>2. i \in {n + 4, n + 5, n + 6, n + 7}
      BY <1>6, <2>11
    <3>3. \/ i = n + 4 /\ i - 1 = n + 3
          \/ i = n + 5 /\ i - 1 = n + 4
          \/ i = n + 6 /\ i - 1 = n + 5
          \/ i = n + 7 /\ i - 1 = n + 6
      BY <1>6, <3>2
    <3> QED BY <2>5, <2>6, <2>7, <2>8, <3>3
  <2> QED BY <1>6, <2>9, <2>10, <2>11 DEF m
<1> HIDE DEF Next, m, at
<1>0. Start = Scanned(<<>>, <<>>, "between", mark)
  BY DEF Scanned, Scan, Yes, No
<1> HIDE DEF Start
<1>7. \E f : Eq(f)
  <2> DEFINE f == [i \in 0 .. m |-> S(i)]
  <2>1. \A i \in 1 .. m : i \in 0 .. m /\ i - 1 \in 0 .. m /\ f[i] = S(i) /\ f[i - 1] = S(i - 1) /\ i # 0
    BY <1>6
  <2>2. f[0] = S(0) /\ \A i \in 0 .. m : i = 0 \/ i \in 1 .. m
    BY <1>6
  <2>3. f = [i \in 0 .. m |-> f[i]]
    OBVIOUS
  <2> HIDE DEF f
  <2>4. \A i \in 0 .. m : f[i] = IF i = 0 THEN Start
                                 ELSE TokenizeStep(f[i - 1], chars[i], Next(i))
    BY <1>0, <1>3, <1>5, <2>1, <2>2
  <2>5. Eq(f)
    BY <2>3, <2>4
  <2> QED BY <2>5
<1>8. Eq(at)
  <2> HIDE DEF Eq
  <2> QED BY <1>7 DEF at
<1>9. at[0] = S(0) /\ \A i \in 1 .. m : at[i] = TokenizeStep(at[i - 1], chars[i], Next(i))
  <2>1. at = [i \in 0 .. m |-> IF i = 0 THEN Start
                               ELSE TokenizeStep(at[i - 1], chars[i], Next(i))]
    BY <1>8
  <2>2. 0 \in 0 .. m /\ \A i \in 1 .. m : i \in 0 .. m /\ i # 0
    BY <1>6
  <2>3. at[0] = Start
    BY <2>1, <2>2, Zenon
  <2>4. ASSUME NEW i \in 1 .. m PROVE at[i] = TokenizeStep(at[i - 1], chars[i], Next(i))
    <3>1. i \in 0 .. m /\ i # 0
      BY <2>2
    <3>2. at[i] = IF i = 0 THEN Start ELSE TokenizeStep(at[i - 1], chars[i], Next(i))
      BY <2>1, <3>1, Zenon
    <3> QED BY <3>1, <3>2
  <2> QED BY <1>0, <1>3, <2>3, <2>4
<1> HIDE DEF Eq
<1> DEFINE R == {i \in 0 .. m : at[i] = S(i)}
<1>10. 0 \in R
  BY <1>6, <1>9
<1>11. ASSUME NEW i \in 1 .. m, i - 1 \in R PROVE i \in R
  BY <1>5, <1>6, <1>9, <1>11
<1>12. m \in R
  <2> HIDE DEF R
  <2>1. \A i \in 0 .. m : i \in R
    BY <1>6, <1>10, <1>11, Upwards
  <2> QED BY <1>6, <2>1
<1>13. at[m] = Scanned(Z, <<"y">>, "word", mark)
  BY <1>3, <1>12 DEF m
<1>14. Flushed(at[m]) = Append(Z, Plainly(<<"y">>))
  BY <1>13 DEF Flushed, Scanned, Scan, Yes, No, Plainly
<1>15. Append(Z, Plainly(<<"y">>)) = <<Plainly(<<"x">>), Held(inside), Word(<<";">>), Plainly(<<"y">>)>>
  <2> DEFINE x == Plainly(<<"x">>)
             held == Held(inside)
             cut == Word(<<";">>)
             y == Plainly(<<"y">>)
  <2>1. Z = <<x, held, cut>>
    BY DEF Z, Closed
  <2> HIDE DEF x, held, cut, y, Z
  <2>2. Append(<<x, held, cut>>, y) = <<x, held, cut, y>>
    BY ONLY FourthWord, Zenon
  <2> QED BY <2>1, <2>2, Zenon DEF x, held, cut, y
<1> QED BY <1>2, <1>14, <1>15 DEF QuotesHold, chars, Plainly, Held

-----------------------------------------------------------------------------
(* hook: the commit in a command *)

FlagWords(flags) == {Word(f) : f \in flags}
AlsoRead(words, flags, read, i) == IF i - 1 \in read /\ words[i - 1] \in FlagWords(flags) THEN read ELSE read \cup {i}
ReadsWords(at, words, flags) == at[0] = {} /\ \A i \in 1 .. Len(words) : at[i] = AlsoRead(words, flags, at[i - 1], i)

\* The words are read one by one.
LEMMA AloneWalks ==
  ASSUME NEW words, NEW flags, TextOf(words)
  PROVE  \E at \in [0 .. Len(words) -> SUBSET (1 .. Len(words))] : ReadsWords(at, words, flags) /\ Alone(words, flags) = at[Len(words)]
<1> DEFINE T == SUBSET (1 .. Len(words))
           n == Len(words)
           seq == [i \in DOMAIN words |-> i]
           step == [p \in T \X (1 .. n) |-> AlsoRead(words, flags, p[1], seq[p[2]])]
           Eq(f) == f = [s \in SUBSET DOMAIN seq |-> IF s = {} THEN {} ELSE AlsoRead(words, flags, f[s \ {Max(s)}], seq[Max(s)])]
           iter == CHOOSE f : Eq(f)
<1>1. n \in Nat /\ DOMAIN seq = 1 .. n
  BY DEF TextOf
<1>2. {} \in T
  OBVIOUS
<1>4. step \in [T \X (1 .. n) -> T] /\ \A s \in T, i \in 1 .. n : step[<<s, i>>] = AlsoRead(words, flags, s, seq[i])
  <2>1. \A s \in T, i \in 1 .. n : AlsoRead(words, flags, s, seq[i]) \in T
    BY <1>1 DEF AlsoRead
  <2> HIDE DEF T, n, seq
  <2> QED BY <2>1
<1>5. Alone(words, flags) = iter[DOMAIN seq]
  BY DEF Alone, AlsoRead, FlagWords, FoldLeft, MapThenFoldSet
<1> HIDE DEF T, n, step, seq
<1>6. \E f : Eq(f)
  <2>1. PICK f \in [SUBSET (1 .. n) -> T] : FoldsSets(f, n, {}, step)
    BY <1>1, <1>2, <1>4, FoldExists
  <2>2. ASSUME NEW s \in SUBSET (1 .. n), s # {} PROVE f[s] = AlsoRead(words, flags, f[s \ {Max(s)}], seq[Max(s)])
    <3>1. Max(s) \in 1 .. n /\ s \ {Max(s)} \in SUBSET (1 .. n)
      BY <1>1, <2>2, MaxInside
    <3>2. f[s \ {Max(s)}] \in T
      BY <3>1
    <3>3. f[s] = step[<<f[s \ {Max(s)}], Max(s)>>]
      BY <2>1, <2>2 DEF FoldsSets
    <3>4. step[<<f[s \ {Max(s)}], Max(s)>>] = AlsoRead(words, flags, f[s \ {Max(s)}], seq[Max(s)])
      BY <1>1, <1>4, <3>1, <3>2
    <3> QED BY <3>3, <3>4
  <2>3. f[{}] = {}
    BY <2>1 DEF FoldsSets
  <2>4. Eq(f)
    BY <1>1, <2>1, <2>2, <2>3
  <2> QED BY <2>4
<1>7. Eq(iter)
  <2> HIDE DEF Eq
  <2> QED BY <1>6
<1> HIDE DEF iter
<1>8. iter[{}] = {}
  BY <1>7
<1>9. ASSUME NEW s \in SUBSET (1 .. n), s # {}, iter[s \ {Max(s)}] \in T
      PROVE iter[s] = step[<<iter[s \ {Max(s)}], Max(s)>>]
  <2>1. Max(s) \in 1 .. n
    BY <1>1, <1>9, MaxInside
  <2>2. step[<<iter[s \ {Max(s)}], Max(s)>>] = AlsoRead(words, flags, iter[s \ {Max(s)}], seq[Max(s)])
    BY <1>1, <1>4, <1>9, <2>1
  <2>3. iter[s] = AlsoRead(words, flags, iter[s \ {Max(s)}], seq[Max(s)])
    BY <1>1, <1>7, <1>9
  <2> QED BY <2>2, <2>3
<1> HIDE DEF Eq
<1>g. Iterates(iter, T, n, step)
  BY <1>9 DEF Iterates
<1>10. PICK at \in [0 .. n -> T] : Arrives(at, n, {}, step, iter)
  BY <1>1, <1>2, <1>4, <1>8, <1>g, FoldWalks
<1>11. ASSUME NEW i \in 1 .. n PROVE at[i] = AlsoRead(words, flags, at[i - 1], seq[i])
  <2>1. at[i - 1] \in T
    BY <1>1
  <2> QED BY <1>4, <1>10, <2>1 DEF Walks, Arrives
<1> QED BY <1>1, <1>5, <1>10, <1>11 DEF n, T, seq, ReadsWords, Walks, Arrives

\* hook.parseCommand: a place is read by itself unless the one before it is, and
\* is a flag that takes a value.
LEMMA AloneIs ==
  ASSUME NEW words, NEW flags, TextOf(words)
  PROVE  /\ Alone(words, flags) \subseteq 1 .. Len(words)
         /\ \A i \in 1 .. Len(words) :
              i \in Alone(words, flags) <=> ~(i - 1 \in Alone(words, flags) /\ words[i - 1] \in FlagWords(flags))
<1> DEFINE n == Len(words)
           F == FlagWords(flags)
<1>1. n \in Nat
  BY DEF TextOf
<1>2. PICK at \in [0 .. n -> SUBSET (1 .. n)] : ReadsWords(at, words, flags) /\ Alone(words, flags) = at[n]
  BY AloneWalks
<1>3. at[0] = {} /\ \A i \in 1 .. n : at[i] = IF i - 1 \in at[i - 1] /\ words[i - 1] \in F THEN at[i - 1] ELSE at[i - 1] \cup {i}
  BY <1>2 DEF ReadsWords, AlsoRead
<1> HIDE DEF n, F
<1> DEFINE S == {k \in 0 .. n : /\ at[k] \subseteq 1 .. k
                                /\ \A i \in 1 .. k : i \in at[k] <=> ~(i - 1 \in at[k] /\ words[i - 1] \in F)}
<1>4. 0 \in S
  BY <1>1, <1>3
<1>5. ASSUME NEW k \in 1 .. n, k - 1 \in S PROVE k \in S
  <2>1. at[k - 1] \subseteq 1 .. k - 1 /\ \A i \in 1 .. k - 1 : i \in at[k - 1] <=> ~(i - 1 \in at[k - 1] /\ words[i - 1] \in F)
    BY <1>5
  <2>2. at[k] = IF k - 1 \in at[k - 1] /\ words[k - 1] \in F THEN at[k - 1] ELSE at[k - 1] \cup {k}
    BY <1>3
  <2>3. \A i \in 0 .. k - 1 : i \in at[k] <=> i \in at[k - 1]
    BY <1>1, <2>1, <2>2
  <2>4. at[k] \subseteq 1 .. k
    BY <1>1, <2>1, <2>2
  <2>5. k \in at[k] <=> ~(k - 1 \in at[k] /\ words[k - 1] \in F)
    BY <1>1, <2>1, <2>2, <2>3
  <2>6. \A i \in 1 .. k - 1 : i \in at[k] <=> ~(i - 1 \in at[k] /\ words[i - 1] \in F)
    BY <1>1, <2>1, <2>3
  <2>7. \A i \in 1 .. k : i = k \/ i \in 1 .. k - 1
    BY <1>1
  <2> QED BY <1>1, <2>4, <2>5, <2>6, <2>7
<1>6. n \in S
  <2> HIDE DEF S
  <2>1. \A k \in 0 .. n : k \in S
    BY <1>1, <1>4, <1>5, Upwards
  <2> QED BY <1>1, <2>1
<1> QED BY <1>2, <1>6 DEF n, F

\* What is told behind `commit`: no file, and no message that is a flag itself.
PlainlyTold(args) == TextOf(args) /\ \A j \in 1 .. Len(args) :
  args[j] # Word("-F") /\ (args[j] = Word("-m") /\ j > 1 => args[j - 1] # Word("-m"))
Valued(args, j) == args[j] = Word("-m") /\ j < Len(args) /\ (j = 1 \/ args[j - 1] # Word("-m"))

\* Such words are read as they are meant.
LEMMA ArgumentsAre ==
  ASSUME NEW args, PlainlyTold(args)
  PROVE  /\ Arguments(args).messages = {args[j + 1].word : j \in {j \in DOMAIN args : Valued(args, j)}}
         /\ Arguments(args).noVerify <=> \E j \in DOMAIN args : args[j] = Word("-n") /\ (j = 1 \/ ~Valued(args, j - 1))
<1> DEFINE n == Len(args)
           read == Alone(args, MessageFlags)
           Said(flag) == {i \in read : args[i] = Word(flag) /\ i < n}
           m == Word("-m")
           no == Word("-n")
<1>1. n \in Nat /\ DOMAIN args = 1 .. n
  BY DEF PlainlyTold, TextOf
<1>2. /\ Arguments(args).messages = {args[i + 1].word : i \in Said("-m")}
      /\ Arguments(args).noVerify <=> \E i \in read : args[i] = no
  BY DEF Arguments
<1>3. /\ read \subseteq 1 .. n
      /\ \A i \in 1 .. n : i \in read <=> ~(i - 1 \in read /\ args[i - 1] \in {m, Word("-F")})
  <2>1. FlagWords(MessageFlags) = {m, Word("-F")}
    BY DEF FlagWords, MessageFlags
  <2> QED BY <2>1, AloneIs DEF PlainlyTold
<1>4. /\ \A j \in 1 .. n : args[j] # Word("-F") /\ (args[j] = m /\ j > 1 => args[j - 1] # m)
      /\ \A j : Valued(args, j) <=> args[j] = m /\ j < n /\ (j = 1 \/ args[j - 1] # m)
  BY DEF PlainlyTold, Valued
<1>s. Said("-m") = {i \in read : args[i] = m /\ i < n}
  OBVIOUS
<1>5. m # no
  BY DEF Word
<1> HIDE DEF n, read, Said, m, no
<1>6. \A i \in 1 .. n : i \in read <=> ~(i > 1 /\ i - 1 \in read /\ args[i - 1] = m)
  BY <1>1, <1>3, <1>4
<1>7. \A i \in 1 .. n : args[i] = m => i \in read
  BY <1>1, <1>4, <1>6
<1>8. Said("-m") = {j \in DOMAIN args : Valued(args, j)}
  <2>1. \A j \in 1 .. n : Valued(args, j) <=> args[j] = m /\ j < n
    <3>1. \A j \in 1 .. n : j = 1 \/ j > 1
      BY <1>1
    <3> QED BY <1>4, <3>1
  <2>2. \A j : j \in Said("-m") <=> j \in 1 .. n /\ j \in read /\ args[j] = m /\ j < n
    BY <1>s, <1>3
  <2>3. \A j : j \in Said("-m") <=> j \in 1 .. n /\ Valued(args, j)
    BY <1>7, <2>1, <2>2
  <2> QED BY <1>1, <1>s, <2>3
<1>9. \A i \in 1 .. n : i \in read <=> (i = 1 \/ ~Valued(args, i - 1))
  <2>1. \A i \in 1 .. n : i > 1 => i - 1 \in 1 .. n /\ i - 1 < n /\ i # 1 /\ (i - 1 = 1 \/ i - 1 > 1)
    BY <1>1
  <2>2. \A i \in 1 .. n : i > 1 => (args[i - 1] = m <=> Valued(args, i - 1))
    BY <1>4, <2>1
  <2>3. \A i \in 1 .. n : i = 1 \/ i > 1
    BY <1>1
  <2> QED BY <1>6, <1>7, <2>1, <2>2, <2>3
<1> QED BY <1>1, <1>2, <1>3, <1>8, <1>9 DEF no

\* A call of git: its options, what it is to do, and what it is told. Every option
\* that takes a value has one, which is not itself `-C`.
OptionsOk(options) ==
  /\ TextOf(options)
  /\ \A j \in 1 .. Len(options) :
       IF j \in Alone(options, GitValueFlags)
       THEN options[j] \in FlagWords(GitFlags) /\ (options[j] \in FlagWords(GitValueFlags) => j < Len(options))
       ELSE options[j] # Word("-C") /\ options[j].word # "none"
CallsGit(seg, options, verb, args) ==
  /\ TextOf(seg) /\ Len(args) \in Nat /\ Len(seg) = Len(options) + 2 + Len(args)
  /\ seg[1] = Word("git") /\ (\A j \in 1 .. Len(options) : seg[j + 1] = options[j])
  /\ seg[Len(options) + 2] = verb /\ SubSeq(seg, Len(options) + 3, Len(seg)) = args
OwnDirs(options) == {j \in DOMAIN options : j > 1 /\ options[j - 1] = Word("-C")}

\* git's options are read by themselves behind it as they are alone.
LEMMA OptionsRead ==
  ASSUME NEW seg, NEW options, NEW verb, NEW args, CallsGit(seg, options, verb, args), OptionsOk(options)
  PROVE  LET read == Alone(seg, GitValueFlags) IN
           /\ 1 \in read /\ \A j \in 1 .. Len(options) : j + 1 \in read <=> j \in Alone(options, GitValueFlags)
           /\ Len(options) + 2 \in read
<1> DEFINE n == Len(options)
           F == FlagWords(GitValueFlags)
           own == Alone(options, GitValueFlags)
           read == Alone(seg, GitValueFlags)
<1>1. /\ n \in Nat /\ Len(seg) \in Nat /\ Len(seg) >= n + 2
      /\ \A j \in 1 .. n : j \in own /\ options[j] \in F => j < n
  BY DEF CallsGit, OptionsOk, TextOf
<1>2. own \subseteq 1 .. n /\ \A j \in 1 .. n : j \in own <=> ~(j - 1 \in own /\ options[j - 1] \in F)
  BY AloneIs DEF OptionsOk
<1>3. read \subseteq 1 .. Len(seg) /\ \A j \in 1 .. Len(seg) : j \in read <=> ~(j - 1 \in read /\ seg[j - 1] \in F)
  BY AloneIs DEF CallsGit
<1>4. seg[1] \notin F /\ \A j \in 1 .. n : seg[j + 1] = options[j]
  BY DEF CallsGit, FlagWords, GitValueFlags, Word
<1> HIDE DEF n, F, own, read
<1>5. 1 \in read
  <2>1. 1 - 1 \notin read
    BY <1>1, <1>3
  <2>2. 1 \in 1 .. Len(seg)
    BY <1>1
  <2> QED BY <1>3, <2>1, <2>2
<1> DEFINE S == {k \in 0 .. n : k = 0 \/ (k + 1 \in read <=> k \in own)}
<1>6. 0 \in S
  BY <1>1
<1>7. ASSUME NEW k \in 1 .. n, k - 1 \in S PROVE k \in S
  <2>1. k + 1 \in 1 .. Len(seg) /\ k + 1 - 1 = k /\ k \in 0 .. n
    BY <1>1
  <2>2. k + 1 \in read <=> ~(k \in read /\ seg[k] \in F)
    BY <1>3, <2>1
  <2>3. k \in own <=> ~(k - 1 \in own /\ options[k - 1] \in F)
    BY <1>2
  <2>4. CASE k = 1
    <3>1. 1 - 1 \notin own
      BY <1>1, <1>2
    <3>2. k \in own /\ k + 1 \in read
      BY <1>4, <2>2, <2>3, <2>4, <3>1
    <3> QED BY <2>1, <3>2
  <2>5. CASE k # 1
    <3>1. k - 1 \in 1 .. n /\ k - 1 + 1 = k /\ k - 1 # 0
      BY <1>1, <2>5
    <3>2. seg[k] = options[k - 1]
      BY <1>4, <3>1
    <3>3. k \in read <=> k - 1 \in own
      BY <1>7, <3>1
    <3>4. k + 1 \in read <=> k \in own
      BY <2>2, <2>3, <3>2, <3>3
    <3> QED BY <2>1, <3>4
  <2> QED BY <2>4, <2>5
<1>8. \A j \in 0 .. n : j \in S
  <2> HIDE DEF S
  <2> QED BY <1>1, <1>6, <1>7, Upwards
<1>9. \A j \in 1 .. n : j + 1 \in read <=> j \in own
  <2>1. \A j \in 1 .. n : j \in 0 .. n /\ j # 0
    BY <1>1
  <2> QED BY <1>8, <2>1
<1>10. n + 2 \in read
  <2>2. n + 2 \in read <=> ~(n + 1 \in read /\ seg[n + 1] \in F)
    <3> DEFINE x == n + 2
    <3>1. x \in 1 .. Len(seg) /\ x - 1 = n + 1
      BY <1>1
    <3> HIDE DEF x
    <3>2. x \in read <=> ~(x - 1 \in read /\ seg[x - 1] \in F)
      BY <1>3, <3>1
    <3>3. x \in read <=> ~(n + 1 \in read /\ seg[n + 1] \in F)
      BY ONLY <3>1, <3>2
    <3> QED BY <3>3 DEF x
  <2>3. CASE n = 0
    <3>1. n + 1 = 1
      BY <2>3
    <3>2. seg[n + 1] \notin F
      BY <1>4, <3>1
    <3> QED BY <2>2, <3>2
  <2>4. CASE n # 0
    <3>1. n \in 1 .. n
      BY <1>1, <2>4
    <3>2. ~(n + 1 \in read /\ seg[n + 1] \in F)
      <4> SUFFICES ASSUME n + 1 \in read, seg[n + 1] \in F PROVE FALSE
        OBVIOUS
      <4>1. n \in own /\ options[n] \in F
        BY <1>4, <1>9, <3>1
      <4> QED BY <1>1, <3>1, <4>1
    <3> QED BY <2>2, <3>2
  <2> QED BY <2>3, <2>4
<1> QED BY <1>5, <1>9, <1>10 DEF n, F, own, read

\* hook.parseCommand: git's own options end at the word that says what to do, and
\* the last directory among them is where it runs.
LEMMA OptionsEnd ==
  ASSUME NEW seg, NEW options, NEW verb, NEW args, CallsGit(seg, options, verb, args), OptionsOk(options),
         verb \notin FlagWords(GitFlags)
  PROVE  /\ Subcommand(seg) = Len(options) + 2
         /\ DirOf(seg) = IF OwnDirs(options) = {} THEN "none" ELSE options[Max(OwnDirs(options))].word
<1> DEFINE n == Len(options)
           F == FlagWords(GitValueFlags)
           G == FlagWords(GitFlags)
           own == Alone(options, GitValueFlags)
           read == Alone(seg, GitValueFlags)
           c == Word("-C")
           behind == {i \in read : i > 1 /\ seg[i] \notin G} \cup {Len(seg) + 1}
           flags == {i \in read : seg[i] = c /\ i < Subcommand(seg) /\ i < Len(seg)}
<1>1. /\ n \in Nat /\ Len(seg) \in Nat /\ Len(seg) >= n + 2 /\ DOMAIN options = 1 .. n /\ DOMAIN seg = 1 .. Len(seg)
      /\ (\A j \in 1 .. n : j \in own => options[j] \in G /\ (options[j] \in F => j < n))
      /\ (\A j \in 1 .. n : options[j] = c => j \in own)
  BY DEF CallsGit, OptionsOk, TextOf
<1>2. 1 \in read /\ (\A j \in 1 .. n : j + 1 \in read <=> j \in own) /\ n + 2 \in read
  BY OptionsRead
<1>3. read \subseteq 1 .. Len(seg)
  BY AloneIs DEF CallsGit
<1>4. seg[1] = Word("git") /\ (\A j \in 1 .. n : seg[j + 1] = options[j]) /\ seg[n + 2] = verb
  BY DEF CallsGit
<1>5. Subcommand(seg) = Min(behind)
  BY DEF Subcommand, FlagWords
<1>6. DirOf(seg) = IF flags = {} THEN "none" ELSE seg[Max(flags) + 1].word
  BY DEF DirOf
<1>7. c # Word("git") /\ c \in F
  BY DEF Word, FlagWords, GitValueFlags
<1>d. OwnDirs(options) = {j \in 1 .. n : j > 1 /\ options[j - 1] = c}
  BY <1>1 DEF OwnDirs
<1>v. verb \notin G
  OBVIOUS
<1>w. behind = {i \in read : i > 1 /\ seg[i] \notin G} \cup {Len(seg) + 1}
  OBVIOUS
<1>x. flags = {i \in read : seg[i] = c /\ i < Subcommand(seg) /\ i < Len(seg)}
  OBVIOUS
<1> HIDE DEF n, F, G, own, read, c, behind, flags
<1>8. Subcommand(seg) = n + 2
  <2>1. n + 2 \in behind
    BY <1>1, <1>2, <1>4, <1>v, <1>w
  <2>2. ASSUME NEW y \in read, y > 1, seg[y] \notin G PROVE n + 2 <= y
    <3> SUFFICES ASSUME ~(n + 2 <= y) PROVE FALSE
      OBVIOUS
    <3>1. y - 1 \in 1 .. n /\ y - 1 + 1 = y
      BY <1>1, <1>3, <2>2
    <3> QED BY <1>1, <1>2, <1>4, <2>2, <3>1
  <2>3. behind \subseteq Nat
    <3>1. Len(seg) + 1 \in Nat /\ \A i \in 1 .. Len(seg) : i \in Nat
      BY <1>1
    <3> QED BY <1>3, <1>w, <3>1
  <2>4. \A y \in behind : n + 2 <= y
    BY <1>1, <2>2, <1>w
  <2> QED BY <1>5, <2>1, <2>3, <2>4, LeastIs
<1>9. flags = OwnDirs(options)
  <2>1. ASSUME NEW i \in flags PROVE i \in OwnDirs(options)
    <3>1. i \in read /\ i \in 1 .. Len(seg) /\ seg[i] = c /\ i < n + 2
      BY <1>3, <1>8, <1>x
    <3>2. i # 1
      BY <1>4, <1>7, <3>1
    <3>3. i - 1 \in 1 .. n /\ i - 1 + 1 = i
      BY <1>1, <3>1, <3>2
    <3>4. i - 1 \in own /\ options[i - 1] = c
      BY <1>2, <1>4, <3>1, <3>3
    <3>5. i - 1 < n
      BY <1>1, <1>7, <3>3, <3>4
    <3>6. i \in 1 .. n /\ i > 1
      BY <1>1, <3>1, <3>3, <3>5
    <3> QED BY <1>d, <3>4, <3>6
  <2>2. ASSUME NEW i \in OwnDirs(options) PROVE i \in flags
    <3>1. i \in 1 .. n /\ i > 1 /\ options[i - 1] = c
      BY <1>d
    <3>2. i - 1 \in 1 .. n /\ i - 1 + 1 = i /\ i < n + 2 /\ i < Len(seg)
      BY <1>1, <3>1
    <3>3. seg[i] = c /\ i \in read
      BY <1>1, <1>2, <1>4, <3>1, <3>2
    <3> QED BY <1>8, <1>x, <3>2, <3>3
  <2> QED BY <2>1, <2>2
<1>10. ASSUME OwnDirs(options) # {} PROVE seg[Max(OwnDirs(options)) + 1] = options[Max(OwnDirs(options))]
  <2>1. OwnDirs(options) \in SUBSET (1 .. n)
    BY <1>d
  <2>2. Max(OwnDirs(options)) \in 1 .. n
    BY <1>1, <1>10, <2>1, MaxInside
  <2> QED BY <1>4, <2>2
<1> QED BY <1>6, <1>8, <1>9, <1>10 DEF n

\* Words that stand at some place are what is cut out there.
LEMMA CutOut ==
  ASSUME NEW T, NEW u \in Seq(T), NEW w \in Seq(T), NEW m \in Nat, m + Len(w) <= Len(u),
         \A i \in 1 .. Len(w) : u[m + i] = w[i]
  PROVE  SubSeq(u, m + 1, m + Len(w)) = w
<1> DEFINE k == Len(w)
           a == m + 1
           e == m + k
           part == SubSeq(u, a, e)
<1>1. k \in Nat /\ Len(u) \in Nat /\ m + k <= Len(u) /\ DOMAIN u = 1 .. Len(u) /\ (\A i \in 1 .. Len(u) : u[i] \in T)
      /\ \A i \in 1 .. k : u[m + i] = w[i]
  OBVIOUS
<1>w. w = [i \in 1 .. k |-> w[i]]
  OBVIOUS
<1> HIDE DEF k
<1>2. a \in Int /\ e \in Int /\ e - a + 1 = k /\ (a <= e <=> k # 0) /\ (\A i \in 1 .. k : a + i - 1 = m + i)
      /\ \A i \in a .. e : i \in 1 .. Len(u)
  BY <1>1
<1> HIDE DEF a, e
<1>3. /\ part \in Seq(T) /\ Len(part) = IF a <= e THEN e - a + 1 ELSE 0
      /\ \A i \in 1 .. e - a + 1 : part[i] = u[a + i - 1]
  <2>1. \A i \in a .. e : u[i] \in T
    BY <1>1, <1>2
  <2> QED BY <1>2, <2>1, SubSeqProperties
<1>4. Len(part) = k
  BY <1>1, <1>2, <1>3
<1>5. \A i \in 1 .. k : part[i] = w[i]
  <2>1. \A i \in 1 .. k : part[i] = u[m + i]
    BY <1>2, <1>3
  <2> QED BY <1>1, <2>1
<1>6. part = [i \in 1 .. Len(part) |-> part[i]]
  <2>1. part \in Seq(T)
    BY <1>3
  <2> HIDE DEF part
  <2> QED BY <2>1
<1> HIDE DEF part
<1>7. part = w
  BY <1>4, <1>5, <1>6, <1>w
<1> QED BY <1>7 DEF part, a, e, k

\* What is behind so many words.
LEMMA BehindFirst ==
  ASSUME NEW T, NEW s \in Seq(T), NEW t \in Seq(T)
  PROVE  SubSeq(s \o t, Len(s) + 1, Len(s \o t)) = t
<1> DEFINE u == s \o t
           k == Len(s)
<1>1. /\ k \in Nat /\ Len(t) \in Nat /\ u \in Seq(T) /\ Len(u) = k + Len(t)
      /\ \A j \in 1 .. Len(t) : u[k + j] = t[j]
  OBVIOUS
<1> HIDE DEF u, k
<1>2. k + Len(t) <= Len(u)
  BY <1>1
<1>3. SubSeq(u, k + 1, k + Len(t)) = t
  BY <1>1, <1>2, CutOut
<1> QED BY <1>1, <1>3 DEF u, k

\* stripPrefixWords: what stands before the program is nothing but `env` and
\* assignments, and the program is neither.
PrefixWords == {"env"} \cup Assignments
BeforeProgram(t) == ~t.quoted /\ t.word \in PrefixWords

\* Stripping them leaves what is behind them.
LEMMA StripsPrefix ==
  ASSUME NEW T, NEW before \in Seq(T), NEW rest \in Seq(T), rest # <<>>,
         \A j \in 1 .. Len(before) : BeforeProgram(before[j]), ~BeforeProgram(rest[1])
  PROVE  StripPrefixWords(before \o rest) = rest
<1> DEFINE seg == before \o rest
           b == Len(before)
           first == {i \in DOMAIN seg : seg[i].quoted \/ seg[i].word \notin {"env"} \cup Assignments}
<1>1. /\ b \in Nat /\ Len(rest) \in Nat /\ Len(rest) >= 1
      /\ seg \in Seq(T) /\ DOMAIN seg = 1 .. Len(seg) /\ Len(seg) = b + Len(rest)
      /\ (\A j \in 1 .. b : seg[j] = before[j]) /\ seg[b + 1] = rest[1]
  OBVIOUS
<1>2. StripPrefixWords(seg) = IF first = {} THEN <<>> ELSE SubSeq(seg, Min(first), Len(seg))
  BY DEF StripPrefixWords
<1>3. SubSeq(seg, b + 1, Len(seg)) = rest
  BY BehindFirst
<1>4. \A i : i \in first <=> i \in DOMAIN seg /\ ~BeforeProgram(seg[i])
  BY DEF BeforeProgram, PrefixWords
<1>5. (\A j \in 1 .. b : BeforeProgram(before[j])) /\ ~BeforeProgram(rest[1])
  OBVIOUS
<1> HIDE DEF seg, b, first
<1>6. b + 1 \in first
  BY <1>1, <1>4, <1>5
<1>7. first \subseteq Nat
  BY <1>1, <1>4
<1>8. ASSUME NEW y \in first PROVE b + 1 <= y
  <2>1. y \in 1 .. b + Len(rest) /\ ~BeforeProgram(seg[y])
    BY <1>1, <1>4
  <2>2. y \notin 1 .. b
    BY <1>1, <1>5, <2>1
  <2> QED BY <1>1, <2>1, <2>2
<1>9. Min(first) = b + 1
  BY <1>6, <1>7, <1>8, LeastIs
<1> QED BY <1>2, <1>3, <1>6, <1>9 DEF seg

\* Words that stand in a command, behind an operator unless they begin it.
Stands(tokens, w, p) ==
  p + Len(w) <= Len(tokens) /\ (\A i \in 1 .. Len(w) : tokens[p + i] = w[i]) /\ (p > 0 => tokens[p] = Operator)

\* They still do when more is said.
LEMMA StandsStill ==
  ASSUME NEW T, NEW tokens \in Seq(T), NEW more \in Seq(T), NEW w \in Seq(T), NEW p \in Nat, Stands(tokens, w, p),
         Len(tokens) <= Len(more), \A i \in 1 .. Len(tokens) : more[i] = tokens[i]
  PROVE  Stands(more, w, p)
<1> DEFINE n == Len(tokens)
           k == Len(w)
<1>1. /\ n \in Nat /\ k \in Nat /\ Len(more) \in Nat /\ p + k <= n /\ n <= Len(more)
      /\ (\A i \in 1 .. k : tokens[p + i] = w[i]) /\ (p > 0 => tokens[p] = Operator)
      /\ \A i \in 1 .. n : more[i] = tokens[i]
  BY DEF Stands
<1> HIDE DEF n, k
<1>2. \A i \in 1 .. k : p + i \in 1 .. n
  BY <1>1
<1>3. \A i \in 1 .. k : more[p + i] = w[i]
  BY <1>1, <1>2
<1>4. p > 0 => p \in 1 .. n
  BY <1>1
<1>5. p + k <= Len(more) /\ (p > 0 => more[p] = Operator)
  BY <1>1, <1>4
<1> QED BY <1>3, <1>5 DEF Stands, k

\* What is said last stands behind what came before.
SaidNext(T, s, w, tokens, p) ==
  s \in Seq(T) /\ w \in Seq(T) /\ Operator \in T /\ tokens = s \o (<<Operator>> \o w) /\ p = Len(s) + 1

\* It stands where it begins, and what came before stays where it is.
LEMMA StandsLast ==
  ASSUME NEW T, NEW s, NEW w, NEW tokens, NEW p, SaidNext(T, s, w, tokens, p)
  PROVE  /\ tokens \in Seq(T) /\ Stands(tokens, w, p) /\ Len(tokens) = Len(s) + 1 + Len(w)
         /\ \A i \in 1 .. Len(s) : tokens[i] = s[i]
<1> DEFINE a == Len(s)
           k == Len(w)
           o == <<Operator>>
           t == o \o w
<1>1. o \in Seq(T) /\ Len(o) = 1 /\ o[1] = Operator
  BY DEF SaidNext
<1>t. /\ t = o \o w /\ tokens = s \o t /\ a \in Nat /\ k \in Nat /\ a = Len(s) /\ k = Len(w) /\ p = a + 1
      /\ s \in Seq(T) /\ w \in Seq(T)
  BY DEF SaidNext
<1> HIDE DEF a, k, o, t
<1>2. /\ t \in Seq(T) /\ Len(t) = Len(o) + Len(w)
      /\ (\A i \in 1 .. Len(o) : t[i] = o[i]) /\ \A j \in 1 .. Len(w) : t[Len(o) + j] = w[j]
  <2>1. o \in Seq(T) /\ w \in Seq(T) /\ t = o \o w
    BY <1>1, <1>t
  <2> QED BY ONLY <2>1, Joined
<1>3. /\ tokens \in Seq(T) /\ Len(tokens) = Len(s) + Len(t)
      /\ (\A i \in 1 .. Len(s) : tokens[i] = s[i]) /\ \A j \in 1 .. Len(t) : tokens[Len(s) + j] = t[j]
  <2>1. s \in Seq(T) /\ t \in Seq(T) /\ tokens = s \o t
    BY <1>t, <1>2
  <2> QED BY ONLY <2>1, Joined
<1>4. Len(t) = k + 1 /\ t[1] = Operator /\ \A j \in 1 .. k : t[1 + j] = w[j]
  <2>1. Len(t) = k + 1 /\ \A j \in 1 .. k : t[1 + j] = w[j]
    BY <1>1, <1>2, <1>t
  <2>2. 1 \in 1 .. Len(o)
    BY <1>1
  <2> QED BY <1>1, <1>2, <2>1, <2>2
<1>5. Len(tokens) = a + 1 + k
  BY <1>3, <1>4, <1>t
<1>6. tokens[a + 1] = Operator
  <2>1. 1 \in 1 .. Len(t)
    BY <1>4, <1>t
  <2> QED BY <1>3, <1>4, <1>t, <2>1
<1>7. \A i \in 1 .. k : tokens[(a + 1) + i] = w[i]
  <2>1. \A i \in 1 .. k : 1 + i \in 1 .. Len(t) /\ (a + 1) + i = a + (1 + i)
    BY <1>4, <1>t
  <2>2. \A i \in 1 .. k : tokens[a + (1 + i)] = t[1 + i]
    BY <1>3, <1>t, <2>1
  <2> QED BY <1>4, <2>1, <2>2
<1>8. Stands(tokens, w, a + 1)
  <2>1. (a + 1) + k <= Len(tokens)
    BY <1>5, <1>t
  <2> QED BY <1>6, <1>7, <2>1, <1>t DEF Stands
<1> QED BY <1>3, <1>5, <1>8, <1>t

\* Segments that lie in a command one behind the other, with an operator between.
Strung(ws) == FlattenSeq([k \in DOMAIN ws |-> IF k = 1 THEN ws[k] ELSE <<Operator>> \o ws[k]])
NextTo(ws, start) == start[1] = 0 /\ \A j \in 1 .. Len(ws) : j < Len(ws) => start[j + 1] = start[j] + Len(ws[j]) + 1
Lies(tokens, ws, start) ==
  /\ NextTo(ws, start) /\ \A j \in 1 .. Len(ws) : Stands(tokens, ws[j], start[j])
  /\ start[Len(ws)] + Len(ws[Len(ws)]) = Len(tokens)

\* A chain of segments is such a command.
LEMMA StrungLies ==
  ASSUME NEW T, Operator \in T, NEW ws \in Seq(Seq(T)), ws # <<>>
  PROVE  Strung(ws) \in Seq(T) /\ \E start \in [1 .. Len(ws) -> Nat] : Lies(Strung(ws), ws, start)
<1> DEFINE n == Len(ws)
           seqs == [k \in DOMAIN ws |-> IF k = 1 THEN ws[k] ELSE <<Operator>> \o ws[k]]
<1>1. n \in Nat /\ n >= 1 /\ DOMAIN ws = 1 .. n /\ \A k \in 1 .. n : ws[k] \in Seq(T)
  OBVIOUS
<1>s. Strung(ws) = FlattenSeq(seqs)
  BY DEF Strung
<1>2. \A k \in 1 .. n : seqs[k] = IF k = 1 THEN ws[k] ELSE <<Operator>> \o ws[k]
  BY <1>1
<1>3. seqs \in Seq(Seq(T)) /\ Len(seqs) = n
  <2>1. <<Operator>> \in Seq(T)
    OBVIOUS
  <2>2. \A k \in 1 .. n : seqs[k] \in Seq(T)
    BY <1>1, <1>2, <2>1
  <2>3. seqs \in [1 .. n -> Seq(T)]
    <3>1. seqs = [k \in 1 .. n |-> seqs[k]]
      BY <1>1
    <3> HIDE DEF seqs, n
    <3> QED BY <2>2, <3>1
  <2>4. n \in Nat
    BY <1>1
  <2> HIDE DEF seqs, n
  <2> QED BY ONLY <2>3, <2>4
<1> HIDE DEF seqs
<1>4. PICK at \in [0 .. n -> Seq(T)] : Joins(at, seqs) /\ FlattenSeq(seqs) = at[n]
  BY <1>3, Flattens
<1>5. at[0] = <<>> /\ \A k \in 1 .. n : at[k] = at[k - 1] \o seqs[k]
  BY <1>3, <1>4 DEF Joins
<1> HIDE DEF n
<1>6. at[1] = ws[1]
  <2>1. 1 \in 1 .. n /\ 1 - 1 = 0
    BY <1>1
  <2>2. at[1] = at[0] \o seqs[1] /\ seqs[1] = ws[1] /\ ws[1] \in Seq(T)
    BY <1>1, <1>2, <1>5, <2>1
  <2> QED BY <1>5, <2>2, ConcatEmptySeq
<1> DEFINE start == [j \in 1 .. n |-> IF j = 1 THEN 0 ELSE Len(at[j - 1]) + 1]
<1>7. start \in [1 .. n -> Nat] /\ start[1] = 0 /\ \A j \in 1 .. n : j # 1 => start[j] = Len(at[j - 1]) + 1
  <2>1. \A j \in 1 .. n : j - 1 \in 0 .. n
    BY <1>1
  <2>2. \A j \in 1 .. n : Len(at[j - 1]) \in Nat
    BY <1>4, <2>1
  <2>3. 1 \in 1 .. n
    BY <1>1
  <2> QED BY <2>2, <2>3
<1> HIDE DEF start
<1>8. ASSUME NEW k \in 1 .. n
      PROVE  /\ Stands(at[k], ws[k], start[k]) /\ Len(at[k]) = start[k] + Len(ws[k])
             /\ k # 1 => Len(at[k - 1]) <= Len(at[k]) /\ \A i \in 1 .. Len(at[k - 1]) : at[k][i] = at[k - 1][i]
  <2>1. CASE k = 1
    <3>1. ws[1] \in Seq(T) /\ start[1] = 0 /\ at[1] = ws[1] /\ Len(ws[1]) \in Nat
      BY <1>1, <1>6, <1>7
    <3>2. \A i \in 1 .. Len(ws[1]) : 0 + i = i
      BY <3>1
    <3>3. 0 + Len(ws[1]) = Len(ws[1])
      BY <3>1
    <3> QED BY <2>1, <3>1, <3>2, <3>3 DEF Stands
  <2>2. CASE k # 1
    <3> DEFINE s == at[k - 1]
               t == at[k]
               w == ws[k]
    <3>1. k - 1 \in 0 .. n /\ s \in Seq(T) /\ w \in Seq(T) /\ start[k] = Len(s) + 1
      BY <1>1, <1>4, <1>7, <2>2
    <3>2. t = s \o (<<Operator>> \o w)
      BY <1>2, <1>5, <2>2
    <3>3. Len(s) \in Nat /\ Len(w) \in Nat
      BY <3>1
    <3> HIDE DEF s, t, w
    <3>o. SaidNext(T, s, w, t, start[k])
      BY <3>1, <3>2 DEF SaidNext
    <3>4. /\ Stands(t, w, start[k]) /\ Len(t) = Len(s) + 1 + Len(w)
          /\ \A i \in 1 .. Len(s) : t[i] = s[i]
      BY ONLY <3>o, StandsLast
    <3>5. Len(s) <= Len(t)
      BY ONLY <3>3, <3>4
    <3> QED BY <3>1, <3>4, <3>5 DEF s, t, w
  <2> QED BY <2>1, <2>2
<1> DEFINE S == {k \in 0 .. n : \A j \in 1 .. k : Stands(at[k], ws[j], start[j])}
<1>9. 0 \in S
  BY <1>1
<1>10. ASSUME NEW k \in 1 .. n, k - 1 \in S PROVE k \in S
  <2> SUFFICES ASSUME NEW j \in 1 .. k PROVE Stands(at[k], ws[j], start[j])
    BY <1>1
  <2>1. CASE j = k
    BY <1>8, <2>1
  <2>2. CASE j # k
    <3>1. j \in 1 .. k - 1 /\ j \in 1 .. n /\ k # 1 /\ k - 1 \in 0 .. n /\ k \in 0 .. n
      BY <1>1, <2>2
    <3>2. Stands(at[k - 1], ws[j], start[j])
      BY <1>10, <3>1
    <3>3. at[k - 1] \in Seq(T) /\ at[k] \in Seq(T) /\ ws[j] \in Seq(T) /\ start[j] \in Nat
      BY <1>1, <1>4, <1>7, <3>1
    <3>4. Len(at[k - 1]) <= Len(at[k]) /\ \A i \in 1 .. Len(at[k - 1]) : at[k][i] = at[k - 1][i]
      BY <1>8, <3>1
    <3> QED BY ONLY <3>2, <3>3, <3>4, StandsStill
  <2> QED BY <2>1, <2>2
<1>11. \A j \in 1 .. n : Stands(at[n], ws[j], start[j])
  <2> HIDE DEF S
  <2>1. \A k \in 0 .. n : k \in S
    BY <1>1, <1>9, <1>10, Upwards
  <2>2. n \in 0 .. n
    BY <1>1
  <2> QED BY <2>1, <2>2 DEF S
<1>12. NextTo(ws, start)
  <2>1. ASSUME NEW j \in 1 .. n, j < n PROVE start[j + 1] = start[j] + Len(ws[j]) + 1
    <3>1. j + 1 \in 1 .. n /\ j + 1 # 1 /\ j + 1 - 1 = j
      BY <1>1, <2>1
    <3>2. start[j + 1] = Len(at[j]) + 1
      <4> DEFINE m == j + 1
      <4>1. m \in 1 .. n /\ m # 1 /\ m - 1 = j
        BY <1>1, <2>1
      <4> HIDE DEF m
      <4>2. start[m] = Len(at[m - 1]) + 1
        BY <1>7, <4>1
      <4> QED BY <4>1, <4>2 DEF m
    <3> QED BY <1>8, <3>2
  <2> QED BY <1>7, <2>1 DEF NextTo, n
<1>13. start[n] + Len(ws[n]) = Len(at[n])
  <2>1. n \in 1 .. n
    BY <1>1
  <2> QED BY <1>8, <2>1
<1>14. Lies(at[n], ws, start)
  BY <1>11, <1>12, <1>13 DEF Lies, n
<1>15. at[n] \in Seq(T)
  <2>1. n \in 0 .. n
    BY <1>1
  <2> QED BY <1>4, <2>1
<1> QED BY <1>s, <1>4, <1>7, <1>14, <1>15 DEF n

\* A segment begins behind the end of every segment before it.
LEMMA Rises ==
  ASSUME NEW T, NEW ws \in Seq(Seq(T)), NEW start \in [1 .. Len(ws) -> Nat], NextTo(ws, start)
  PROVE  \A j \in 1 .. Len(ws), k \in 1 .. Len(ws) : j < k => start[j] + Len(ws[j]) < start[k]
<1> DEFINE n == Len(ws)
           S == {k \in 0 .. n : \A j \in 1 .. k : j < k => start[j] + Len(ws[j]) < start[k]}
<1>1. n \in Nat /\ \A k \in 1 .. n : start[k] \in Nat /\ Len(ws[k]) \in Nat
  <2>1. n \in Nat /\ \A k \in 1 .. n : ws[k] \in Seq(T)
    OBVIOUS
  <2>2. \A w \in Seq(T) : Len(w) \in Nat
    OBVIOUS
  <2> QED BY <2>1, <2>2
<1>2. \A j \in 1 .. n : j < n => start[j + 1] = start[j] + Len(ws[j]) + 1
  BY DEF NextTo
<1> HIDE DEF n
<1>3. 0 \in S
  BY <1>1
<1>4. ASSUME NEW k \in 1 .. n, k - 1 \in S PROVE k \in S
  <2> SUFFICES ASSUME NEW j \in 1 .. k, j < k PROVE start[j] + Len(ws[j]) < start[k]
    BY <1>1
  <2> DEFINE m == k - 1
  <2>1. m \in 1 .. n /\ m < n /\ m + 1 = k /\ j \in 1 .. m /\ (j = m \/ j < m)
    BY <1>1
  <2>2. m \in S
    BY <1>4
  <2>3. j < m => start[j] + Len(ws[j]) < start[m]
    BY <2>1, <2>2
  <2> HIDE DEF m, S
  <2>4. start[k] = start[m] + Len(ws[m]) + 1
    BY <1>2, <2>1
  <2>5. start[m] \in Nat /\ Len(ws[m]) \in Nat /\ start[j] \in Nat /\ Len(ws[j]) \in Nat
    BY <1>1, <2>1
  <2>6. start[m] < start[k] /\ start[m] + Len(ws[m]) < start[k]
    BY ONLY <2>4, <2>5
  <2>7. CASE j = m
    BY <2>6, <2>7
  <2>8. CASE j < m
    <3>1. start[j] + Len(ws[j]) < start[m]
      BY <2>3, <2>8
    <3>2. start[k] \in Nat /\ start[m] \in Nat /\ start[j] + Len(ws[j]) \in Nat /\ start[m] < start[k]
      <4>1. start[j] + Len(ws[j]) \in Nat
        BY ONLY <2>5
      <4>2. start[k] \in Nat
        BY <1>1
      <4> QED BY <2>5, <2>6, <4>1, <4>2
    <3> DEFINE x == start[j] + Len(ws[j])
    <3> HIDE DEF x
    <3>3. x < start[m] /\ x \in Nat
      BY <3>1, <3>2 DEF x
    <3>4. x < start[k]
      BY ONLY <3>2, <3>3
    <3> QED BY <3>4 DEF x
  <2> QED BY <2>1, <2>7, <2>8
<1>5. \A k \in 0 .. n : k \in S
  <2> HIDE DEF S
  <2> QED BY <1>1, <1>3, <1>4, Upwards
<1> QED BY <1>1, <1>5 DEF n

\* Words that no operator is among, at least one sequence of them.
OfWords(T, ws) == Operator \in T /\ ws \in Seq(Seq(T \ {Operator})) /\ ws # <<>>

\* Such words are words, none of which is an operator.
LEMMA ChainWords ==
  ASSUME NEW T, NEW ws, OfWords(T, ws)
  PROVE  /\ ws \in Seq(Seq(T)) /\ Operator \in T /\ Len(ws) \in Nat /\ Len(ws) >= 1 /\ DOMAIN ws = 1 .. Len(ws)
         /\ \A j \in 1 .. Len(ws) : /\ ws[j] \in Seq(T) /\ Len(ws[j]) \in Nat
                                    /\ \A i \in 1 .. Len(ws[j]) : ws[j][i] # Operator
<1>1. ws \in Seq(Seq(T \ {Operator})) /\ ws # <<>> /\ Operator \in T
  BY DEF OfWords
<1>2. Len(ws) \in Nat /\ Len(ws) >= 1 /\ DOMAIN ws = 1 .. Len(ws)
  BY <1>1
<1>3. \A j \in 1 .. Len(ws) : ws[j] \in Seq(T \ {Operator})
  BY <1>1
<1>4. \A w \in Seq(T \ {Operator}) : w \in Seq(T) /\ Len(w) \in Nat /\ \A i \in 1 .. Len(w) : w[i] # Operator
  OBVIOUS
<1>5. ws \in Seq(Seq(T))
  <2>1. Seq(T \ {Operator}) \subseteq Seq(T)
    BY <1>4
  <2> DEFINE A == Seq(T \ {Operator})
             B == Seq(T)
  <2>2. A \subseteq B /\ ws \in Seq(A)
    BY <1>1, <2>1
  <2> HIDE DEF A, B
  <2>3. ws \in Seq(B)
    BY <2>2, SeqMonotonic
  <2> QED BY <2>3 DEF B
<1> QED BY <1>1, <1>2, <1>3, <1>4, <1>5

\* The operators of a command are where its segments end.
LEMMA OperatorsAre ==
  ASSUME NEW T, NEW ws, OfWords(T, ws), NEW tokens \in Seq(T), NEW start \in [1 .. Len(ws) -> Nat], Lies(tokens, ws, start)
  PROVE  {i \in DOMAIN tokens : tokens[i] = Operator} = {start[j] : j \in 2 .. Len(ws)}
<1> DEFINE n == Len(ws)
           E(k) == start[k] + Len(ws[k])
           S == {k \in 0 .. n : k = 0 \/ \A i \in 1 .. E(k) : tokens[i] = Operator => \E j \in 2 .. k : i = start[j]}
<1>1. /\ n \in Nat /\ n >= 1
      /\ \A j \in 1 .. n : start[j] \in Nat /\ Len(ws[j]) \in Nat /\ \A i \in 1 .. Len(ws[j]) : ws[j][i] # Operator
  BY ChainWords
<1>2. /\ start[1] = 0 /\ (\A j \in 1 .. n : j < n => start[j + 1] = start[j] + Len(ws[j]) + 1)
      /\ E(n) = Len(tokens)
  BY DEF Lies, NextTo
<1>3. \A j \in 1 .. n : /\ E(j) <= Len(tokens) /\ (\A i \in 1 .. Len(ws[j]) : tokens[start[j] + i] = ws[j][i])
                        /\ start[j] > 0 => tokens[start[j]] = Operator
  BY DEF Lies, Stands
<1>4. DOMAIN tokens = 1 .. Len(tokens) /\ Len(tokens) \in Nat
  OBVIOUS
<1>r. \A j \in 1 .. n, k \in 1 .. n : j < k => E(j) < start[k]
  BY Rises, ChainWords DEF Lies
<1>d. \A k : E(k) = start[k] + Len(ws[k])
  OBVIOUS
<1> HIDE DEF n, E
<1>w. ASSUME NEW k \in 1 .. n, NEW i \in 1 .. E(k), i > start[k] PROVE tokens[i] # Operator
  <2> DEFINE x == i - start[k]
  <2>1. x \in 1 .. Len(ws[k]) /\ start[k] + x = i
    <3>1. start[k] \in Nat /\ Len(ws[k]) \in Nat /\ E(k) = start[k] + Len(ws[k]) /\ i \in 1 .. E(k) /\ i > start[k]
      BY <1>1, <1>d, <1>w
    <3> QED BY ONLY <3>1
  <2> HIDE DEF x
  <2>2. tokens[start[k] + x] = ws[k][x] /\ ws[k][x] # Operator
    BY <1>1, <1>3, <2>1
  <2> QED BY <2>1, <2>2
<1>5. 0 \in S
  BY <1>1
<1>6. ASSUME NEW k \in 1 .. n, k - 1 \in S PROVE k \in S
  <2> SUFFICES ASSUME NEW i \in 1 .. E(k), tokens[i] = Operator PROVE \E j \in 2 .. k : i = start[j]
    BY <1>1
  <2>1. start[k] \in Nat /\ E(k) \in Nat /\ i <= start[k]
    <3>1. start[k] \in Nat /\ Len(ws[k]) \in Nat /\ E(k) = start[k] + Len(ws[k]) /\ i \in 1 .. E(k)
      BY <1>1, <1>d
    <3>2. ~(i > start[k])
      BY <1>w
    <3> QED BY ONLY <3>1, <3>2
  <2>2. CASE k = 1
    BY <1>2, <2>1, <2>2
  <2>3. CASE k # 1 /\ i = start[k]
    <3>1. k \in 2 .. k
      BY <1>1, <2>3
    <3> QED BY <2>3, <3>1
  <2>4. CASE k # 1 /\ i # start[k]
    <3> DEFINE m == k - 1
    <3>1. m \in 1 .. n /\ m < n /\ m + 1 = k /\ m # 0 /\ \A j \in 2 .. m : j \in 2 .. k
      BY <1>1, <2>4
    <3>2. m \in S
      BY <1>6
    <3>3. \A y \in 1 .. E(m) : tokens[y] = Operator => \E j \in 2 .. m : y = start[j]
      BY <3>1, <3>2
    <3> HIDE DEF m, S
    <3>4. start[k] = E(m) + 1 /\ E(m) \in Nat
      <4>1. start[m + 1] = start[m] + Len(ws[m]) + 1 /\ m + 1 = k
        BY <1>2, <3>1
      <4>2. start[m] \in Nat /\ Len(ws[m]) \in Nat
        BY <1>1, <3>1
      <4>3. start[k] = start[m] + Len(ws[m]) + 1
        BY ONLY <4>1
      <4>4. E(m) = start[m] + Len(ws[m])
        BY <1>d
      <4> QED BY ONLY <4>2, <4>3, <4>4
    <3>5. i \in 1 .. E(m)
      <4>1. i \in Nat /\ i >= 1 /\ i <= start[k] /\ i # start[k]
        BY <2>1, <2>4
      <4> QED BY ONLY <3>4, <4>1
    <3>6. PICK j \in 2 .. m : i = start[j]
      BY <3>3, <3>5
    <3> QED BY <3>1, <3>6
  <2> QED BY <2>2, <2>3, <2>4
<1>7. \A i \in 1 .. Len(tokens) : tokens[i] = Operator => \E j \in 2 .. n : i = start[j]
  <2>1. \A k \in 0 .. n : k \in S
    <3> HIDE DEF S
    <3> QED BY <1>1, <1>5, <1>6, Upwards
  <2>2. n \in S /\ n # 0
    BY <1>1, <2>1
  <2> QED BY <1>2, <2>2
<1>8. ASSUME NEW j \in 2 .. n PROVE start[j] \in 1 .. Len(tokens) /\ tokens[start[j]] = Operator
  <2>1. j \in 1 .. n /\ 1 \in 1 .. n /\ 1 < j
    BY <1>1
  <2>2. E(1) < start[j] /\ E(1) \in Nat /\ start[j] \in Nat /\ E(j) <= Len(tokens) /\ Len(ws[j]) \in Nat
    <3>1. start[1] \in Nat /\ Len(ws[1]) \in Nat /\ start[j] \in Nat /\ Len(ws[j]) \in Nat
      BY <1>1, <2>1
    <3>2. E(1) = start[1] + Len(ws[1]) /\ E(1) < start[j] /\ E(j) <= Len(tokens)
      BY <1>3, <1>d, <1>r, <2>1
    <3> QED BY ONLY <3>1, <3>2
  <2>3. start[j] > 0 /\ start[j] <= Len(tokens)
    BY <1>4, <1>d, <2>2
  <2> QED BY <1>3, <1>4, <2>1, <2>2, <2>3
<1> QED BY <1>4, <1>7, <1>8 DEF n

\* hook.splitSegments: each segment is found at its start, and no other.
StrungOut(T, ws, tokens, start) ==
  OfWords(T, ws) /\ tokens \in Seq(T) /\ start \in [1 .. Len(ws) -> Nat] /\ Lies(tokens, ws, start)
Segmented(tokens, ws, start) ==
  /\ DOMAIN SplitSegments(tokens) = {start[j] : j \in 1 .. Len(ws)}
  /\ \A j \in 1 .. Len(ws) : SplitSegments(tokens)[start[j]] = ws[j]

\* splitSegments, of the segments of a chain.
LEMMA SegmentsAre ==
  ASSUME NEW T, NEW ws, NEW tokens, NEW start, StrungOut(T, ws, tokens, start)
  PROVE  Segmented(tokens, ws, start)
<1> DEFINE n == Len(ws)
           E(k) == start[k] + Len(ws[k])
           operators == {i \in DOMAIN tokens : tokens[i] = Operator}
           Ahead(i) == {j \in operators \cup {Len(tokens) + 1} : j > i}
           segs == SplitSegments(tokens)
<1>0. OfWords(T, ws) /\ tokens \in Seq(T) /\ start \in [1 .. Len(ws) -> Nat] /\ Lies(tokens, ws, start)
  BY DEF StrungOut
<1>1. /\ n \in Nat /\ n >= 1 /\ Len(tokens) \in Nat
      /\ \A j \in 1 .. n : start[j] \in Nat /\ Len(ws[j]) \in Nat /\ ws[j] \in Seq(T)
  <2>1. Len(tokens) \in Nat
    BY <1>0
  <2> QED BY <1>0, <2>1, ChainWords
<1>2. /\ start[1] = 0 /\ (\A j \in 1 .. n : j < n => start[j + 1] = start[j] + Len(ws[j]) + 1)
      /\ E(n) = Len(tokens)
  BY <1>0 DEF Lies, NextTo
<1>3. \A j \in 1 .. n : E(j) <= Len(tokens) /\ \A i \in 1 .. Len(ws[j]) : tokens[start[j] + i] = ws[j][i]
  BY <1>0 DEF Lies, Stands
<1>4. operators = {start[j] : j \in 2 .. n}
  BY <1>0, OperatorsAre
<1>r. \A j \in 1 .. n, k \in 1 .. n : j < k => E(j) < start[k]
  BY <1>0, Rises, ChainWords DEF Lies
<1>d. \A k : E(k) = start[k] + Len(ws[k])
  OBVIOUS
<1>5. segs = [i \in {0} \cup operators |-> SubSeq(tokens, i + 1, Min(Ahead(i)) - 1)]
  BY DEF SplitSegments
<1>a. \A i, y : y \in Ahead(i) <=> y > i /\ (y = Len(tokens) + 1 \/ y \in operators)
  OBVIOUS
<1> HIDE DEF n, E, operators, Ahead, segs
<1>6. {0} \cup operators = {start[j] : j \in 1 .. n}
  <2>1. \A j : j \in 1 .. n <=> j = 1 \/ j \in 2 .. n
    BY <1>1
  <2> QED BY <1>2, <1>4, <2>1
<1>7. ASSUME NEW j \in 1 .. n PROVE segs[start[j]] = ws[j]
  <2> DEFINE a == start[j]
             e == E(j) + 1
  <2>1. a \in Nat /\ E(j) \in Nat /\ e \in Nat /\ a < e /\ E(j) = a + Len(ws[j]) /\ E(j) <= Len(tokens)
    <3>1. start[j] \in Nat /\ Len(ws[j]) \in Nat /\ E(j) = start[j] + Len(ws[j]) /\ E(j) <= Len(tokens)
      BY <1>1, <1>3, <1>d
    <3> QED BY ONLY <3>1
  <2>2. e \in Ahead(a)
    <3>1. CASE j = n
      <4>1. e = Len(tokens) + 1
        BY <1>2, <3>1
      <4> QED BY <1>a, <2>1, <4>1
    <3>2. CASE j # n
      <4>1. j < n /\ j + 1 \in 2 .. n
        BY <1>1, <3>2
      <4>2. start[j + 1] = e
        BY <1>1, <1>2, <1>d, <4>1
      <4>3. e \in operators
        BY <1>4, <4>1, <4>2
      <4> QED BY <1>a, <2>1, <4>3
    <3> QED BY <3>1, <3>2
  <2>3. ASSUME NEW y \in Ahead(a) PROVE y \in Nat /\ e <= y
    <3>1. y > a /\ (y = Len(tokens) + 1 \/ y \in operators)
      BY <1>a
    <3>2. CASE y = Len(tokens) + 1
      BY <1>1, <2>1, <3>2
    <3>3. CASE y \in operators
      <4>1. PICK k \in 2 .. n : y = start[k]
        BY <1>4, <3>3
      <4>2. k \in 1 .. n /\ start[k] \in Nat
        BY <1>1
      <4>3. ~(k < j)
        <5> SUFFICES ASSUME k < j PROVE FALSE
          OBVIOUS
        <5>1. E(k) < a /\ E(k) = start[k] + Len(ws[k]) /\ Len(ws[k]) \in Nat
          BY <1>1, <1>d, <1>r, <4>2
        <5> QED BY <2>1, <3>1, <4>1, <4>2, <5>1
      <4>4. k # j
        BY <2>1, <3>1, <4>1
      <4>5. j < k
        BY <1>1, <4>2, <4>3, <4>4
      <4>6. E(j) < start[k]
        BY <1>r, <4>2, <4>5
      <4> QED BY <2>1, <4>1, <4>2, <4>6
    <3> QED BY <3>1, <3>2, <3>3
  <2> HIDE DEF a, e
  <2>4. Min(Ahead(a)) = e
    <3> DEFINE A == Ahead(a)
    <3>1. A \in SUBSET Nat /\ e \in A /\ \A y \in A : e <= y
      BY <2>2, <2>3
    <3> HIDE DEF A
    <3>2. Min(A) = e
      BY <3>1, LeastIs
    <3> QED BY <3>2 DEF A
  <2>5. a \in {0} \cup operators
    BY <1>6 DEF a
  <2>6. segs[a] = SubSeq(tokens, a + 1, e - 1)
    BY <1>5, <2>4, <2>5
  <2>7. e - 1 = a + Len(ws[j])
    BY <2>1 DEF e
  <2>8. SubSeq(tokens, a + 1, a + Len(ws[j])) = ws[j]
    <3>1. ws[j] \in Seq(T) /\ a + Len(ws[j]) <= Len(tokens) /\ \A i \in 1 .. Len(ws[j]) : tokens[a + i] = ws[j][i]
      BY <1>1, <1>3, <2>1 DEF a
    <3> QED BY <1>0, <2>1, <3>1, CutOut
  <2>9. segs[a] = ws[j]
    BY <2>6, <2>7, <2>8
  <2> QED BY <2>9 DEF a
<1>8. DOMAIN segs = {0} \cup operators
  BY <1>5
<1> QED BY <1>6, <1>7, <1>8 DEF n, segs, Segmented

\* A command of a chain: prefixes, a program that is none of them, and what it is
\* told. A git that is called has whole options and a plain verb behind them.
PhraseOk(T, p) ==
  /\ {p.before, p.program, p.options, p.verb, p.args} \subseteq Seq(T \ {Operator})
  /\ (\A j \in 1 .. Len(p.before) : BeforeProgram(p.before[j]))
  /\ Len(p.program) = 1 /\ ~BeforeProgram(p.program[1])
  /\ IF p.program[1] = Word("git")
     THEN OptionsOk(p.options) /\ Len(p.verb) = 1 /\ p.verb[1] \notin FlagWords(GitFlags) /\ PlainlyTold(p.args)
     ELSE ~IsGitWord(p.program[1])
Bare(p) == p.program \o p.options \o p.verb \o p.args
ThreeOf(S, s, t, u) == s \in Seq(S) /\ t \in Seq(S) /\ u \in Seq(S)

\* Three sequences joined, whichever way.
LEMMA Reassociates ==
  ASSUME NEW S, NEW s, NEW t, NEW u, ThreeOf(S, s, t, u)
  PROVE  (s \o t) \o u = s \o (t \o u)
BY ConcatAssociative DEF ThreeOf

\* What is left of such a command is its program and what that is told.
LEMMA WordsBare ==
  ASSUME NEW T, NEW p, PhraseOk(T, p)
  PROVE  /\ Words(p) \in Seq(T \ {Operator}) /\ Bare(p) \in Seq(T \ {Operator}) /\ StripPrefixWords(Words(p)) = Bare(p)
         /\ Len(Bare(p)) >= 1 /\ Bare(p)[1] = p.program[1]
<1> DEFINE C == T \ {Operator}
           b == p.before
           g == p.program
           o == p.options
           v == p.verb
           a == p.args
           go == g \o o
           gov == go \o v
           gova == gov \o a
<1>1. b \in Seq(C) /\ g \in Seq(C) /\ o \in Seq(C) /\ v \in Seq(C) /\ a \in Seq(C) /\ Len(g) = 1
  BY DEF PhraseOk
<1>2. (\A j \in 1 .. Len(b) : BeforeProgram(b[j])) /\ ~BeforeProgram(g[1])
  BY DEF PhraseOk
<1>3. Words(p) = ((b \o g) \o o) \o v \o a /\ Bare(p) = gova
  BY DEF Words, Bare
<1>4. go = g \o o /\ gov = go \o v /\ gova = gov \o a
  OBVIOUS
<1> HIDE DEF C, b, g, o, v, a, go, gov, gova
<1>5. go \in Seq(C) /\ Len(go) = Len(g) + Len(o) /\ \A i \in 1 .. Len(g) : go[i] = g[i]
  <2>1. g \in Seq(C) /\ o \in Seq(C) /\ go = g \o o
    BY <1>1, <1>4
  <2> QED BY ONLY <2>1, Joined
<1>6. gov \in Seq(C) /\ Len(gov) = Len(go) + Len(v) /\ \A i \in 1 .. Len(go) : gov[i] = go[i]
  <2>1. go \in Seq(C) /\ v \in Seq(C) /\ gov = go \o v
    BY <1>1, <1>4, <1>5
  <2> QED BY ONLY <2>1, Joined
<1>7. gova \in Seq(C) /\ Len(gova) = Len(gov) + Len(a) /\ \A i \in 1 .. Len(gov) : gova[i] = gov[i]
  <2>1. gov \in Seq(C) /\ a \in Seq(C) /\ gova = gov \o a
    BY <1>1, <1>4, <1>6
  <2> QED BY ONLY <2>1, Joined
<1>8. Len(o) \in Nat /\ Len(v) \in Nat /\ Len(a) \in Nat
  BY <1>1
<1>9. Len(gova) >= 1 /\ gova[1] = g[1]
  <2>1. Len(go) >= 1 /\ Len(go) \in Nat
    BY <1>1, <1>5, <1>8
  <2>2. Len(gov) >= 1 /\ Len(gov) \in Nat
    BY <1>6, <1>8, <2>1
  <2>3. Len(gova) >= 1
    BY <1>7, <1>8, <2>2
  <2>4. go[1] = g[1] /\ gov[1] = go[1] /\ gova[1] = gov[1]
    BY <1>1, <1>5, <1>6, <1>7, <2>1, <2>2
  <2> QED BY <2>3, <2>4
<1>10. Words(p) = b \o gova
  <2>1. (b \o g) \o o = b \o go
    <3>1. ThreeOf(C, b, g, o)
      BY <1>1 DEF ThreeOf
    <3>2. (b \o g) \o o = b \o (g \o o)
      BY ONLY <3>1, Reassociates
    <3> QED BY <1>4, <3>2
  <2>2. (b \o go) \o v = b \o gov
    <3>1. ThreeOf(C, b, go, v)
      BY <1>1, <1>5 DEF ThreeOf
    <3>2. (b \o go) \o v = b \o (go \o v)
      BY ONLY <3>1, Reassociates
    <3> QED BY <1>4, <3>2
  <2>3. (b \o gov) \o a = b \o gova
    <3>1. ThreeOf(C, b, gov, a)
      BY <1>1, <1>6 DEF ThreeOf
    <3>2. (b \o gov) \o a = b \o (gov \o a)
      BY ONLY <3>1, Reassociates
    <3> QED BY <1>4, <3>2
  <2> QED BY <1>3, <2>1, <2>2, <2>3
<1>11. StripPrefixWords(b \o gova) = gova
  <2>1. gova # <<>> /\ ~BeforeProgram(gova[1])
    BY <1>2, <1>9
  <2> QED BY <1>1, <1>2, <1>7, <2>1, StripsPrefix
<1>12. b \o gova \in Seq(C)
  BY <1>1, <1>7
<1> QED BY <1>3, <1>7, <1>9, <1>10, <1>11, <1>12 DEF C, g

\* A git that is called is one.
LEMMA BareCalls ==
  ASSUME NEW T, NEW p, PhraseOk(T, p), p.program[1] = Word("git")
  PROVE  CallsGit(Bare(p), p.options, p.verb[1], p.args)
<1> DEFINE C == T \ {Operator}
           g == p.program
           o == p.options
           v == p.verb
           a == p.args
           go == g \o o
           gov == go \o v
           gova == gov \o a
           n == Len(o)
<1>1. g \in Seq(C) /\ o \in Seq(C) /\ v \in Seq(C) /\ a \in Seq(C) /\ Len(g) = 1 /\ Len(v) = 1 /\ g[1] = Word("git")
  BY DEF PhraseOk
<1>2. Bare(p) = gova
  BY DEF Bare
<1>4. go = g \o o /\ gov = go \o v /\ gova = gov \o a
  OBVIOUS
<1> HIDE DEF C, g, o, v, a, go, gov, gova
<1>5. /\ go \in Seq(C) /\ Len(go) = Len(g) + Len(o)
      /\ (\A i \in 1 .. Len(g) : go[i] = g[i]) /\ \A j \in 1 .. Len(o) : go[Len(g) + j] = o[j]
  <2>1. g \in Seq(C) /\ o \in Seq(C) /\ go = g \o o
    BY <1>1, <1>4
  <2> QED BY ONLY <2>1, Joined
<1>6. /\ gov \in Seq(C) /\ Len(gov) = Len(go) + Len(v)
      /\ (\A i \in 1 .. Len(go) : gov[i] = go[i]) /\ \A j \in 1 .. Len(v) : gov[Len(go) + j] = v[j]
  <2>1. go \in Seq(C) /\ v \in Seq(C) /\ gov = go \o v
    BY <1>1, <1>4, <1>5
  <2> QED BY ONLY <2>1, Joined
<1>7. gova \in Seq(C) /\ Len(gova) = Len(gov) + Len(a) /\ \A i \in 1 .. Len(gov) : gova[i] = gov[i]
  <2>1. gov \in Seq(C) /\ a \in Seq(C) /\ gova = gov \o a
    BY <1>1, <1>4, <1>6
  <2> QED BY ONLY <2>1, Joined
<1>8. n \in Nat /\ Len(a) \in Nat /\ TextOf(gova)
  BY <1>1, <1>7 DEF TextOf, n
<1>9. Len(go) = n + 1 /\ Len(gov) = n + 2 /\ Len(gova) = n + 2 + Len(a)
  <2>1. Len(go) = 1 + n /\ Len(gov) = Len(go) + 1 /\ Len(gova) = Len(gov) + Len(a)
    BY <1>1, <1>5, <1>6, <1>7 DEF n
  <2> HIDE DEF n
  <2> QED BY ONLY <1>8, <2>1
<1>10. gova[1] = Word("git")
  <2>1. 1 \in 1 .. Len(go) /\ 1 \in 1 .. Len(gov) /\ 1 \in 1 .. Len(g)
    BY <1>1, <1>8, <1>9
  <2> QED BY <1>1, <1>5, <1>6, <1>7, <2>1
<1>11. \A j \in 1 .. n : gova[j + 1] = o[j]
  <2>1. \A j \in 1 .. n : j + 1 \in 1 .. Len(go) /\ j + 1 \in 1 .. Len(gov) /\ j + 1 = 1 + j
    BY <1>8, <1>9
  <2>2. \A j \in 1 .. n : go[1 + j] = o[j]
    BY <1>1, <1>5 DEF n
  <2>3. \A i \in 1 .. Len(go) : i \in 1 .. Len(gov) => gova[i] = go[i]
    BY <1>6, <1>7
  <2>4. \A j \in 1 .. n : gova[1 + j] = go[1 + j]
    <3> SUFFICES ASSUME NEW j \in 1 .. n PROVE gova[1 + j] = go[1 + j]
      OBVIOUS
    <3> DEFINE x == 1 + j
    <3>1. x \in 1 .. Len(go) /\ x \in 1 .. Len(gov)
      BY <2>1
    <3> HIDE DEF x
    <3>2. gova[x] = go[x]
      BY <2>3, <3>1
    <3> QED BY <3>2 DEF x
  <2> QED BY <2>1, <2>2, <2>4
<1>12. gova[n + 2] = v[1]
  <2> DEFINE x == n + 2
  <2>1. x \in 1 .. Len(gov) /\ Len(go) + 1 = x /\ 1 \in 1 .. Len(v)
    BY <1>1, <1>8, <1>9
  <2> HIDE DEF x
  <2>2. gova[x] = gov[x]
    BY <1>7, <2>1
  <2>3. gov[Len(go) + 1] = v[1]
    BY <1>6, <2>1
  <2>4. gova[x] = v[1]
    BY <2>1, <2>2, <2>3
  <2> QED BY <2>4 DEF x
<1>13. SubSeq(gova, n + 3, Len(gova)) = a
  <2>1. SubSeq(gov \o a, Len(gov) + 1, Len(gov \o a)) = a
    BY <1>1, <1>6, BehindFirst
  <2>2. Len(gov) + 1 = n + 3
    BY <1>8, <1>9
  <2> QED BY <1>4, <2>1, <2>2
<1> QED BY <1>2, <1>8, <1>9, <1>10, <1>11, <1>12, <1>13 DEF CallsGit, n, o, v, a

\* One thing said alone.
LEMMA OneWord ==
  ASSUME NEW C, NEW s \in Seq(C), Len(s) = 1, NEW x
  PROVE  s = <<x>> <=> s[1] = x
<1>1. s = <<s[1]>>
  OBVIOUS
<1>2. s = <<x>> => s[1] = x
  OBVIOUS
<1>3. ASSUME s[1] = x PROVE s = <<x>>
  BY <1>1, <1>3
<1> QED BY <1>2, <1>3

\* hook.parseCommand: which of them commits, what it is told, and where it runs.
LEMMA CommitRead ==
  ASSUME NEW T, NEW p, PhraseOk(T, p)
  PROVE  /\ CommitsIn(Bare(p)) <=> p.program = <<Word("git")>> /\ p.verb = <<Word("commit")>>
         /\ CommitsIn(Bare(p)) =>
              /\ Bare(p) # <<>> /\ IsGitWord(Bare(p)[1])
              /\ SubSeq(Bare(p), Subcommand(Bare(p)) + 1, Len(Bare(p))) = p.args /\ PlainlyTold(p.args)
              /\ OwnDirs(p.options) # {} =>
                   DirOf(Bare(p)) # "none" /\ DirOf(Bare(p)) = p.options[Max(OwnDirs(p.options))].word
<1> DEFINE seg == Bare(p)
           o == p.options
           n == Len(o)
           own == OwnDirs(o)
           git == Word("git")
           commit == Word("commit")
<1>1. seg \in Seq(T \ {Operator}) /\ Len(seg) >= 1 /\ seg[1] = p.program[1]
  BY WordsBare
<1>2. seg # <<>>
  <2> HIDE DEF seg
  <2> QED BY <1>1
<1>3. CommitsIn(seg) <=> IsGitWord(seg[1]) /\ Subcommand(seg) <= Len(seg) /\ seg[Subcommand(seg)] = commit
  BY <1>2 DEF CommitsIn
<1>4. IsGitWord(git)
  BY DEF IsGitWord, Word
<1>5. p.program \in Seq(T \ {Operator}) /\ p.verb \in Seq(T \ {Operator}) /\ Len(p.program) = 1
  BY DEF PhraseOk
<1>6. p.program = <<git>> <=> p.program[1] = git
  <2> HIDE DEF git
  <2> QED BY <1>5, OneWord
<1>7. CASE p.program[1] # git
  <2>1. ~IsGitWord(p.program[1])
    BY <1>7 DEF PhraseOk
  <2> QED BY <1>1, <1>3, <1>6, <1>7, <2>1
<1>8. CASE p.program[1] = git
  <2>1. OptionsOk(o) /\ Len(p.verb) = 1 /\ p.verb[1] \notin FlagWords(GitFlags) /\ PlainlyTold(p.args)
    BY <1>8 DEF PhraseOk
  <2>2. CallsGit(seg, o, p.verb[1], p.args)
    BY <1>8, BareCalls
  <2> HIDE DEF seg, o, git, commit
  <2>3. Subcommand(seg) = n + 2 /\ DirOf(seg) = IF own = {} THEN "none" ELSE o[Max(own)].word
    BY <2>1, <2>2, OptionsEnd
  <2>4. /\ n \in Nat /\ Len(p.args) \in Nat /\ Len(seg) = n + 2 + Len(p.args) /\ seg[n + 2] = p.verb[1]
        /\ SubSeq(seg, n + 3, Len(seg)) = p.args
    BY <2>1, <2>2 DEF CallsGit, OptionsOk, TextOf
  <2> HIDE DEF n, own
  <2>5. CommitsIn(seg) <=> p.verb[1] = commit
    <3>1. Subcommand(seg) <= Len(seg)
      <4>1. Subcommand(seg) = n + 2
        BY <2>3
      <4>2. n \in Nat /\ Len(p.args) \in Nat /\ Len(seg) = n + 2 + Len(p.args)
        BY <2>4
      <4> DEFINE x == Subcommand(seg)
                 y == Len(seg)
                 z == Len(p.args)
      <4>3. x = n + 2 /\ n \in Nat /\ z \in Nat /\ y = n + 2 + z
        BY <4>1, <4>2
      <4> HIDE DEF x, y, z
      <4>4. x <= y
        BY ONLY <4>3
      <4> QED BY <4>4 DEF x, y
    <3> QED BY <1>1, <1>3, <1>4, <1>8, <2>3, <2>4, <3>1
  <2>6. p.verb = <<commit>> <=> p.verb[1] = commit
    BY <1>5, <2>1, OneWord
  <2>7. SubSeq(seg, Subcommand(seg) + 1, Len(seg)) = p.args
    <3>1. (n + 2) + 1 = n + 3
      BY <2>4
    <3> QED BY <2>3, <2>4, <3>1
  <2>8. ASSUME own # {} PROVE o[Max(own)].word # "none"
    <3> DEFINE m == Max(own)
               read == Alone(o, GitValueFlags)
    <3>1. own = {j \in 1 .. n : j > 1 /\ o[j - 1] = Word("-C")}
      BY <2>1 DEF own, OwnDirs, OptionsOk, TextOf, n
    <3>2. m \in own
      <4>1. own \in SUBSET (1 .. n)
        BY <3>1
      <4> QED BY <2>4, <2>8, <4>1, MaxInside
    <3>3. \A j \in 1 .. n : IF j \in read THEN TRUE ELSE o[j] # Word("-C") /\ o[j].word # "none"
      BY <2>1 DEF OptionsOk, n
    <3>4. \A j \in 1 .. n : j \in read <=> ~(j - 1 \in read /\ o[j - 1] \in FlagWords(GitValueFlags))
      BY <2>1, AloneIs DEF OptionsOk, n
    <3>5. Word("-C") \in FlagWords(GitValueFlags)
      BY DEF FlagWords, GitValueFlags
    <3> HIDE DEF m, read
    <3>6. m \in 1 .. n /\ m - 1 \in 1 .. n /\ o[m - 1] = Word("-C")
      BY <2>4, <3>1, <3>2
    <3>7. m - 1 \in read
      BY <3>3, <3>6
    <3>8. m \notin read
      BY <3>4, <3>5, <3>6, <3>7
    <3> QED BY <3>3, <3>6, <3>8 DEF m
  <2> QED BY <1>1, <1>2, <1>4, <1>6, <1>8, <2>1, <2>3, <2>5, <2>6, <2>7, <2>8 DEF seg, o, own, git, commit
<1> QED BY <1>7, <1>8

\* Commands of such phrases.
ChainOk(T, phrases) ==
  Operator \in T /\ phrases # <<>> /\ TextOf(phrases) /\ \A k \in 1 .. Len(phrases) : PhraseOk(T, phrases[k])

\* What is left of each, at the place where it stands.
ChainLies(phrases, start) ==
  /\ \A j \in 1 .. Len(phrases), k \in 1 .. Len(phrases) : j < k => start[j] < start[k]
  /\ DOMAIN Chained(CommandOf(phrases)) = {start[j] : j \in 1 .. Len(phrases)}
  /\ \A j \in 1 .. Len(phrases) : Chained(CommandOf(phrases))[start[j]] = Bare(phrases[j])

\* Every segment of a chain is stripped where it stands.
LEMMA ChainIs ==
  ASSUME NEW T, NEW phrases, ChainOk(T, phrases)
  PROVE  \E start \in [1 .. Len(phrases) -> Nat] : ChainLies(phrases, start)
<1> DEFINE n == Len(phrases)
           C == T \ {Operator}
           ws == [k \in 1 .. n |-> Words(phrases[k])]
           tokens == CommandOf(phrases)
           segs == SplitSegments(tokens)
<1>1. /\ n \in Nat /\ DOMAIN phrases = 1 .. n /\ Operator \in T /\ phrases # <<>>
      /\ \A k \in 1 .. n : PhraseOk(T, phrases[k])
  BY DEF ChainOk, TextOf
<1>2. \A k \in 1 .. n : Words(phrases[k]) \in Seq(C) /\ StripPrefixWords(Words(phrases[k])) = Bare(phrases[k])
  BY <1>1, WordsBare
<1>3. ws \in Seq(Seq(C)) /\ Len(ws) = n /\ DOMAIN ws = 1 .. n /\ \A k \in 1 .. n : ws[k] = Words(phrases[k])
  <2>1. ws \in [1 .. n -> Seq(C)]
    <3> HIDE DEF n, C
    <3> QED BY <1>2
  <2>2. n \in Nat /\ \A k \in 1 .. n : ws[k] = Words(phrases[k])
    BY <1>1
  <2>3. DOMAIN ws = 1 .. n
    OBVIOUS
  <2> HIDE DEF ws, C, n
  <2>4. ws \in Seq(Seq(C)) /\ Len(ws) = n
    BY ONLY <2>1, <2>2, <2>3
  <2> QED BY <2>2, <2>3, <2>4
<1>4. tokens = Strung(ws)
  <2>1. [k \in DOMAIN phrases |-> IF k = 1 THEN Words(phrases[k]) ELSE <<Operator>> \o Words(phrases[k])]
          = [k \in DOMAIN ws |-> IF k = 1 THEN ws[k] ELSE <<Operator>> \o ws[k]]
    <3> HIDE DEF ws, n
    <3> QED BY <1>1, <1>3
  <2> QED BY <2>1 DEF CommandOf, Strung
<1>5. ws # <<>>
  <2>1. n # 0
    <3> HIDE DEF n
    <3>1. n = 0 => DOMAIN phrases = {}
      BY <1>1
    <3> QED BY <1>1, <3>1 DEF ChainOk, TextOf, n
  <2> HIDE DEF ws, n
  <2> QED BY <1>3, <2>1
<1> HIDE DEF n, ws, tokens, C
<1>6. OfWords(T, ws)
  BY <1>1, <1>3, <1>5 DEF OfWords, C
<1>7. PICK start \in [1 .. Len(ws) -> Nat] : Lies(tokens, ws, start)
  BY <1>4, <1>6, StrungLies, ChainWords, <1>5
<1>8. tokens \in Seq(T)
  BY <1>4, <1>6, StrungLies, ChainWords, <1>5
<1>9. DOMAIN segs = {start[j] : j \in 1 .. n} /\ \A j \in 1 .. n : segs[start[j]] = ws[j]
  <2>1. StrungOut(T, ws, tokens, start)
    BY <1>6, <1>7, <1>8 DEF StrungOut
  <2>2. /\ DOMAIN SplitSegments(tokens) = {start[j] : j \in 1 .. Len(ws)}
        /\ \A j \in 1 .. Len(ws) : SplitSegments(tokens)[start[j]] = ws[j]
    <3>1. Segmented(tokens, ws, start)
      BY ONLY <2>1, SegmentsAre
    <3> QED BY ONLY <3>1 DEF Segmented
  <2> QED BY <1>3, <2>2
<1>10. Chained(tokens) = [k \in DOMAIN segs |-> StripPrefixWords(segs[k])]
  BY DEF Chained
<1> HIDE DEF segs
<1>11. /\ DOMAIN Chained(tokens) = {start[j] : j \in 1 .. n}
       /\ \A j \in 1 .. n : Chained(tokens)[start[j]] = Bare(phrases[j])
  <2>1. \A j \in 1 .. n : start[j] \in DOMAIN segs
    BY <1>9
  <2>2. DOMAIN Chained(tokens) = DOMAIN segs /\ \A k \in DOMAIN segs : Chained(tokens)[k] = StripPrefixWords(segs[k])
    BY <1>10
  <2>3. \A j \in 1 .. n : Chained(tokens)[start[j]] = StripPrefixWords(ws[j])
    BY <1>9, <2>1, <2>2
  <2>4. \A j \in 1 .. n : Chained(tokens)[start[j]] = Bare(phrases[j])
    BY <1>2, <1>3, <2>3
  <2> QED BY <1>9, <2>2, <2>4
<1>12. \A j \in 1 .. n, k \in 1 .. n : j < k => start[j] < start[k]
  <2>1. \A j \in 1 .. n, k \in 1 .. n : j < k => start[j] + Len(ws[j]) < start[k]
    BY <1>3, <1>6, <1>7, Rises, ChainWords DEF Lies
  <2>2. \A j \in 1 .. n : start[j] \in Nat /\ Len(ws[j]) \in Nat
    BY <1>3, <1>6, ChainWords
  <2> QED BY <2>1, <2>2
<1>13. start \in [1 .. n -> Nat]
  BY <1>3
<1> QED BY <1>11, <1>12, <1>13 DEF n, tokens, ChainLies

\* The least of some places is one of them.
LEMMA LeastInside ==
  ASSUME NEW n \in Nat, NEW s \in SUBSET (1 .. n), s # {}
  PROVE  Min(s) \in s /\ \A y \in s : Min(s) <= y
<1>0. s \subseteq Nat /\ s # {}
  OBVIOUS
<1>1. PICK x \in s : \A y \in s : <<y, x>> \notin OpToRel(<, Nat)
  BY <1>0, NatLessThanWellFounded, WFMin
<1>2. \A y \in s : x <= y
  <2> SUFFICES ASSUME NEW y \in s, ~(x <= y) PROVE FALSE
    OBVIOUS
  <2>1. y < x /\ y \in Nat /\ x \in Nat
    BY <1>0
  <2> QED BY <1>1, <2>1 DEF OpToRel
<1> QED BY <1>2 DEF Min

\* The greatest of some numbers.
LEMMA GreatestIs ==
  ASSUME NEW S \in SUBSET Nat, NEW x \in S, \A y \in S : y <= x
  PROVE  Max(S) = x
<1>1. \A z \in S : (\A y \in S : z >= y) => z = x
  OBVIOUS
<1>2. \A y \in S : x >= y
  OBVIOUS
<1> QED BY <1>1, <1>2 DEF Max

\* hook.parseCommand: of any chain of commands, with any of git's options and any
\* prefixes, the first commit is seen, with what it is told and where it runs.
THEOREM CommitsAreSeen ==
  ASSUME NEW T, NEW phrases, ChainOk(T, phrases)
  PROVE  CommitIsSeen(phrases, ParseCommand(CommandOf(phrases)))
<1> DEFINE n == Len(phrases)
           tokens == CommandOf(phrases)
           parsed == ParseCommand(tokens)
           segs == Chained(tokens)
           commits == {k \in DOMAIN segs : CommitsIn(segs[k])}
           upTo == {k \in DOMAIN segs : commits = {} \/ k <= Min(commits)}
           dirs == {k \in upTo : segs[k] # <<>> /\ IsGitWord(segs[k][1]) /\ DirOf(segs[k]) # "none"}
           cds == {k \in upTo : Len(segs[k]) >= 2 /\ segs[k][1].word = "cd"}
           seg == segs[Min(commits)]
           args == IF commits = {} THEN Arguments(<<>>) ELSE Arguments(SubSeq(seg, Subcommand(seg) + 1, Len(seg)))
           C == {k \in DOMAIN phrases : phrases[k].program = <<Word("git")>> /\ phrases[k].verb = <<Word("commit")>>}
           m == Min(C)
           p == phrases[m]
<1>1. n \in Nat /\ DOMAIN phrases = 1 .. n /\ \A k \in 1 .. n : PhraseOk(T, phrases[k])
  BY DEF ChainOk, TextOf
<1>2. PICK start \in [1 .. n -> Nat] : ChainLies(phrases, start)
  BY ChainIs
<1>3. /\ \A j \in 1 .. n, k \in 1 .. n : j < k => start[j] < start[k]
      /\ DOMAIN segs = {start[j] : j \in 1 .. n} /\ \A j \in 1 .. n : segs[start[j]] = Bare(phrases[j])
  BY <1>2 DEF ChainLies
<1>4. \A j \in 1 .. n : CommitsIn(Bare(phrases[j])) <=> j \in C
  <2>1. \A j \in 1 .. n : CommitsIn(Bare(phrases[j]))
                            <=> phrases[j].program = <<Word("git")>> /\ phrases[j].verb = <<Word("commit")>>
    BY <1>1, CommitRead
  <2> QED BY <1>1, <2>1
<1>5. parsed = [isCommit |-> commits # {}, noVerify |-> args.noVerify, messages |-> args.messages, file |-> args.file,
                dir |-> IF dirs # {} THEN DirOf(segs[Max(dirs)]) ELSE IF cds = {} THEN "none" ELSE segs[Min(cds)][2].word]
  BY DEF ParseCommand
<1>6. /\ parsed.isCommit <=> commits # {}
      /\ parsed.noVerify = args.noVerify /\ parsed.messages = args.messages
      /\ dirs # {} => parsed.dir = DirOf(segs[Max(dirs)])
  <2> HIDE DEF commits, args, dirs, cds, segs, parsed
  <2> QED BY <1>5
<1>c. \A k : k \in commits <=> k \in DOMAIN segs /\ CommitsIn(segs[k])
  OBVIOUS
<1>s. C \subseteq 1 .. n
  BY <1>1
<1>a. commits # {} => args = Arguments(SubSeq(seg, Subcommand(seg) + 1, Len(seg)))
  OBVIOUS
<1>u. \A k : k \in dirs <=> /\ k \in DOMAIN segs /\ (commits = {} \/ k <= Min(commits))
                            /\ segs[k] # <<>> /\ IsGitWord(segs[k][1]) /\ DirOf(segs[k]) # "none"
  OBVIOUS
<1>g. seg = segs[Min(commits)] /\ m = Min(C) /\ p = phrases[m]
  OBVIOUS
<1> HIDE DEF segs, commits, upTo, dirs, cds, args, parsed, C, n, seg, m, p
<1>7. \A j \in 1 .. n : start[j] \in commits <=> j \in C
  <2>1. \A j \in 1 .. n : start[j] \in DOMAIN segs
    BY <1>3
  <2> QED BY <1>3, <1>4, <1>c, <2>1
<1>8. commits = {start[j] : j \in C}
  <2>1. \A k \in commits : \E j \in C : k = start[j]
    BY <1>3, <1>7, <1>c
  <2> QED BY <1>7, <1>s, <2>1
<1>9. parsed.isCommit <=> C # {}
  BY <1>6, <1>8
<1>10. ASSUME C # {}
       PROVE  /\ parsed.messages = {p.args[j + 1].word : j \in {j \in DOMAIN p.args : Valued(p.args, j)}}
              /\ parsed.noVerify <=> \E j \in DOMAIN p.args : p.args[j] = Word("-n") /\ (j = 1 \/ ~Valued(p.args, j - 1))
              /\ OwnDirs(p.options) # {} => parsed.dir = p.options[Max(OwnDirs(p.options))].word
  <2>1. m \in C /\ m \in 1 .. n /\ \A j \in C : m <= j
    <3>1. Min(C) \in C /\ \A y \in C : Min(C) <= y
      BY <1>1, <1>s, <1>10, LeastInside
    <3> QED BY <1>g, <1>s, <3>1
  <2>2. Min(commits) = start[m]
    <3>1. commits \in SUBSET Nat
      BY <1>s, <1>8
    <3>2. start[m] \in commits
      BY <1>8, <2>1
    <3>3. ASSUME NEW y \in commits PROVE start[m] <= y
      <4>1. PICK j \in C : y = start[j]
        BY <1>8
      <4>2. j \in 1 .. n /\ (j = m \/ m < j)
        BY <1>1, <1>s, <2>1
      <4>3. start[m] \in Nat /\ start[j] \in Nat
        BY <2>1, <4>2
      <4> QED BY <1>3, <2>1, <4>1, <4>2, <4>3
    <3> QED BY <3>1, <3>2, <3>3, LeastIs
  <2>3. seg = Bare(p) /\ segs[start[m]] = Bare(p)
    BY <1>3, <1>g, <2>1, <2>2
  <2>4. PhraseOk(T, p) /\ CommitsIn(Bare(p))
    BY <1>1, <1>4, <1>g, <2>1
  <2>5. /\ Bare(p) # <<>> /\ IsGitWord(Bare(p)[1])
        /\ SubSeq(Bare(p), Subcommand(Bare(p)) + 1, Len(Bare(p))) = p.args /\ PlainlyTold(p.args)
        /\ OwnDirs(p.options) # {} =>
             DirOf(Bare(p)) # "none" /\ DirOf(Bare(p)) = p.options[Max(OwnDirs(p.options))].word
    BY <2>4, CommitRead
  <2>6. args = Arguments(p.args)
    BY <1>8, <1>10, <1>a, <2>3, <2>5
  <2>7. ASSUME OwnDirs(p.options) # {} PROVE parsed.dir = p.options[Max(OwnDirs(p.options))].word
    <3>1. start[m] \in DOMAIN segs /\ start[m] \in Nat
      BY <1>3, <2>1
    <3>2. start[m] \in dirs
      BY <1>u, <2>2, <2>3, <2>5, <2>7, <3>1
    <3>3. \A y \in dirs : y \in Nat /\ y <= start[m]
      <4>1. \A y \in dirs : y \in DOMAIN segs /\ (commits = {} \/ y <= start[m])
        BY <1>u, <2>2
      <4>2. commits # {}
        BY <1>8, <1>10
      <4>3. DOMAIN segs \subseteq Nat
        BY <1>3
      <4> QED BY <4>1, <4>2, <4>3
    <3>4. Max(dirs) = start[m]
      <4>1. dirs \in SUBSET Nat
        BY <3>3
      <4> QED BY <3>2, <3>3, <4>1, GreatestIs
    <3> QED BY <1>6, <2>3, <2>5, <2>7, <3>2, <3>4
  <2>8. /\ Arguments(p.args).messages = {p.args[j + 1].word : j \in {j \in DOMAIN p.args : Valued(p.args, j)}}
        /\ Arguments(p.args).noVerify
             <=> \E j \in DOMAIN p.args : p.args[j] = Word("-n") /\ (j = 1 \/ ~Valued(p.args, j - 1))
    BY <2>5, ArgumentsAre
  <2> QED BY <1>6, <2>6, <2>7, <2>8
<1> QED BY <1>9, <1>10 DEF CommitIsSeen, Valued, OwnDirs, C, m, p, parsed, tokens
=============================================================================
