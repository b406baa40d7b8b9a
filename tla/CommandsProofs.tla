--------------------------- MODULE CommandsProofs ---------------------------
(***************************************************************************)
(* What is proved of the sides of a launch: the commands of a chain, what  *)
(* a launch leaves in its checkout, the read-only policy and the ingest of *)
(* history.                                                                *)
(***************************************************************************)
EXTENDS MCCommands, Integers, NumberLemmas, FiniteSetTheorems, SequenceTheorems, TLAPS

----------------------------------------------------------------------------
(***************************************************************************)
(* What is proved of the commands of a chain (LaunchCommands).             *)
(*                                                                         *)
(* A command is built of items, each a flag with the words its agent takes *)
(* with it, and has one of four forms: at most a prompt behind the items,  *)
(* or codex's verb and a chat in front of them, and either with a shell    *)
(* control at the end.  Each scan of an adapter drops whole items, by the  *)
(* settings the agent reads in them, and goes on behind them; so what the  *)
(* agent reads in a derived command follows from what it read in the       *)
(* recorded one.  The invariant of a chain says what the adapter keeps of  *)
(* the recorded command.                                                   *)
(***************************************************************************)

----------------------------------------------------------------------------
(* One pass over a command: what it makes of two commands one after the     *)
(* other is what it makes of each, if no item reaches across.               *)

LEMMA LeastOfTwo ==
  ASSUME NEW a \in Int, NEW b \in Int
  PROVE  Min({a, b}) = IF a <= b THEN a ELSE b
BY DEF Min

StepLands(m, n, i, d) ==
    /\ Min({i + d - 1, n}) \in i..n /\ Min({i + d, n + 1}) \in (i + 1)..(n + 1)
    /\ Min({m + i + d - 1, m + n}) = m + Min({i + d - 1, n})
    /\ Min({m + i + d, m + n + 1}) = m + Min({i + d, n + 1})

LEMMA LeastOfSteps ==
  ASSUME NEW m \in Nat, NEW n \in Nat, NEW i \in 1..n, NEW d \in Nat \ {0}
  PROVE  StepLands(m, n, i, d)
<1>1. Min({i + d - 1, n}) = IF i + d - 1 <= n THEN i + d - 1 ELSE n
  BY LeastOfTwo
<1>2. Min({i + d, n + 1}) = IF i + d <= n + 1 THEN i + d ELSE n + 1
  BY LeastOfTwo
<1>3. Min({m + i + d - 1, m + n}) = IF m + i + d - 1 <= m + n THEN m + i + d - 1 ELSE m + n
  BY LeastOfTwo
<1>4. Min({m + i + d, m + n + 1}) = IF m + i + d <= m + n + 1 THEN m + i + d ELSE m + n + 1
  BY LeastOfTwo
<1> QED  BY <1>1, <1>2, <1>3, <1>4 DEF StepLands

Passes(f, S, cmd, span, keeps) ==
    /\ f \in [1..(Len(cmd) + 1) -> Seq(S)]
    /\ f[Len(cmd) + 1] = <<>> /\ Filtered(cmd, span, keeps) = f[1]
    /\ \A i \in 1..Len(cmd) :
         f[i] = (IF i \in keeps THEN SubSeq(cmd, i, Min({i + span[i] - 1, Len(cmd)})) ELSE <<>>)
                \o f[Min({i + span[i], Len(cmd) + 1})]

\* The pass is what its steps say.
LEMMA FilteredIs ==
  ASSUME NEW S, NEW cmd \in Seq(S), NEW span \in [DOMAIN cmd -> Nat \ {0}], NEW keeps
  PROVE  \E f : Passes(f, S, cmd, span, keeps)
<1> DEFINE N == Len(cmd)
           Item(i) == IF i \in keeps THEN SubSeq(cmd, i, Min({i + span[i] - 1, N})) ELSE <<>>
           next(i) == Min({i + span[i], N + 1})
           Body(f, i) == IF i > N THEN <<>> ELSE Item(i) \o f[next(i)]
           Good(f, k) == /\ f \in [(N + 1 - k)..(N + 1) -> Seq(S)]
                         /\ \A i \in (N + 1 - k)..(N + 1) : f[i] = Body(f, i)
           K == {k \in Nat : k <= N => \E f : Good(f, k)}
<1>0. DOMAIN cmd = 1..N /\ N = Len(cmd)
  OBVIOUS
<1>1. N \in Nat
  OBVIOUS
<1> HIDE DEF N
<1>2. \A i \in 1..N : next(i) \in (i + 1)..(N + 1) /\ Min({i + span[i] - 1, N}) \in i..N
  <2> TAKE i \in 1..N
  <2>1. span[i] \in Nat \ {0}
    BY <1>0
  <2>2. i + span[i] \in Int /\ i + span[i] - 1 \in Int /\ N \in Int /\ N + 1 \in Int
    BY <1>1, <2>1
  <2>3. next(i) = IF i + span[i] <= N + 1 THEN i + span[i] ELSE N + 1
    BY <2>2, LeastOfTwo
  <2>4. Min({i + span[i] - 1, N}) = IF i + span[i] - 1 <= N THEN i + span[i] - 1 ELSE N
    BY <2>2, LeastOfTwo
  <2> QED  BY <1>1, <2>1, <2>3, <2>4
<1>3. \A i \in 1..N : Item(i) \in Seq(S)
  <2> TAKE i \in 1..N
  <2>1. PICK m : m = Min({i + span[i] - 1, N}) /\ m \in i..N
    BY <1>2
  <2>2. \A j \in i..m : cmd[j] \in S
    BY <1>0, <1>1, <2>1
  <2>6. i \in Int /\ m \in Int
    BY <1>1, <2>1
  <2>3. SubSeq(cmd, i, m) \in Seq(S)
    BY <2>2, <2>6, SubSeqProperties, Zenon
  <2>4. <<>> \in Seq(S)
    OBVIOUS
  <2> HIDE DEF Item
  <2>5. Item(i) = IF i \in keeps THEN SubSeq(cmd, i, m) ELSE <<>>
    BY <2>1 DEF Item
  <2> QED  BY <2>3, <2>4, <2>5, Zenon
<1> HIDE DEF Item, next
<1>4. 0 \in K
  <2> DEFINE f == [i \in (N + 1)..(N + 1) |-> <<>>]
  <2>0. <<>> \in Seq(S) /\ N + 1 - 0 = N + 1 /\ \A i \in (N + 1)..(N + 1) : i = N + 1 /\ i > N
    BY <1>1
  <2>1. Good(f, 0)
    BY <2>0
  <2> QED  BY <2>1
<1> HIDE DEF K
<1>5. ASSUME NEW k \in Nat, k \in K PROVE k + 1 \in K
  <2> SUFFICES ASSUME k + 1 <= N PROVE \E f : Good(f, k + 1)
    BY <1>5 DEF K
  <2> DEFINE a == N - k
  <2>2. k <= N /\ a \in 1..N /\ N + 1 - k = a + 1 /\ N + 1 - (k + 1) = a
    BY <1>1, <1>5
  <2>1. PICK f : Good(f, k)
    BY <1>5, <2>2 DEF K
  <2> DEFINE g == [i \in a..(N + 1) |-> IF i = a THEN Item(a) \o f[next(a)] ELSE f[i]]
  <2> HIDE DEF a
  <2>3. next(a) \in (a + 1)..(N + 1)
    BY <1>2, <2>2
  <2>4. f \in [(a + 1)..(N + 1) -> Seq(S)] /\ \A i \in (a + 1)..(N + 1) : f[i] = Body(f, i)
    BY <2>1, <2>2
  <2> HIDE DEF Good
  <2>5. g[a] = Body(g, a) /\ g[a] \in Seq(S)
    <3>1. /\ a \in a..(N + 1) /\ ~(a > N)
          /\ next(a) \in a..(N + 1) /\ next(a) # a
      BY <1>1, <2>2, <2>3
    <3>2. g[next(a)] = f[next(a)] /\ g[a] = Item(a) \o f[next(a)]
      BY <3>1
    <3>3. f[next(a)] \in Seq(S) /\ Item(a) \in Seq(S)
      BY <1>3, <2>2, <2>3, <2>4
    <3> HIDE DEF g
    <3>4. g[a] \in Seq(S)
      BY <3>2, <3>3, ConcatProperties
    <3> QED  BY <3>1, <3>2, <3>4
  <2>6. ASSUME NEW i \in (a + 1)..(N + 1) PROVE g[i] = Body(g, i) /\ g[i] \in Seq(S)
    <3>0. i \in a..(N + 1) /\ i # a /\ i \in (a + 1)..(N + 1)
      BY <1>1, <2>2, <2>6
    <3>1. g[i] = f[i] /\ f[i] \in Seq(S) /\ f[i] = Body(f, i)
      BY <3>0, <2>4
    <3>2. CASE i > N
      BY <3>1, <3>2
    <3>3. CASE ~(i > N)
      <4>1. i \in 1..N
        BY <1>1, <2>2, <3>3, <3>0
      <4>2. next(i) \in (i + 1)..(N + 1)
        BY <1>2, <4>1
      <4>3. next(i) # a /\ next(i) \in a..(N + 1)
        BY <1>1, <2>2, <3>0, <4>1, <4>2
      <4>4. g[next(i)] = f[next(i)]
        BY <4>3
      <4> QED  BY <3>1, <3>3, <4>4
    <3> QED  BY <3>2, <3>3
  <2>7. Good(g, k + 1)
    <3>1. \A i \in a..(N + 1) : i = a \/ i \in (a + 1)..(N + 1)
      BY <1>1, <2>2
    <3>2. \A i \in a..(N + 1) : g[i] = Body(g, i) /\ g[i] \in Seq(S)
      BY <2>5, <2>6, <3>1
    <3>3. g \in [a..(N + 1) -> Seq(S)]
      BY <3>2
    <3> HIDE DEF g
    <3> QED  BY <2>2, <3>2, <3>3 DEF Good
  <2> QED  BY <2>7
<1>6. \A k \in Nat : k \in K
  BY <1>4, <1>5, SetInduction
<1>7. \E f : Good(f, N)
  <2>1. N \in K /\ N <= N
    BY <1>1, <1>6
  <2> QED  BY <2>1, Zenon DEF K
<1> DEFINE h == CHOOSE f2 : f2 = [i \in 1..(N + 1) |-> Body(f2, i)]
<1>8. N + 1 - N = 1
  BY <1>1
<1>9. \E f : f = [i \in 1..(N + 1) |-> Body(f, i)]
  BY <1>7, <1>8
<1>10. h = [i \in 1..(N + 1) |-> Body(h, i)]
  BY <1>9
<1>11. Filtered(cmd, span, keeps) = h[1]
  BY DEF Filtered, Item, next, N
<1> HIDE DEF h
<1>12. h[N + 1] = <<>> /\ \A i \in 1..N : h[i] = Item(i) \o h[next(i)]
  <2>1. \A i \in 1..(N + 1) : h[i] = Body(h, i)
    BY <1>10
  <2>2. N + 1 \in 1..(N + 1) /\ N + 1 > N /\ \A i \in 1..N : i \in 1..(N + 1) /\ ~(i > N)
    BY <1>1
  <2> QED  BY <2>1, <2>2, Zenon
<1>13. h \in [1..(N + 1) -> Seq(S)]
  <2> DEFINE J == {k \in Nat : \A i \in 1..(N + 1) : N + 1 - k <= i => h[i] \in Seq(S)}
  <2>1. 0 \in J
    <3>1. <<>> \in Seq(S) /\ N + 1 - 0 = N + 1
      BY <1>1
    <3>2. \A i \in 1..(N + 1) : N + 1 <= i => i = N + 1
      BY <1>1
    <3>3. \A i \in 1..(N + 1) : N + 1 <= i => h[i] \in Seq(S)
      BY <1>12, <3>1, <3>2, Zenon
    <3> QED  BY <3>1, <3>3
  <2>2. ASSUME NEW k \in Nat, k \in J PROVE k + 1 \in J
    <3> SUFFICES ASSUME NEW i \in 1..(N + 1), N + 1 - (k + 1) <= i PROVE h[i] \in Seq(S)
      OBVIOUS
    <3>1. CASE i = N + 1
      <4>1. <<>> \in Seq(S)
        OBVIOUS
      <4> QED  BY <1>12, <3>1, <4>1, Zenon
    <3>2. CASE i \in 1..N
      <4>0. next(i) \in (i + 1)..(N + 1) /\ k \in Nat
        BY <1>2, <2>2, <3>2
      <4>1. next(i) \in 1..(N + 1) /\ N + 1 - k <= next(i)
        BY <1>1, <3>2, <4>0
      <4>2. h[next(i)] \in Seq(S)
        BY <2>2, <4>1
      <4> QED  BY <1>3, <1>12, <3>2, <4>2, ConcatProperties
    <3> QED  BY <1>1, <3>1, <3>2
  <2>3. N \in J
    <3> HIDE DEF J
    <3> QED  BY <1>1, <2>1, <2>2, SetInduction
  <2>4. \A i \in 1..(N + 1) : h[i] \in Seq(S)
    BY <1>8, <2>3
  <2> QED  BY <1>10, <2>4
<1> QED  BY <1>11, <1>12, <1>13, Zenon DEF Item, next, N, Passes

LEMMA SameSlice ==
  ASSUME NEW S, NEW s, NEW t, NEW a \in Int, NEW b \in Int, NEW d \in Int,
         \A i \in a..b : s[d + i] = t[i] /\ t[i] \in S
  PROVE  SubSeq(s, d + a, d + b) = SubSeq(t, a, b)
<1> DEFINE p == SubSeq(s, d + a, d + b)
           q == SubSeq(t, a, b)
<1>1. /\ q \in Seq(S) /\ Len(q) = (IF a <= b THEN b - a + 1 ELSE 0)
      /\ \A i \in 1..(b - a + 1) : q[i] = t[a + i - 1]
  BY SubSeqProperties
<1>2. /\ p \in Seq(S) /\ Len(p) = (IF a <= b THEN b - a + 1 ELSE 0)
      /\ \A i \in 1..(b - a + 1) : p[i] = s[d + (a + i - 1)]
  <2> DEFINE A == d + a
             B == d + b
  <2>1. A \in Int /\ B \in Int /\ (A <= B <=> a <= b) /\ B - A + 1 = b - a + 1
    OBVIOUS
  <2>2. \A i \in A..B : s[i] \in S
    <3> TAKE i \in A..B
    <3>1. i - d \in a..b /\ d + (i - d) = i
      OBVIOUS
    <3> QED  BY <3>1
  <2>3. \A i \in 1..(b - a + 1) : A + i - 1 = d + (a + i - 1)
    OBVIOUS
  <2> HIDE DEF A, B
  <2>4. /\ SubSeq(s, A, B) \in Seq(S) /\ Len(SubSeq(s, A, B)) = (IF A <= B THEN B - A + 1 ELSE 0)
        /\ \A i \in 1..(B - A + 1) : SubSeq(s, A, B)[i] = s[A + i - 1]
    BY <2>1, <2>2, SubSeqProperties
  <2>5. p = SubSeq(s, A, B)
    BY DEF A, B
  <2> HIDE DEF p
  <2> QED  BY <2>1, <2>3, <2>4, <2>5
<1>3. \A i \in 1..Len(q) : i \in 1..(b - a + 1) /\ a + i - 1 \in a..b
  BY <1>1
<1> HIDE DEF p, q
<1>4. Len(p) = Len(q)
  BY <1>1, <1>2
<1>5. \A i \in 1..Len(q) : p[i] = q[i]
  <2> TAKE i \in 1..Len(q)
  <2>1. i \in 1..(b - a + 1) /\ a + i - 1 \in a..b
    BY <1>3
  <2>2. p[i] = s[d + (a + i - 1)] /\ q[i] = t[a + i - 1]
    BY <1>1, <1>2, <2>1
  <2> QED  BY <2>1, <2>2
<1> QED  BY <1>1, <1>2, <1>4, <1>5, SeqEqual DEF p, q

Associates(p, q, u) == (p \o q) \o u = p \o (q \o u)
LEMMA ConcatAssociates ==
  ASSUME NEW S, NEW p \in Seq(S), NEW q \in Seq(S), NEW u \in Seq(S)
  PROVE  Associates(p, q, u)
BY ConcatAssociative DEF Associates

LEMMA SliceJoins ==
  ASSUME NEW S, NEW s \in Seq(S), NEW i \in 1..Len(s), NEW m \in (i + 1)..Len(s)
  PROVE  /\ SubSeq(s, i, m) = SubSeq(s, i, i) \o SubSeq(s, i + 1, m)
         /\ SubSeq(s, i, i) \in Seq(S) /\ SubSeq(s, i + 1, m) \in Seq(S)
<1>1. i \in 1..Len(s) /\ m \in i..Len(s) /\ i + 1 \in Int /\ m \in Int /\ i \in Int
  OBVIOUS
<1>2. SubSeq(s, i, m) = <<s[i]>> \o SubSeq(s, i + 1, m)
  BY <1>1, SubSeqRecursiveFirst
<1>3. SubSeq(s, i, i) = <<s[i]>> \o SubSeq(s, i + 1, i)
  BY <1>1, SubSeqRecursiveFirst
<1>4. SubSeq(s, i + 1, i) = <<>> /\ <<s[i]>> \o <<>> = <<s[i]>>
  BY <1>1, SubSeqEmpty
<1>5. s[i] \in S /\ \A j \in (i + 1)..m : s[j] \in S
  OBVIOUS
<1>6. SubSeq(s, i + 1, m) \in Seq(S)
  BY <1>1, <1>5, SubSeqProperties, Zenon
<1>7. <<s[i]>> \in Seq(S)
  BY <1>5
<1> QED  BY <1>2, <1>3, <1>4, <1>6, <1>7, Zenon

\* Past a first item a pass goes on as on what follows it: the pass over c, which is x
\* and y, makes of x one step, or keeps each of its tokens, and treats the tokens of y
\* as the pass over y does.
Divides(S, c, x, y, span, keeps, spanY, keepsY) ==
    /\ x \in Seq(S) /\ y \in Seq(S) /\ x # <<>> /\ c = x \o y
    /\ span \in [DOMAIN c -> Nat \ {0}] /\ spanY \in [DOMAIN y -> Nat \ {0}]
    /\ \A i \in 1..Len(y) : /\ span[Len(x) + i] = spanY[i]
                            /\ Len(x) + i \in keeps <=> i \in keepsY
    /\ \/ span[1] = Len(x)
       \/ \A i \in 1..Len(x) : span[i] = 1 /\ i \in keeps

GoesOn(c, x, y, span, keeps, spanY, keepsY) ==
    Filtered(c, span, keeps) = (IF 1 \in keeps THEN x ELSE <<>>) \o Filtered(y, spanY, keepsY)

LEMMA FilteredGoesOn ==
  ASSUME NEW S, NEW c, NEW x, NEW y, NEW span, NEW keeps, NEW spanY, NEW keepsY,
         Divides(S, c, x, y, span, keeps, spanY, keepsY)
  PROVE  GoesOn(c, x, y, span, keeps, spanY, keepsY)
<1> SUFFICES ASSUME x \in Seq(S), y \in Seq(S), x # <<>>,
                    span \in [DOMAIN (x \o y) -> Nat \ {0}], spanY \in [DOMAIN y -> Nat \ {0}],
                    \A i \in 1..Len(y) : /\ span[Len(x) + i] = spanY[i]
                                         /\ Len(x) + i \in keeps <=> i \in keepsY,
                    \/ span[1] = Len(x)
                    \/ \A i \in 1..Len(x) : span[i] = 1 /\ i \in keeps
             PROVE  Filtered(x \o y, span, keeps) = (IF 1 \in keeps THEN x ELSE <<>>) \o Filtered(y, spanY, keepsY)
  BY Zenon DEF Divides, GoesOn
<1> DEFINE d == x \o y
           m == Len(x)
           n == Len(y)
<1>1. /\ d \in Seq(S) /\ Len(d) = m + n /\ DOMAIN d = 1..(m + n) /\ DOMAIN y = 1..n
      /\ \A i \in 1..m : d[i] = x[i]
  BY ConcatProperties
<1>2. m \in Nat /\ n \in Nat /\ m >= 1
  BY EmptySeq
<1>c. span \in [DOMAIN d -> Nat \ {0}]
  OBVIOUS
<1> HIDE DEF d
<1>3. PICK f : Passes(f, S, d, span, keeps)
  BY <1>1, <1>c, FilteredIs, Zenon
<1>4. PICK g : Passes(g, S, y, spanY, keepsY)
  BY FilteredIs, Zenon
<1>5. \A i \in 1..n : \A j \in i..n : SubSeq(d, m + i, m + j) = SubSeq(y, i, j)
  <2> TAKE i \in 1..n
  <2> TAKE j \in i..n
  <2>1. \A k \in i..j : d[m + k] = y[k] /\ y[k] \in S
    <3> TAKE k \in i..j
    <3>1. k \in 1..n /\ m + k \in 1..(m + n) /\ ~(m + k <= m) /\ m + k - m = k
      BY <1>2
    <3> QED  BY <1>1, <3>1, ConcatProperties DEF d
  <2>2. i \in Int /\ j \in Int /\ m \in Int
    BY <1>2
  <2> QED  BY <2>1, <2>2, SameSlice
<1>6. /\ \A i \in 1..n : spanY[i] \in Nat \ {0} /\ span[m + i] = spanY[i]
      /\ \A i \in 1..n : m + i \in keeps <=> i \in keepsY
  <2>1. \A i \in 1..n : spanY[i] \in Nat \ {0}
    BY <1>1
  <2> QED  BY <2>1
<1>7. SubSeq(d, 1, m) = x
  <2>1. \A k \in 1..m : d[0 + k] = x[k] /\ x[k] \in S
    <3> TAKE k \in 1..m
    <3>1. 0 + k = k
      BY <1>2
    <3>2. x[k] \in S
      OBVIOUS
    <3> QED  BY <1>1, <3>1, <3>2
  <2>2. SubSeq(d, 0 + 1, 0 + m) = SubSeq(x, 1, m)
    BY <1>2, <2>1, SameSlice
  <2>3. SubSeq(x, 1, m) = x
    BY SubSeqFull
  <2>4. 0 + 1 = 1 /\ 0 + m = m
    BY <1>2
  <2> QED  BY <2>2, <2>3, <2>4
<1> DEFINE M(i) == Min({i + span[i] - 1, m + n})
           V(i) == Min({i + span[i], m + n + 1})
           P(i) == Min({i + spanY[i] - 1, n})
           Q(i) == Min({i + spanY[i], n + 1})
<1>8. /\ f[m + n + 1] = <<>> /\ f[1] = Filtered(d, span, keeps)
      /\ \A i \in 1..(m + n) : f[i] = (IF i \in keeps THEN SubSeq(d, i, M(i)) ELSE <<>>) \o f[V(i)]
  <2>1. Len(d) = m + n
    BY <1>1
  <2> QED  BY <1>3, <2>1, Zenon DEF Passes
<1>9. /\ g[n + 1] = <<>> /\ g[1] = Filtered(y, spanY, keepsY)
      /\ \A i \in 1..n : g[i] = (IF i \in keepsY THEN SubSeq(y, i, P(i)) ELSE <<>>) \o g[Q(i)]
  BY <1>4, Zenon DEF Passes
<1>10. \A i \in 1..(m + n) : span[i] \in Nat \ {0}
  BY <1>1, <1>c
<1> HIDE DEF n, m
<1>11. \A i \in 1..n : /\ P(i) \in i..n /\ Q(i) \in (i + 1)..(n + 1)
                       /\ M(m + i) = m + P(i) /\ V(m + i) = m + Q(i)
  <2> TAKE i \in 1..n
  <2>1. PICK width : width = spanY[i] /\ width \in Nat \ {0}
    BY <1>6
  <2>2. span[m + i] = width
    BY <1>6, <2>1
  <2>3. m \in Nat /\ n \in Nat
    BY <1>2
  <2>4. /\ Min({i + width - 1, n}) \in i..n /\ Min({i + width, n + 1}) \in (i + 1)..(n + 1)
        /\ Min({m + i + width - 1, m + n}) = m + Min({i + width - 1, n})
        /\ Min({m + i + width, m + n + 1}) = m + Min({i + width, n + 1})
    <3>1. StepLands(m, n, i, width)
      BY <2>1, <2>3, LeastOfSteps, Zenon
    <3> QED  BY <3>1, Zenon DEF StepLands
  <2>5. /\ P(i) = Min({i + width - 1, n}) /\ Q(i) = Min({i + width, n + 1})
        /\ M(m + i) = Min({m + i + width - 1, m + n}) /\ V(m + i) = Min({m + i + width, m + n + 1})
    BY <2>1, <2>2, Zenon
  <2> HIDE DEF P, Q, M, V
  <2> QED  BY <2>4, <2>5, Zenon
<1>12. f[m + 1] = g[1]
  <2> DEFINE J == {k \in Nat : \A i \in 1..(n + 1) : n + 1 - k <= i => f[m + i] = g[i]}
  <2>1. 0 \in J
    <3>1. \A i \in 1..(n + 1) : n + 1 - 0 <= i => i = n + 1 /\ m + i = m + n + 1
      BY <1>2
    <3>2. \A i \in 1..(n + 1) : n + 1 - 0 <= i => f[m + i] = g[i]
      BY <1>8, <1>9, <3>1, Zenon
    <3> QED  BY <3>2
  <2>2. ASSUME NEW k \in Nat, k \in J PROVE k + 1 \in J
    <3> SUFFICES ASSUME NEW i \in 1..(n + 1), n + 1 - (k + 1) <= i PROVE f[m + i] = g[i]
      BY <2>2
    <3>1. CASE i = n + 1
      <4>1. m + i = m + n + 1
        BY <1>2, <3>1
      <4> QED  BY <1>8, <1>9, <3>1, <4>1, Zenon
    <3>2. CASE i # n + 1
      <4>1. i \in 1..n /\ m + i \in 1..(m + n)
        BY <1>2, <3>2
      <4>2. Q(i) \in 1..(n + 1) /\ n + 1 - k <= Q(i)
        <5>1. Q(i) \in (i + 1)..(n + 1) /\ k \in Nat
          BY <1>11, <2>2, <4>1
        <5> HIDE DEF Q
        <5> QED  BY <1>2, <4>1, <5>1
      <4>3. f[m + Q(i)] = g[Q(i)]
        BY <2>2, <4>2
      <4>4. SubSeq(d, m + i, m + P(i)) = SubSeq(y, i, P(i))
        BY <1>5, <1>11, <4>1
      <4>5. f[m + i] = (IF m + i \in keeps THEN SubSeq(d, m + i, M(m + i)) ELSE <<>>) \o f[V(m + i)]
        BY <1>8, <4>1
      <4>6. M(m + i) = m + P(i) /\ V(m + i) = m + Q(i) /\ (m + i \in keeps <=> i \in keepsY)
        BY <1>6, <1>11, <4>1
      <4>7. g[i] = (IF i \in keepsY THEN SubSeq(y, i, P(i)) ELSE <<>>) \o g[Q(i)]
        BY <1>9, <4>1
      <4> HIDE DEF M, V, P, Q
      <4>8. f[m + i] = (IF i \in keepsY THEN SubSeq(d, m + i, m + P(i)) ELSE <<>>) \o f[m + Q(i)]
        BY <4>5, <4>6, Zenon
      <4> QED  BY <4>3, <4>4, <4>7, <4>8, Zenon
    <3> QED  BY <3>1, <3>2
  <2>3. n \in J
    <3> HIDE DEF J
    <3> QED  BY <1>2, <2>1, <2>2, SetInduction
  <2>4. 1 \in 1..(n + 1) /\ n + 1 - n <= 1
    BY <1>2
  <2> QED  BY <2>3, <2>4
<1>13. CASE span[1] = m
  <2>1. 1 + span[1] = m + 1 /\ 1 + span[1] - 1 = m /\ 1 \in 1..(m + n)
    BY <1>2, <1>13
  <2>2. M(1) = m /\ V(1) = m + 1
    <3>1. M(1) = Min({m, m + n}) /\ V(1) = Min({m + 1, m + n + 1})
      BY <2>1
    <3>2. m \in Int /\ m + n \in Int /\ m + 1 \in Int /\ m + n + 1 \in Int /\ m <= m + n /\ m + 1 <= m + n + 1
      BY <1>2
    <3>3. Min({m, m + n}) = m
      BY <3>2, LeastOfTwo, Zenon
    <3>4. Min({m + 1, m + n + 1}) = m + 1
      BY <3>2, LeastOfTwo, Zenon
    <3> QED  BY <3>1, <3>3, <3>4, Zenon
  <2> HIDE DEF M, V
  <2>3. f[1] = (IF 1 \in keeps THEN SubSeq(d, 1, M(1)) ELSE <<>>) \o f[V(1)]
    BY <1>8, <2>1
  <2>4. f[1] = (IF 1 \in keeps THEN x ELSE <<>>) \o g[1]
    BY <1>7, <1>12, <2>2, <2>3, Zenon
  <2> QED  BY <1>8, <1>9, <2>4, Zenon DEF d
<1>14. CASE \A i \in 1..m : span[i] = 1 /\ i \in keeps
  <2>1. ASSUME NEW i \in 1..m PROVE f[i] = SubSeq(d, i, i) \o f[i + 1]
    <3>1. i \in 1..(m + n) /\ i + 1 - 1 = i /\ i \in Int /\ m + n \in Int /\ i <= m + n
          /\ i + 1 \in Int /\ m + n + 1 \in Int /\ i + 1 <= m + n + 1
      BY <1>2, <2>1
    <3>2. M(i) = Min({i, m + n}) /\ V(i) = Min({i + 1, m + n + 1}) /\ i \in keeps
      BY <1>14, <3>1
    <3>3. M(i) = i
      BY <3>1, <3>2, LeastOfTwo, Zenon
    <3>4. V(i) = i + 1
      BY <3>1, <3>2, LeastOfTwo, Zenon
    <3> HIDE DEF M, V
    <3>5. f[i] = (IF i \in keeps THEN SubSeq(d, i, M(i)) ELSE <<>>) \o f[V(i)]
      BY <1>8, <3>1
    <3> QED  BY <3>2, <3>3, <3>4, <3>5, Zenon
  <2> DEFINE J == {k \in Nat : k < m => f[m - k] = SubSeq(d, m - k, m) \o f[m + 1]}
  <2>3. 0 \in J
    <3>1. m \in 1..m /\ m - 0 = m
      BY <1>2
    <3> QED  BY <2>1, <3>1
  <2>4. ASSUME NEW k \in Nat, k \in J PROVE k + 1 \in J
    <3>0. k + 1 \in Nat
      BY <2>4
    <3> SUFFICES ASSUME k + 1 < m PROVE f[m - (k + 1)] = SubSeq(d, m - (k + 1), m) \o f[m + 1]
      BY <3>0
    <3> DEFINE i == m - (k + 1)
    <3>1. i \in 1..m /\ i + 1 = m - k /\ k < m /\ i + 1 \in 1..m
      BY <1>2, <2>4
    <3> HIDE DEF i
    <3>2. f[i + 1] = SubSeq(d, i + 1, m) \o f[m + 1]
      BY <2>4, <3>1
    <3>3. f[i] = SubSeq(d, i, i) \o f[i + 1]
      BY <2>1, <3>1
    <3>7. i \in 1..Len(d) /\ m \in (i + 1)..Len(d)
      BY <1>1, <1>2, <3>1
    <3>4. /\ SubSeq(d, i, m) = SubSeq(d, i, i) \o SubSeq(d, i + 1, m)
          /\ SubSeq(d, i, i) \in Seq(S) /\ SubSeq(d, i + 1, m) \in Seq(S)
      BY <1>1, <3>7, SliceJoins, Zenon
    <3>5. f[m + 1] \in Seq(S)
      <4>1. m + 1 \in 1..(Len(d) + 1)
        BY <1>1, <1>2
      <4> QED  BY <1>3, <4>1 DEF Passes
    <3>6. f[i] = SubSeq(d, i, m) \o f[m + 1]
      <4>1. Associates(SubSeq(d, i, i), SubSeq(d, i + 1, m), f[m + 1])
        BY <3>4, <3>5, ConcatAssociates, Zenon
      <4> QED  BY <3>2, <3>3, <3>4, <4>1, Zenon DEF Associates
    <3> QED  BY <3>6 DEF i
  <2>5. m - 1 \in J
    <3>1. m - 1 \in Nat
      BY <1>2
    <3> HIDE DEF J
    <3> QED  BY <2>3, <2>4, <3>1, SetInduction
  <2>6. f[1] = SubSeq(d, 1, m) \o f[m + 1] /\ 1 \in 1..m
    <3>1. m - 1 \in Nat /\ m - 1 < m /\ m - (m - 1) = 1 /\ 1 \in 1..m
      BY <1>2
    <3> QED  BY <2>5, <3>1
  <2> HIDE DEF J
  <2> QED  BY <1>7, <1>8, <1>9, <1>12, <1>14, <2>6, Zenon DEF d
<1> QED  BY <1>13, <1>14 DEF m

----------------------------------------------------------------------------
(* Tokens, and the words after one.                                         *)

Values ==
    {"m", "high", "role", "k", "p", "d1", "d2", "i1", "i2", "Read", "Bash", "Edit", "project", "user", "plan",
     "dontAsk", "other", "full", "never", "effort", "check=on", "check=off", "brief", "note", "first prompt",
     "c0", "resume", "fork"} \cup ChatNames \cup TreeNames
FlagNames ==
    {"yolo", "trust", "--verbose", "--no-chrome", "--fork-session", "--continue", "--resume", "--model", "--effort",
     "--append-system-prompt", "--session-id", "--permission-mode", "--setting-sources", "--add-dir",
     "--allowedTools", "--disallowedTools", "--search", "-m", "-c", "--sandbox", "--ask-for-approval", "--image",
     "--new-project", "--conversation", "-i", "--mode", "--log-file"}

Token ==
    [is : {"flag", "word", "control"}, name : FlagNames \cup Values \cup {";"}, inline : Values \cup {None}]

LEMMA TokensAre ==
  /\ \A n \in FlagNames : Flag(n) \in Token /\ Flag(n).is = "flag" /\ Flag(n).inline = None /\ Flag(n).name = n
  /\ \A n \in FlagNames, v \in Values : Inline(n, v) \in Token
  /\ \A v \in Values : Word(v) \in Token /\ Word(v).is = "word" /\ Word(v).inline = None /\ Word(v).name = v
  /\ Control \in Token /\ Control.is = "control"
<1>1. \A n \in FlagNames : Flag(n) \in Token /\ Flag(n).is = "flag" /\ Flag(n).inline = None /\ Flag(n).name = n
  <2> HIDE DEF FlagNames
  <2> QED  BY DEF Flag, Token
<1>2. \A n \in FlagNames, v \in Values : Inline(n, v) \in Token
  BY DEF Inline, Token
<1>3. \A v \in Values : Word(v) \in Token /\ Word(v).is = "word" /\ Word(v).inline = None /\ Word(v).name = v
  BY DEF Word, Token
<1>4. Control \in Token /\ Control.is = "control"
  BY DEF Control, Token
<1> QED  BY <1>1, <1>2, <1>3, <1>4

\* From i on there are n words, and then none.
WordsEnd(cmd, i, n) ==
    /\ i + n <= Len(cmd) /\ \A j \in (i + 1)..(i + n) : cmd[j].is = "word"
    /\ i + n < Len(cmd) => cmd[i + n + 1].is # "word"

LEMMA WordsIs ==
  ASSUME NEW cmd, Len(cmd) \in Nat, NEW i \in 1..Len(cmd), NEW n \in Nat, WordsEnd(cmd, i, n)
  PROVE  Words(cmd, i) = n
<1> DEFINE N == Len(cmd)
           stops == {j \in (i + 1)..N : cmd[j].is # "word"}
<1>1. N \in Nat /\ i \in 1..N /\ i + n <= N
  BY DEF WordsEnd
<1>2. \A j \in (i + 1)..(i + n) : cmd[j].is = "word"
  BY DEF WordsEnd
<1>3. i + n < N => cmd[i + n + 1].is # "word"
  BY DEF WordsEnd
<1>4. Words(cmd, i) = (IF stops = {} THEN N + 1 ELSE Min(stops)) - i - 1
  BY DEF Words
<1> HIDE DEF N
<1>5. CASE i + n = N
  <2>1. stops = {}
    BY <1>1, <1>2, <1>5
  <2> HIDE DEF stops
  <2> QED  BY <1>1, <1>4, <1>5, <2>1
<1>6. CASE i + n < N
  <2>1. i + n + 1 \in stops
    BY <1>1, <1>3, <1>6
  <2>2. \A j \in stops : i + n + 1 <= j /\ j \in Int
    <3> SUFFICES ASSUME NEW j \in (i + 1)..N, cmd[j].is # "word", j < i + n + 1 PROVE FALSE
      BY <1>1
    <3>1. j \in (i + 1)..(i + n)
      BY <1>1
    <3> QED  BY <1>2, <3>1
  <2> HIDE DEF stops
  <2>3. Min(stops) = i + n + 1
    <3>1. \E x \in stops : \A y \in stops : x <= y
      BY <2>1, <2>2
    <3>2. Min(stops) \in stops /\ \A y \in stops : Min(stops) <= y
      BY <3>1 DEF Min
    <3> QED  BY <1>1, <2>1, <2>2, <3>2
  <2> QED  BY <1>1, <1>4, <2>1, <2>3
<1> QED  BY <1>1, <1>5, <1>6

LEMMA WordsStop ==
  ASSUME NEW cmd, Len(cmd) \in Nat, NEW i \in 1..Len(cmd)
  PROVE  \E n \in Nat : WordsEnd(cmd, i, n)
<1> DEFINE N == Len(cmd)
           stops == {j \in (i + 1)..N : cmd[j].is # "word"}
<1>1. N \in Nat /\ i \in 1..N /\ N = Len(cmd)
  OBVIOUS
<1> HIDE DEF N
<1>2. CASE stops = {}
  <2>1. N - i \in Nat /\ i + (N - i) = N
    BY <1>1
  <2>2. \A j \in (i + 1)..N : cmd[j].is = "word"
    BY <1>2
  <2>3. WordsEnd(cmd, i, N - i)
    BY <1>1, <2>1, <2>2 DEF WordsEnd
  <2> QED  BY <2>1, <2>3
<1>3. CASE stops # {}
  <2>1. stops \in SUBSET (1..N)
    BY <1>1
  <2> HIDE DEF stops
  <2>2. PICK m \in stops : \A j \in stops : m <= j
    BY <1>1, <1>3, <2>1, LeastExists
  <2>3. m \in (i + 1)..N /\ cmd[m].is # "word" /\ \A j \in (i + 1)..N : cmd[j].is # "word" => m <= j
    BY <2>2 DEF stops
  <2> DEFINE n == m - i - 1
  <2>4. n \in Nat /\ i + n <= N /\ i + n + 1 = m /\ i + n < N
    BY <1>1, <2>3
  <2>5. \A j \in (i + 1)..(i + n) : cmd[j].is = "word"
    <3> SUFFICES ASSUME NEW j \in (i + 1)..(i + n), cmd[j].is # "word" PROVE FALSE
      OBVIOUS
    <3>1. j \in (i + 1)..N /\ j < m
      BY <1>1, <2>3, <2>4
    <3> QED  BY <1>1, <2>3, <3>1
  <2> HIDE DEF n
  <2>6. WordsEnd(cmd, i, n)
    BY <1>1, <2>3, <2>4, <2>5 DEF WordsEnd
  <2> QED  BY <2>4, <2>6
<1> QED  BY <1>2, <1>3
LEMMA JoinIs ==
  ASSUME NEW x \in Seq(Token), NEW y \in Seq(Token)
  PROVE  /\ x \o y \in Seq(Token) /\ Len(x \o y) = Len(x) + Len(y) /\ DOMAIN (x \o y) = 1..(Len(x) + Len(y))
         /\ \A i \in 1..Len(x) : (x \o y)[i] = x[i]
         /\ \A i \in 1..Len(y) : (x \o y)[Len(x) + i] = y[i] /\ Len(x) + i \in 1..(Len(x) + Len(y))
         /\ Len(x) \in Nat /\ Len(y) \in Nat
<1>1. x \o y \in Seq(Token) /\ Len(x \o y) = Len(x) + Len(y) /\ DOMAIN (x \o y) = 1..(Len(x) + Len(y))
  BY ConcatProperties
<1>2. /\ \A i \in 1..Len(x) : (x \o y)[i] = x[i]
      /\ \A i \in 1..Len(y) : (x \o y)[Len(x) + i] = y[i] /\ Len(x) + i \in 1..(Len(x) + Len(y))
  BY ConcatProperties
<1> QED  BY <1>1, <1>2

LEMMA WordsShift ==
  ASSUME NEW x \in Seq(Token), NEW y \in Seq(Token), NEW i \in 1..Len(y)
  PROVE  Words(x \o y, Len(x) + i) = Words(y, i) /\ Words(y, i) \in Nat
<1> DEFINE c == x \o y
           m == Len(x)
<1>1. /\ Len(c) = m + Len(y) /\ m \in Nat /\ Len(y) \in Nat
      /\ \A j \in 1..Len(y) : c[m + j] = y[j] /\ m + j \in 1..(m + Len(y))
  BY JoinIs
<1>2. PICK n \in Nat : WordsEnd(y, i, n)
  BY <1>1, WordsStop
<1> HIDE DEF c, m
<1>3. i + n <= Len(y) /\ (i + n < Len(y) => y[i + n + 1].is # "word")
      /\ \A j \in (i + 1)..(i + n) : y[j].is = "word"
  BY <1>2 DEF WordsEnd
<1>4. \A j \in (m + i + 1)..(m + i + n) : c[j].is = "word"
  <2> TAKE j \in (m + i + 1)..(m + i + n)
  <2>1. j - m \in (i + 1)..(i + n) /\ j - m \in 1..Len(y) /\ m + (j - m) = j
    BY <1>1, <1>3
  <2> QED  BY <1>1, <1>3, <2>1
<1>5. m + i + n < Len(c) => c[m + i + n + 1].is # "word"
  <2> SUFFICES ASSUME m + i + n < Len(c) PROVE c[m + i + n + 1].is # "word"
    OBVIOUS
  <2>1. i + n + 1 \in 1..Len(y) /\ i + n < Len(y) /\ m + (i + n + 1) = m + i + n + 1
    BY <1>1, <1>3
  <2>2. c[m + (i + n + 1)] = y[i + n + 1]
    BY <1>1, <2>1
  <2> QED  BY <1>3, <2>1, <2>2
<1>6. m + i \in 1..Len(c) /\ Len(c) \in Nat /\ m + i + n <= Len(c)
  BY <1>1, <1>3
<1>7. WordsEnd(c, m + i, n)
  BY <1>4, <1>5, <1>6 DEF WordsEnd
<1>8. Words(c, m + i) = n
  BY <1>6, <1>7, WordsIs
<1>9. Words(y, i) = n
  BY <1>1, <1>2, WordsIs
<1> QED  BY <1>8, <1>9 DEF c, m

LEMMA SpansArePositive ==
  ASSUME NEW e, NEW cmd \in Seq(Token), NEW i \in 1..Len(cmd)
  PROVE  /\ IdentitySpan(e, cmd, i) \in Nat \ {0} /\ AccessSpan(e, cmd, i) \in Nat \ {0}
         /\ BindingSpan(e, cmd, i) \in Nat \ {0}
<1>1. Words(cmd, i) \in Nat
  BY EmptySeq, WordsShift
<1>2. 1 + Words(cmd, i) \in Nat \ {0}
  BY <1>1
<1>3. IdentitySpan(e, cmd, i) \in Nat \ {0}
  BY <1>2 DEF IdentitySpan
<1>4. AccessSpan(e, cmd, i) \in Nat \ {0}
  BY <1>2 DEF AccessSpan
<1>5. BindingSpan(e, cmd, i) \in Nat \ {0}
  BY DEF BindingSpan
<1> QED  BY <1>3, <1>4, <1>5

LEMMA SpansShift ==
  ASSUME NEW e, NEW x \in Seq(Token), NEW y \in Seq(Token), NEW i \in 1..Len(y)
  PROVE  /\ IdentitySpan(e, x \o y, Len(x) + i) = IdentitySpan(e, y, i)
         /\ AccessSpan(e, x \o y, Len(x) + i) = AccessSpan(e, y, i)
         /\ BindingSpan(e, x \o y, Len(x) + i) = BindingSpan(e, y, i)
         /\ NoAccess(e, x \o y, Len(x) + i) <=> NoAccess(e, y, i)
         /\ Bound(e, x \o y, Len(x) + i) <=> Bound(e, y, i)
<1> DEFINE c == x \o y
           j == Len(x) + i
<1>1. c[j] = y[i]
  BY JoinIs
<1>2. Words(c, j) = Words(y, i)
  BY WordsShift
<1>3. /\ j < Len(c) <=> i < Len(y)
      /\ i < Len(y) => c[j + 1] = y[i + 1]
  <2>1. Len(c) = Len(x) + Len(y) /\ Len(x) \in Nat /\ Len(y) \in Nat
    BY JoinIs
  <2>2. ASSUME i < Len(y) PROVE c[j + 1] = y[i + 1]
    <3>1. i + 1 \in 1..Len(y) /\ j + 1 = Len(x) + (i + 1)
      BY <2>1, <2>2
    <3> HIDE DEF j
    <3> QED  BY <3>1, JoinIs
  <2> HIDE DEF c
  <2> QED  BY <2>1, <2>2
<1> HIDE DEF c, j
<1>4. TxSources(c, j) <=> TxSources(y, i)
  BY <1>1, <1>3 DEF TxSources
<1>5. Bound(e, c, j) <=> Bound(e, y, i)
  BY <1>1, <1>3 DEF Bound
<1>6. IdentitySpan(e, c, j) = IdentitySpan(e, y, i)
  BY <1>1, <1>2 DEF IdentitySpan
<1>7. AccessSpan(e, c, j) = AccessSpan(e, y, i)
  BY <1>1, <1>2, <1>4 DEF AccessSpan
<1>8. BindingSpan(e, c, j) = BindingSpan(e, y, i)
  BY <1>1, <1>5 DEF BindingSpan
<1>9. NoAccess(e, c, j) <=> NoAccess(e, y, i)
  BY <1>1, <1>4 DEF NoAccess
<1> QED  BY <1>5, <1>6, <1>7, <1>8, <1>9 DEF c, j
LEMMA IdentityGoesOn ==
  ASSUME NEW e, NEW x \in Seq(Token), NEW y \in Seq(Token), x # <<>>,
         IdentitySpan(e, x \o y, 1) = Len(x)
  PROVE  WithoutIdentity(e, x \o y) = (IF Inherited(e, x[1]) THEN x ELSE <<>>) \o WithoutIdentity(e, y)
<1> DEFINE c == x \o y
           span == [i \in DOMAIN c |-> IdentitySpan(e, c, i)]
           keeps == {i \in DOMAIN c : Inherited(e, c[i])}
           spanY == [i \in DOMAIN y |-> IdentitySpan(e, y, i)]
           keepsY == {i \in DOMAIN y : Inherited(e, y[i])}
<1>1. /\ c \in Seq(Token) /\ DOMAIN c = 1..Len(c) /\ DOMAIN y = 1..Len(y) /\ 1 \in DOMAIN c
      /\ \A i \in 1..Len(x) : i \in DOMAIN c
      /\ \A i \in 1..Len(y) : c[Len(x) + i] = y[i] /\ Len(x) + i \in DOMAIN c
      /\ c[1] = x[1]
  <2>1. Len(x) \in Nat /\ Len(y) \in Nat /\ Len(x) >= 1
    BY EmptySeq
  <2>2. 1 \in 1..Len(x) /\ \A i \in 1..Len(x) : i \in 1..(Len(x) + Len(y))
    BY <2>1
  <2> QED  BY <2>2, JoinIs
<1>2. \A i \in 1..Len(y) : /\ IdentitySpan(e, c, Len(x) + i) = IdentitySpan(e, y, i)
                           /\ Inherited(e, c[Len(x) + i]) <=> Inherited(e, y[i])
  BY <1>1, SpansShift
<1>3. (\A i \in 1..Len(c) : IdentitySpan(e, c, i) \in Nat \ {0}) /\ \A i \in 1..Len(y) : IdentitySpan(e, y, i) \in Nat \ {0}
  BY <1>1, SpansArePositive
<1>4. IdentitySpan(e, c, 1) = Len(x)
  OBVIOUS
<1> HIDE DEF c
<1>5. span \in [DOMAIN c -> Nat \ {0}] /\ spanY \in [DOMAIN y -> Nat \ {0}]
  BY <1>1, <1>3
<1>6. \A i \in 1..Len(y) : span[Len(x) + i] = spanY[i] /\ (Len(x) + i \in keeps <=> i \in keepsY)
  <2> TAKE i \in 1..Len(y)
  <2>1. Len(x) + i \in DOMAIN c /\ i \in DOMAIN y
    BY <1>1
  <2>2. span[Len(x) + i] = spanY[i]
    <3>1. span[Len(x) + i] = IdentitySpan(e, c, Len(x) + i) /\ spanY[i] = IdentitySpan(e, y, i)
      BY <2>1
    <3> HIDE DEF span, spanY
    <3> QED  BY <1>2, <3>1, Zenon
  <2> HIDE DEF span, spanY
  <2> QED  BY <1>2, <2>1, <2>2, Zenon
<1>7. span[1] = Len(x) \/ \A i \in 1..Len(x) : span[i] = 1 /\ i \in keeps
  BY <1>1, <1>4
<1>8. 1 \in keeps <=> Inherited(e, x[1])
  BY <1>1
<1>9. WithoutIdentity(e, c) = Filtered(c, span, keeps) /\ WithoutIdentity(e, y) = Filtered(y, spanY, keepsY)
  BY DEF WithoutIdentity
<1> HIDE DEF span, keeps, spanY, keepsY
<1>10. Divides(Token, c, x, y, span, keeps, spanY, keepsY)
  BY <1>5, <1>6, <1>7, Zenon DEF Divides, c
<1>11. GoesOn(c, x, y, span, keeps, spanY, keepsY)
  BY <1>10, FilteredGoesOn, Zenon
<1> QED  BY <1>8, <1>9, <1>11, Zenon DEF GoesOn, c

LEMMA AccessGoesOn ==
  ASSUME NEW e, NEW x \in Seq(Token), NEW y \in Seq(Token), x # <<>>,
         AccessSpan(e, x \o y, 1) = Len(x) \/ \A i \in 1..Len(x) : AccessSpan(e, x \o y, i) = 1 /\ NoAccess(e, x \o y, i)
  PROVE  StripAccess(e, x \o y) = (IF NoAccess(e, x \o y, 1) THEN x ELSE <<>>) \o StripAccess(e, y)
<1> DEFINE c == x \o y
           span == [i \in DOMAIN c |-> AccessSpan(e, c, i)]
           keeps == {i \in DOMAIN c : NoAccess(e, c, i)}
           spanY == [i \in DOMAIN y |-> AccessSpan(e, y, i)]
           keepsY == {i \in DOMAIN y : NoAccess(e, y, i)}
<1>1. /\ c \in Seq(Token) /\ DOMAIN c = 1..Len(c) /\ DOMAIN y = 1..Len(y) /\ 1 \in DOMAIN c
      /\ \A i \in 1..Len(x) : i \in DOMAIN c
      /\ \A i \in 1..Len(y) : c[Len(x) + i] = y[i] /\ Len(x) + i \in DOMAIN c
      /\ c[1] = x[1]
  <2>1. Len(x) \in Nat /\ Len(y) \in Nat /\ Len(x) >= 1
    BY EmptySeq
  <2>2. 1 \in 1..Len(x) /\ \A i \in 1..Len(x) : i \in 1..(Len(x) + Len(y))
    BY <2>1
  <2> QED  BY <2>2, JoinIs
<1>2. \A i \in 1..Len(y) : /\ AccessSpan(e, c, Len(x) + i) = AccessSpan(e, y, i)
                           /\ NoAccess(e, c, Len(x) + i) <=> NoAccess(e, y, i)
  BY <1>1, SpansShift
<1>3. (\A i \in 1..Len(c) : AccessSpan(e, c, i) \in Nat \ {0}) /\ \A i \in 1..Len(y) : AccessSpan(e, y, i) \in Nat \ {0}
  BY <1>1, SpansArePositive
<1>4. AccessSpan(e, c, 1) = Len(x) \/ \A i \in 1..Len(x) : AccessSpan(e, c, i) = 1 /\ NoAccess(e, c, i)
  OBVIOUS
<1> HIDE DEF c
<1>5. span \in [DOMAIN c -> Nat \ {0}] /\ spanY \in [DOMAIN y -> Nat \ {0}]
  BY <1>1, <1>3
<1>6. \A i \in 1..Len(y) : span[Len(x) + i] = spanY[i] /\ (Len(x) + i \in keeps <=> i \in keepsY)
  <2> TAKE i \in 1..Len(y)
  <2>1. Len(x) + i \in DOMAIN c /\ i \in DOMAIN y
    BY <1>1
  <2>2. span[Len(x) + i] = spanY[i]
    <3>1. span[Len(x) + i] = AccessSpan(e, c, Len(x) + i) /\ spanY[i] = AccessSpan(e, y, i)
      BY <2>1
    <3> HIDE DEF span, spanY
    <3> QED  BY <1>2, <3>1, Zenon
  <2> HIDE DEF span, spanY
  <2> QED  BY <1>2, <2>1, <2>2, Zenon
<1>7. span[1] = Len(x) \/ \A i \in 1..Len(x) : span[i] = 1 /\ i \in keeps
  BY <1>1, <1>4
<1>8. 1 \in keeps <=> NoAccess(e, c, 1)
  BY <1>1
<1>9. StripAccess(e, c) = Filtered(c, span, keeps) /\ StripAccess(e, y) = Filtered(y, spanY, keepsY)
  BY DEF StripAccess
<1> HIDE DEF span, keeps, spanY, keepsY
<1>10. Divides(Token, c, x, y, span, keeps, spanY, keepsY)
  BY <1>5, <1>6, <1>7, Zenon DEF Divides, c
<1>11. GoesOn(c, x, y, span, keeps, spanY, keepsY)
  BY <1>10, FilteredGoesOn, Zenon
<1> QED  BY <1>8, <1>9, <1>11, Zenon DEF GoesOn, c

LEMMA BindingGoesOn ==
  ASSUME NEW e, NEW x \in Seq(Token), NEW y \in Seq(Token), x # <<>>,
         BindingSpan(e, x \o y, 1) = Len(x) \/ \A i \in 1..Len(x) : BindingSpan(e, x \o y, i) = 1 /\ ~Bound(e, x \o y, i)
  PROVE  DropBinding(e, x \o y) = (IF ~Bound(e, x \o y, 1) THEN x ELSE <<>>) \o DropBinding(e, y)
<1> DEFINE c == x \o y
           span == [i \in DOMAIN c |-> BindingSpan(e, c, i)]
           keeps == {i \in DOMAIN c : ~Bound(e, c, i)}
           spanY == [i \in DOMAIN y |-> BindingSpan(e, y, i)]
           keepsY == {i \in DOMAIN y : ~Bound(e, y, i)}
<1>1. /\ c \in Seq(Token) /\ DOMAIN c = 1..Len(c) /\ DOMAIN y = 1..Len(y) /\ 1 \in DOMAIN c
      /\ \A i \in 1..Len(x) : i \in DOMAIN c
      /\ \A i \in 1..Len(y) : c[Len(x) + i] = y[i] /\ Len(x) + i \in DOMAIN c
      /\ c[1] = x[1]
  <2>1. Len(x) \in Nat /\ Len(y) \in Nat /\ Len(x) >= 1
    BY EmptySeq
  <2>2. 1 \in 1..Len(x) /\ \A i \in 1..Len(x) : i \in 1..(Len(x) + Len(y))
    BY <2>1
  <2> QED  BY <2>2, JoinIs
<1>2. \A i \in 1..Len(y) : /\ BindingSpan(e, c, Len(x) + i) = BindingSpan(e, y, i)
                           /\ ~Bound(e, c, Len(x) + i) <=> ~Bound(e, y, i)
  BY SpansShift
<1>3. (\A i \in 1..Len(c) : BindingSpan(e, c, i) \in Nat \ {0}) /\ \A i \in 1..Len(y) : BindingSpan(e, y, i) \in Nat \ {0}
  BY <1>1, SpansArePositive
<1>4. BindingSpan(e, c, 1) = Len(x) \/ \A i \in 1..Len(x) : BindingSpan(e, c, i) = 1 /\ ~Bound(e, c, i)
  OBVIOUS
<1> HIDE DEF c
<1>5. span \in [DOMAIN c -> Nat \ {0}] /\ spanY \in [DOMAIN y -> Nat \ {0}]
  BY <1>1, <1>3
<1>6. \A i \in 1..Len(y) : span[Len(x) + i] = spanY[i] /\ (Len(x) + i \in keeps <=> i \in keepsY)
  <2> TAKE i \in 1..Len(y)
  <2>1. Len(x) + i \in DOMAIN c /\ i \in DOMAIN y
    BY <1>1
  <2>2. span[Len(x) + i] = spanY[i]
    <3>1. span[Len(x) + i] = BindingSpan(e, c, Len(x) + i) /\ spanY[i] = BindingSpan(e, y, i)
      BY <2>1
    <3> HIDE DEF span, spanY
    <3> QED  BY <1>2, <3>1, Zenon
  <2> HIDE DEF span, spanY
  <2> QED  BY <1>2, <2>1, <2>2, Zenon
<1>7. span[1] = Len(x) \/ \A i \in 1..Len(x) : span[i] = 1 /\ i \in keeps
  BY <1>1, <1>4
<1>8. 1 \in keeps <=> ~Bound(e, c, 1)
  BY <1>1
<1>9. DropBinding(e, c) = Filtered(c, span, keeps) /\ DropBinding(e, y) = Filtered(y, spanY, keepsY)
  BY DEF DropBinding
<1> HIDE DEF span, keeps, spanY, keepsY
<1>10. Divides(Token, c, x, y, span, keeps, spanY, keepsY)
  BY <1>5, <1>6, <1>7, Zenon DEF Divides, c
<1>11. GoesOn(c, x, y, span, keeps, spanY, keepsY)
  BY <1>10, FilteredGoesOn, Zenon
<1> QED  BY <1>8, <1>9, <1>11, Zenon DEF GoesOn, c
----------------------------------------------------------------------------
(* Items: a flag with the words its agent reads with it.                    *)

Known3 == {"claude", "codex", "agy"}

Names(e) ==
    CASE e = "claude" ->
           {"yolo", "--verbose", "--no-chrome", "--fork-session", "--continue", "--resume", "--model", "--effort",
            "--append-system-prompt", "--session-id", "--permission-mode", "--setting-sources", "--add-dir",
            "--allowedTools", "--disallowedTools"}
      [] e = "codex" -> {"yolo", "trust", "--search", "-m", "-c", "--sandbox", "--ask-for-approval", "--image"}
      [] e = "agy" ->
           {"yolo", "--new-project", "--continue", "--sandbox", "--model", "--conversation", "-i", "--mode",
            "--add-dir", "--log-file"}

WordTokens == {Word(v) : v \in Values}

\* As many words as the flag takes.
Fits(e, it) ==
    IF it[1].inline # None THEN e = "agy" /\ Len(it) = 1 /\ it[1].name \in {"--model", "--conversation"}
    ELSE /\ Arity(e, it[1].name) = "none" => Len(it) = 1
         /\ Arity(e, it[1].name) = "one" => Len(it) = 2
         /\ Arity(e, it[1].name) = "maybe" => Len(it) \in {1, 2}

Items(e) ==
    {it \in Seq(Token) :
       /\ Len(it) >= 1 /\ it[1].is = "flag" /\ it[1].name \in Names(e)
       /\ \A j \in 2..Len(it) : it[j] \in WordTokens
       /\ Fits(e, it)}

\* No flag of the command takes a word that comes next.
Closed(e, x) == \A i \in 1..Len(x) : ~Owns(e, x, i, Len(x) + 1)

\* No flag of x takes the first word of y.
Cut(e, x, y) == y = <<>> \/ y[1].is # "word" \/ Closed(e, x)

LEMMA ArityIs ==
  \A e, n : Arity(e, n) \in {"none", "one", "maybe", "many"}
BY DEF Arity

\* An item with what comes after it.
LEMMA ItemIs ==
  ASSUME NEW e, NEW it \in Items(e), NEW y \in Seq(Token)
  PROVE  /\ it \in Seq(Token) /\ it # <<>> /\ Len(it) \in Nat /\ Len(it) >= 1 /\ it[1] \in Token
         /\ it \o y \in Seq(Token) /\ Len(it \o y) = Len(it) + Len(y) /\ Len(y) \in Nat
         /\ (it \o y)[1] = it[1] /\ it[1].is = "flag" /\ it[1].name \in Names(e)
         /\ \A j \in 2..Len(it) : (it \o y)[j] = it[j] /\ it[j] \in WordTokens
         /\ \A j \in 1..Len(y) : (it \o y)[Len(it) + j] = y[j]
         /\ Fits(e, it)
<1>1. /\ it \in Seq(Token) /\ Len(it) >= 1 /\ it[1].is = "flag" /\ it[1].name \in Names(e)
      /\ \A j \in 2..Len(it) : it[j] \in WordTokens
      /\ Fits(e, it)
  BY Zenon DEF Items
<1>2. /\ it \o y \in Seq(Token) /\ Len(it \o y) = Len(it) + Len(y)
      /\ \A i \in 1..Len(it) : (it \o y)[i] = it[i]
      /\ \A i \in 1..Len(y) : (it \o y)[Len(it) + i] = y[i]
      /\ Len(it) \in Nat /\ Len(y) \in Nat
  BY <1>1, JoinIs
<1>3. it # <<>> /\ 1 \in 1..Len(it) /\ \A j \in 2..Len(it) : j \in 1..Len(it)
  BY <1>1, <1>2
<1>4. it[1] \in Token
  BY <1>1, <1>3
<1> QED  BY <1>1, <1>2, <1>3, <1>4

LEMMA WordTokensAre ==
  \A t \in WordTokens : t \in Token /\ t.is = "word" /\ t.inline = None /\ t.name \in Values /\ t = Word(t.name)
<1> SUFFICES ASSUME NEW v \in Values
             PROVE  LET t == Word(v) IN
                    t \in Token /\ t.is = "word" /\ t.inline = None /\ t.name \in Values /\ t = Word(t.name)
  BY DEF WordTokens
<1> HIDE DEF Values
<1> QED  BY TokensAre

\* The words after the flag are the item's own.
LEMMA WordsOfItems ==
  ASSUME NEW e, NEW it \in Items(e), NEW y \in Seq(Token), Cut(e, it, y), it[1].inline = None
  PROVE  /\ Words(it \o y, 1) \in Nat
         /\ Arity(e, it[1].name) = "many" => Words(it \o y, 1) = Len(it) - 1
         /\ Arity(e, it[1].name) = "maybe" => (Words(it \o y, 1) > 0 <=> Len(it) = 2)
         /\ Arity(e, it[1].name) = "one" => Words(it \o y, 1) > 0
<1> DEFINE c == it \o y
           a == Arity(e, it[1].name)
           m == Len(it)
<1>1. /\ m \in Nat /\ m >= 1 /\ Len(c) = m + Len(y) /\ Len(y) \in Nat
      /\ \A j \in 1..Len(y) : c[m + j] = y[j]
      /\ it[1].is = "flag"
  BY ItemIs
<1>2. \A j \in 2..m : c[j].is = "word"
  <2>1. \A j \in 2..m : c[j] = it[j] /\ it[j] \in WordTokens
    BY ItemIs
  <2> HIDE DEF c, m
  <2>2. \A j \in 2..m : c[j] \in WordTokens
    BY <2>1
  <2> QED  BY <2>2, WordTokensAre
<1>3. /\ a = "none" => m = 1
      /\ a = "one" => m = 2
      /\ a = "maybe" => m \in {1, 2}
  <2>1. Fits(e, it)
    BY ItemIs
  <2> QED  BY <2>1 DEF Fits
<1>4. Len(c) \in Nat /\ 1 \in 1..Len(c)
  BY <1>1
<1>5. PICK n \in Nat : WordsEnd(c, 1, n)
  BY <1>4, WordsStop
<1>6. Words(c, 1) = n
  BY <1>4, <1>5, WordsIs
<1>7. 1 + n <= Len(c) /\ (\A j \in 2..(1 + n) : c[j].is = "word") /\ (1 + n < Len(c) => c[n + 2].is # "word")
  <2>1. 1 + n <= Len(c) /\ (\A j \in (1 + 1)..(1 + n) : c[j].is = "word") /\ (1 + n < Len(c) => c[1 + n + 1].is # "word")
    BY <1>5 DEF WordsEnd
  <2>2. 1 + n + 1 = n + 2 /\ 1 + 1 = 2 /\ n + 2 = 1 + n + 1
    OBVIOUS
  <2> QED  BY <2>1, <2>2
<1>8. a = "many" \/ (a = "maybe" /\ m = 1) => y = <<>> \/ y[1].is # "word"
  <2>1. a = "many" \/ (a = "maybe" /\ m = 1) => Owns(e, it, 1, m + 1)
    <3>1. \A k \in (1 + 1)..(m + 1 - 1) : it[k].is # "flag"
      <4>1. \A k \in (1 + 1)..(m + 1 - 1) : k \in 2..m
        BY <1>1
      <4>2. \A k \in 2..m : it[k].is = "word"
        BY ItemIs, WordTokensAre
      <4> HIDE DEF m
      <4> QED  BY <4>1, <4>2
    <3> QED  BY <1>1, <3>1 DEF Owns
  <2>2. 1 \in 1..Len(it)
    BY <1>1
  <2> QED  BY <2>1, <2>2 DEF Cut, Closed
<1>9. a = "many" \/ (a = "maybe" /\ m = 1) => (Len(c) = m \/ c[m + 1].is # "word")
  <2>1. y = <<>> => Len(y) = 0
    OBVIOUS
  <2>2. y # <<>> => 1 \in 1..Len(y)
    OBVIOUS
  <2> QED  BY <1>1, <1>8, <2>1, <2>2
<1> HIDE DEF c, m, a
<1>10. n + 1 >= m
  <2> SUFFICES ASSUME n + 1 < m PROVE FALSE
    BY <1>1
  <2>1. n + 2 \in 2..m /\ 1 + n < Len(c)
    BY <1>1
  <2> QED  BY <1>2, <1>7, <2>1
<1>11. (Len(c) = m \/ c[m + 1].is # "word") => n + 1 = m
  <2> SUFFICES ASSUME Len(c) = m \/ c[m + 1].is # "word", n + 1 > m PROVE FALSE
    BY <1>1, <1>10
  <2>1. m + 1 \in 2..(1 + n)
    BY <1>1
  <2> QED  BY <1>1, <1>7, <2>1
<1>12. a = "many" => n = m - 1
  BY <1>1, <1>9, <1>11
<1>13. a = "maybe" => (n > 0 <=> m = 2)
  BY <1>1, <1>3, <1>9, <1>10, <1>11
<1>14. a = "one" => n > 0
  BY <1>3, <1>10
<1> QED  BY <1>6, <1>12, <1>13, <1>14 DEF a, c, m
----------------------------------------------------------------------------
(* The adapter's tables give a flag the words its agent gives it.           *)

LEMMA IdentityTables ==
  ASSUME NEW e \in Known3, NEW n \in Names(e)
  PROVE  /\ n \in IdentityBare(e) \cup Bare(e) => Arity(e, n) = "none"
         /\ n \in IdentityValues(e) => Arity(e, n) = "one"
         /\ n \in Variadic(e) => Arity(e, n) = "many"
         /\ n \notin IdentityBare(e) \cup Bare(e) \cup IdentityValues(e) \cup Variadic(e) => Arity(e, n) \in {"one", "maybe"}
<1>1. CASE e = "claude"
  BY <1>1 DEF Names, IdentityBare, Bare, IdentityValues, Variadic, Arity
<1>2. CASE e = "codex"
  BY <1>2 DEF Names, IdentityBare, Bare, IdentityValues, Variadic, Arity
<1>3. CASE e = "agy"
  BY <1>3 DEF Names, IdentityBare, Bare, IdentityValues, Variadic, Arity
<1> QED  BY <1>1, <1>2, <1>3 DEF Known3

LEMMA AccessTables ==
  ASSUME NEW e \in Known3, NEW n \in Names(e)
  PROVE  /\ n \in AccessBare(e) => Arity(e, n) = "none"
         /\ n \in AccessValues(e) => Arity(e, n) = "one" /\ n \notin AccessBare(e) \cup AccessLists(e)
         /\ n \in AccessLists(e) => Arity(e, n) = "many" /\ e = "claude"
         /\ n = "--setting-sources" => Arity(e, n) = "one" /\ n \notin AccessBare(e) \cup AccessLists(e) \cup AccessValues(e)
         /\ n = "-i" => Arity(e, n) = "one" /\ n \notin AccessBare(e) \cup AccessLists(e) \cup AccessValues(e)
         /\ n = "-c" => Arity(e, n) = "one"
         /\ e = "agy" /\ n \in {"--add-dir", "--log-file"} => Arity(e, n) = "one"
<1>1. CASE e = "claude"
  BY <1>1 DEF Names, AccessBare, AccessValues, AccessLists, Arity
<1>2. CASE e = "codex"
  BY <1>2 DEF Names, AccessBare, AccessValues, AccessLists, Arity
<1>3. CASE e = "agy"
  BY <1>3 DEF Names, AccessBare, AccessValues, AccessLists, Arity
<1> QED  BY <1>1, <1>2, <1>3 DEF Known3

\* What an agent reads in an item.
SettingOf(it) ==
    [flag |-> it[1].name, values |-> {it[j].name : j \in 2..Len(it)} \cup ({it[1].inline} \ {None})]

LEMMA IdentityOfItems ==
  ASSUME NEW e \in Known3, NEW it \in Items(e), NEW y \in Seq(Token), Cut(e, it, y)
  PROVE  /\ IdentitySpan(e, it \o y, 1) = Len(it)
         /\ Inherited(e, it[1]) <=> ~IsIdentity(e, SettingOf(it))
<1> DEFINE c == it \o y
           t == it[1]
           n == t.name
           w == Words(c, 1)
<1>1. /\ c[1] = t /\ t.is = "flag" /\ n \in Names(e) /\ Len(it) \in Nat /\ Len(it) >= 1
      /\ Fits(e, it)
  BY ItemIs
<1>2. t.inline # None => e = "agy" /\ Len(it) = 1
  BY <1>1 DEF Fits
<1>3. Inherited(e, t) <=> ~IsIdentity(e, SettingOf(it))
  BY <1>1, <1>2 DEF Inherited, Known, IsIdentity, SettingOf
<1>4. CASE t.inline # None
  <2>1. HasValue(e, t)
    BY <1>2, <1>4 DEF HasValue
  <2>2. IdentitySpan(e, c, 1) = 1
    BY <1>1, <2>1 DEF IdentitySpan
  <2> QED  BY <1>2, <1>3, <1>4, <2>2
<1>5. CASE t.inline = None
  <2>1. /\ w \in Nat
        /\ Arity(e, n) = "many" => w = Len(it) - 1
        /\ Arity(e, n) = "maybe" => (w > 0 <=> Len(it) = 2)
        /\ Arity(e, n) = "one" => w > 0
    BY <1>5, WordsOfItems
  <2>2. /\ Arity(e, n) = "none" => Len(it) = 1
        /\ Arity(e, n) = "one" => Len(it) = 2
        /\ Arity(e, n) = "maybe" => Len(it) \in {1, 2}
    BY <1>1, <1>5 DEF Fits
  <2>3. /\ n \in IdentityBare(e) \cup Bare(e) => Arity(e, n) = "none"
        /\ n \in IdentityValues(e) => Arity(e, n) = "one"
        /\ n \in Variadic(e) => Arity(e, n) = "many"
        /\ n \notin IdentityBare(e) \cup Bare(e) \cup IdentityValues(e) \cup Variadic(e) => Arity(e, n) \in {"one", "maybe"}
    BY <1>1, IdentityTables
  <2>4. IdentitySpan(e, c, 1) =
          IF n \in IdentityBare(e) \cup Bare(e) THEN 1
          ELSE IF n \in Variadic(e) THEN 1 + w
          ELSE IF n \in IdentityValues(e) \/ w > 0 THEN 2 ELSE 1
    <3> HIDE DEF c
    <3>1. c[1].is = "flag" /\ ~HasValue(e, c[1]) /\ \A S : Known(e, c[1], S) <=> n \in S
      BY <1>1, <1>5 DEF Known, HasValue
    <3> HIDE DEF n
    <3> QED  BY <3>1 DEF IdentitySpan
  <2>5. IdentitySpan(e, c, 1) = Len(it)
    <3> HIDE DEF c, w, n
    <3>1. CASE n \in IdentityBare(e) \cup Bare(e)
      BY <2>2, <2>3, <2>4, <3>1
    <3>2. CASE n \notin IdentityBare(e) \cup Bare(e) /\ n \in Variadic(e)
      BY <1>1, <2>1, <2>2, <2>3, <2>4, <3>2
    <3>3. CASE n \notin IdentityBare(e) \cup Bare(e) \cup Variadic(e) /\ n \in IdentityValues(e)
      BY <2>2, <2>3, <2>4, <3>3
    <3>4. CASE n \notin IdentityBare(e) \cup Bare(e) \cup IdentityValues(e) \cup Variadic(e)
      BY <2>1, <2>2, <2>3, <2>4, <3>4
    <3> QED  BY <3>1, <3>2, <3>3, <3>4
  <2> QED  BY <1>3, <2>5
<1> QED  BY <1>4, <1>5

LEMMA AccessOfItems ==
  ASSUME NEW e \in Known3, NEW it \in Items(e), NEW y \in Seq(Token), Cut(e, it, y)
  PROVE  /\ \/ AccessSpan(e, it \o y, 1) = Len(it)
            \/ \A i \in 1..Len(it) : AccessSpan(e, it \o y, i) = 1 /\ NoAccess(e, it \o y, i)
         /\ NoAccess(e, it \o y, 1) <=> ~IsAccess(e, SettingOf(it))
<1> DEFINE c == it \o y
           t == it[1]
           n == t.name
           w == Words(c, 1)
<1>1. /\ c[1] = t /\ t.is = "flag" /\ n \in Names(e) /\ Len(it) \in Nat /\ Len(it) >= 1 /\ t \in Token
      /\ \A j \in 2..Len(it) : c[j] = it[j] /\ it[j] \in WordTokens
      /\ Len(c) = Len(it) + Len(y) /\ Len(y) \in Nat
      /\ Fits(e, it)
  BY ItemIs
<1>2. t.inline # None => e = "agy" /\ Len(it) = 1
  BY <1>1 DEF Fits
<1>3. t.inline = None =>
        /\ w \in Nat
        /\ Arity(e, n) = "many" => w = Len(it) - 1
        /\ Arity(e, n) = "none" => Len(it) = 1
        /\ Arity(e, n) = "one" => Len(it) = 2
  BY <1>1, WordsOfItems DEF Fits
<1>4. /\ n \in AccessBare(e) => Arity(e, n) = "none"
      /\ n \in AccessValues(e) => Arity(e, n) = "one" /\ n \notin AccessBare(e) \cup AccessLists(e)
      /\ n \in AccessLists(e) => Arity(e, n) = "many" /\ e = "claude"
      /\ n = "--setting-sources" => Arity(e, n) = "one" /\ n \notin AccessBare(e) \cup AccessLists(e) \cup AccessValues(e)
      /\ n = "-i" => Arity(e, n) = "one" /\ n \notin AccessBare(e) \cup AccessLists(e) \cup AccessValues(e)
  BY <1>1, AccessTables
<1>5. \A S : Known(e, c[1], S) <=> n \in S
  BY <1>1, <1>2 DEF Known
<1>6. \A j \in 2..Len(it) : c[j].is = "word"
  BY <1>1, WordTokensAre
<1>7. e = "claude" => (TxSources(c, 1) <=> n = "--setting-sources" /\ SettingOf(it).values = {"user"})
  <2> SUFFICES ASSUME e = "claude" PROVE TxSources(c, 1) <=> n = "--setting-sources" /\ SettingOf(it).values = {"user"}
    OBVIOUS
  <2>1. t.inline = None
    BY <1>2
  <2>2. t = Flag("--setting-sources") <=> n = "--setting-sources"
    <3>1. t = [is |-> t.is, name |-> t.name, inline |-> t.inline]
      BY <1>1 DEF Token
    <3> QED  BY <1>1, <2>1, <3>1 DEF Flag
  <2>3. n = "--setting-sources" => Len(it) = 2
    BY <1>3, <1>4, <2>1
  <2>4. CASE n = "--setting-sources"
    <3>1. Len(it) = 2 /\ 2 \in 2..Len(it) /\ 1 < Len(c)
      <4>1. Len(it) = 2
        BY <2>3, <2>4
      <4>2. Len(c) = Len(it) + Len(y) /\ Len(y) \in Nat
        BY <1>1
      <4> HIDE DEF c
      <4> QED  BY <4>1, <4>2
    <3>2. c[2] = it[2] /\ it[2] \in WordTokens
      BY <1>1, <3>1
    <3>3. it[2] = Word(it[2].name)
      BY <3>2, WordTokensAre
    <3>4. c[2] = Word("user") <=> it[2].name = "user"
      BY <3>2, <3>3 DEF Word
    <3>5. {it[j].name : j \in 2..Len(it)} = {it[2].name}
      BY <3>1
    <3>6. SettingOf(it).values = {it[2].name}
      BY <2>1, <3>5 DEF SettingOf
    <3> QED  BY <1>1, <2>2, <2>4, <3>1, <3>4, <3>6 DEF TxSources
  <2>5. CASE n # "--setting-sources"
    BY <1>1, <2>2, <2>5 DEF TxSources
  <2> QED  BY <2>4, <2>5
<1>8. SettingOf(it).flag = n
  BY DEF SettingOf
<1>9. NoAccess(e, c, 1) <=> ~IsAccess(e, SettingOf(it))
  BY <1>5, <1>7, <1>8, Zenon DEF NoAccess, IsAccess
<1>10. e = "agy" => (c[1] = Flag("-i") => n = "-i" /\ t.inline = None)
  BY <1>1 DEF Flag
<1>11. \A j \in 2..Len(it) : AccessSpan(e, c, j) = 1 /\ NoAccess(e, c, j)
  <2> SUFFICES ASSUME NEW j \in 2..Len(it) PROVE AccessSpan(e, c, j) = 1 /\ NoAccess(e, c, j)
    OBVIOUS
  <2>1. c[j].is = "word"
    BY <1>6
  <2> HIDE DEF c
  <2>2. \A S : ~Known(e, c[j], S)
    BY <2>1 DEF Known
  <2>3. ~TxSources(c, j) /\ c[j] # Flag("-i")
    BY <2>1 DEF TxSources, Flag
  <2> QED  BY <2>2, <2>3 DEF AccessSpan, NoAccess
<1> HIDE DEF c, t, n, w
<1>12. CASE n \in AccessValues(e)
  <2>1. AccessSpan(e, c, 1) = IF HasValue(e, c[1]) THEN 1 ELSE 2
    BY <1>5, <1>12 DEF AccessSpan
  <2>2. HasValue(e, c[1]) <=> t.inline # None
    BY <1>1, <1>2 DEF HasValue
  <2>3. AccessSpan(e, c, 1) = Len(it)
    BY <1>2, <1>3, <1>4, <1>12, <2>1, <2>2
  <2> QED  BY <1>9, <2>3 DEF c
<1>13. CASE n \in AccessLists(e)
  <2>1. AccessSpan(e, c, 1) = 1 + w
    BY <1>4, <1>5, <1>13 DEF AccessSpan, w
  <2>2. t.inline = None
    BY <1>2, <1>4, <1>13
  <2>3. AccessSpan(e, c, 1) = Len(it)
    BY <1>1, <1>3, <1>4, <1>13, <2>1, <2>2
  <2> QED  BY <1>9, <2>3 DEF c
<1>14. CASE e = "claude" /\ TxSources(c, 1)
  <2>1. n = "--setting-sources" /\ t.inline = None
    BY <1>2, <1>7, <1>14
  <2>2. AccessSpan(e, c, 1) = 2
    BY <1>4, <1>5, <1>14, <2>1 DEF AccessSpan
  <2> QED  BY <1>3, <1>4, <1>9, <2>1, <2>2 DEF c
<1>15. CASE e = "agy" /\ c[1] = Flag("-i")
  <2>1. n = "-i" /\ t.inline = None
    BY <1>10, <1>15
  <2>2. AccessSpan(e, c, 1) = 2
    BY <1>4, <1>5, <1>15, <2>1 DEF AccessSpan
  <2> QED  BY <1>3, <1>4, <1>9, <2>1, <2>2 DEF c
<1>16. CASE /\ n \notin AccessValues(e) \cup AccessLists(e)
            /\ ~(e = "claude" /\ TxSources(c, 1)) /\ ~(e = "agy" /\ c[1] = Flag("-i"))
  <2>1. AccessSpan(e, c, 1) = 1
    BY <1>5, <1>16 DEF AccessSpan
  <2>2. CASE n \in AccessBare(e)
    <3>1. Len(it) = 1
      BY <1>2, <1>3, <1>4, <2>2
    <3> QED  BY <1>9, <2>1, <3>1 DEF c
  <2>3. CASE n \notin AccessBare(e)
    <3>1. NoAccess(e, c, 1)
      BY <1>5, <1>16, <2>3 DEF NoAccess
    <3>2. \A i \in 1..Len(it) : i = 1 \/ i \in 2..Len(it)
      BY <1>1
    <3>3. \A i \in 1..Len(it) : AccessSpan(e, c, i) = 1 /\ NoAccess(e, c, i)
      BY <1>11, <2>1, <3>1, <3>2
    <3> QED  BY <1>9, <3>3 DEF c
  <2> QED  BY <2>2, <2>3
<1> QED  BY <1>12, <1>13, <1>14, <1>15, <1>16

\* A binding to a worktree, or a setting of the update check.
IsBinding(e, s) ==
    IF e = "agy" THEN s.flag \in {"--add-dir", "--log-file"}
    ELSE s.flag = "-c" /\ s.values \cap UpdateCheck # {}

LEMMA BindingOfItems ==
  ASSUME NEW e \in {"codex", "agy"}, NEW it \in Items(e), NEW y \in Seq(Token), Cut(e, it, y)
  PROVE  /\ \/ BindingSpan(e, it \o y, 1) = Len(it)
            \/ \A i \in 1..Len(it) : BindingSpan(e, it \o y, i) = 1 /\ ~Bound(e, it \o y, i)
         /\ ~Bound(e, it \o y, 1) <=> ~IsBinding(e, SettingOf(it))
<1> DEFINE c == it \o y
           t == it[1]
           n == t.name
<1>0. e \in Known3
  BY DEF Known3
<1>1. /\ c[1] = t /\ t.is = "flag" /\ n \in Names(e) /\ Len(it) \in Nat /\ Len(it) >= 1 /\ t \in Token
      /\ \A j \in 2..Len(it) : c[j] = it[j] /\ it[j] \in WordTokens
      /\ Len(c) = Len(it) + Len(y) /\ Len(y) \in Nat
      /\ Fits(e, it)
  BY ItemIs
<1>2. t.inline # None => e = "agy" /\ Len(it) = 1
  BY <1>1 DEF Fits
<1>3. t.inline = None => (Arity(e, n) = "one" => Len(it) = 2)
  BY <1>1 DEF Fits
<1>4. /\ n = "-c" => Arity(e, n) = "one"
      /\ n = "-i" => Arity(e, n) = "one"
      /\ e = "agy" /\ n \in {"--add-dir", "--log-file"} => Arity(e, n) = "one"
  BY <1>0, <1>1, AccessTables
<1>5. Known(e, c[1], {"--add-dir", "--log-file"}) <=> n \in {"--add-dir", "--log-file"}
  BY <1>1, <1>2 DEF Known
<1>6. \A j \in 2..Len(it) : c[j].is = "word"
  BY <1>1, WordTokensAre
<1>7. t = [is |-> t.is, name |-> t.name, inline |-> t.inline]
  BY <1>1 DEF Token
<1>8. Bound(e, c, 1) <=> IsBinding(e, SettingOf(it))
  <2>1. SettingOf(it).flag = n
    BY DEF SettingOf
  <2>2. CASE e = "agy"
    BY <1>5, <2>1, <2>2, Zenon DEF Bound, IsBinding
  <2>3. CASE e # "agy"
    <3>1. t.inline = None
      BY <1>2, <2>3
    <3>2. c[1] = Flag("-c") <=> n = "-c"
      BY <1>1, <1>7, <3>1 DEF Flag
    <3>3. CASE n = "-c"
      <4>1. Len(it) = 2 /\ 2 \in 2..Len(it) /\ 1 < Len(c) /\ 1 + 1 = 2
        <5>1. Len(it) = 2
          BY <1>3, <1>4, <3>1, <3>3
        <5>2. Len(c) = Len(it) + Len(y) /\ Len(y) \in Nat
          BY <1>1
        <5> HIDE DEF c
        <5> QED  BY <5>1, <5>2
      <4>2. c[2] = it[2]
        BY <1>1, <4>1
      <4>3. {it[j].name : j \in 2..Len(it)} = {it[2].name}
        BY <4>1
      <4>4. SettingOf(it).values = {it[2].name}
        BY <3>1, <4>3 DEF SettingOf
      <4>5. Bound(e, c, 1) <=> c[2].name \in UpdateCheck
        BY <2>3, <3>2, <3>3, <4>1 DEF Bound
      <4>6. {it[2].name} \cap UpdateCheck # {} <=> it[2].name \in UpdateCheck
        BY Zenon
      <4> QED  BY <2>1, <2>3, <3>3, <4>2, <4>4, <4>5, <4>6 DEF IsBinding
    <3>4. CASE n # "-c"
      BY <2>1, <2>3, <3>2, <3>4 DEF Bound, IsBinding
    <3> QED  BY <3>3, <3>4
  <2> QED  BY <2>2, <2>3
<1>9. \A j \in 2..Len(it) : BindingSpan(e, c, j) = 1 /\ ~Bound(e, c, j)
  <2> SUFFICES ASSUME NEW j \in 2..Len(it) PROVE BindingSpan(e, c, j) = 1 /\ ~Bound(e, c, j)
    OBVIOUS
  <2>1. c[j].is = "word"
    BY <1>6
  <2> HIDE DEF c
  <2>2. ~Known(e, c[j], {"--add-dir", "--log-file"}) /\ c[j] # Flag("-c") /\ c[j] # Flag("-i")
    BY <2>1 DEF Known, Flag
  <2> QED  BY <2>2 DEF BindingSpan, Bound
<1>10. CASE Bound(e, c, 1)
  <2>1. BindingSpan(e, c, 1) = IF HasValue(e, c[1]) THEN 1 ELSE 2
    BY <1>10 DEF BindingSpan
  <2>2. HasValue(e, c[1]) <=> t.inline # None
    BY <1>1, <1>2 DEF HasValue
  <2>3. (n \in {"--add-dir", "--log-file"} /\ e = "agy") \/ n = "-c"
    BY <1>8, <1>10 DEF IsBinding, SettingOf
  <2>4. BindingSpan(e, c, 1) = Len(it)
    <3> HIDE DEF c, t, n
    <3> QED  BY <1>2, <1>3, <1>4, <2>1, <2>2, <2>3
  <2> QED  BY <1>8, <2>4
<1>11. CASE ~Bound(e, c, 1)
  <2>1. CASE e = "agy" /\ c[1] = Flag("-i")
    <3>1. n = "-i" /\ t.inline = None
      BY <1>1, <2>1 DEF Flag
    <3>2. BindingSpan(e, c, 1) = 2
      BY <1>11, <2>1 DEF BindingSpan
    <3> QED  BY <1>3, <1>4, <1>8, <3>1, <3>2
  <2>2. CASE ~(e = "agy" /\ c[1] = Flag("-i"))
    <3>1. BindingSpan(e, c, 1) = 1
      BY <1>11, <2>2 DEF BindingSpan
    <3>2. \A i \in 1..Len(it) : i = 1 \/ i \in 2..Len(it)
      BY <1>1
    <3> HIDE DEF c
    <3>3. \A i \in 1..Len(it) : BindingSpan(e, c, i) = 1 /\ ~Bound(e, c, i)
      BY <1>9, <1>11, <3>1, <3>2
    <3> QED  BY <1>8, <3>3 DEF c
  <2> QED  BY <2>1, <2>2
<1> QED  BY <1>10, <1>11
----------------------------------------------------------------------------
(* Reading two commands one after the other.                                *)

NoControl(x) == \A i \in 1..Len(x) : x[i].is # "control"

LEMMA TokenKinds ==
  \A t \in Token : t.is \in {"flag", "word", "control"}
BY DEF Token

LEMMA BeforeShellIs ==
  ASSUME NEW x \in Seq(Token), NoControl(x)
  PROVE  BeforeShell(x) = x
<1>1. {i \in DOMAIN x : x[i].is = "control"} = {}
  BY DEF NoControl
<1> QED  BY <1>1 DEF BeforeShell

LEMMA OwnsInFirst ==
  ASSUME NEW e, NEW x \in Seq(Token), NEW y \in Seq(Token), NEW i \in 1..Len(x), NEW j \in 1..(Len(x) + 1)
  PROVE  Owns(e, x \o y, i, j) <=> Owns(e, x, i, j)
<1> DEFINE c == x \o y
           m == Len(x)
<1>1. m \in Nat /\ \A k \in 1..m : c[k] = x[k]
  BY JoinIs
<1>2. i \in 1..m /\ j \in 1..(m + 1)
  OBVIOUS
<1> HIDE DEF c, m
<1>3. \A k \in (i + 1)..(j - 1) : k \in 1..m
  BY <1>1, <1>2
<1>4. c[i] = x[i] /\ \A k \in (i + 1)..(j - 1) : c[k] = x[k]
  BY <1>1, <1>2, <1>3
<1>5. Owns(e, c, i, j) <=> Owns(e, x, i, j)
  BY <1>4 DEF Owns
<1> QED  BY <1>5 DEF c

LEMMA OwnsInSecond ==
  ASSUME NEW e, NEW x \in Seq(Token), NEW y \in Seq(Token), NEW i \in 1..Len(y), NEW j \in 1..(Len(y) + 1)
  PROVE  Owns(e, x \o y, Len(x) + i, Len(x) + j) <=> Owns(e, y, i, j)
<1> DEFINE c == x \o y
           m == Len(x)
           n == Len(y)
<1>1. /\ m \in Nat /\ n \in Nat
      /\ \A k \in 1..n : c[m + k] = y[k]
  BY JoinIs
<1>2. i \in 1..n /\ j \in 1..(n + 1)
  OBVIOUS
<1> HIDE DEF c, m, n
<1> m \in Nat /\ n \in Nat /\ i \in Nat /\ j \in Nat /\ i >= 1 /\ j <= n + 1
  BY <1>1, <1>2
<1>3. \A k \in (i + 1)..(j - 1) : k \in 1..n /\ m + k \in (m + i + 1)..(m + j - 1)
  OBVIOUS
<1>4. \A k \in (m + i + 1)..(m + j - 1) : k - m \in (i + 1)..(j - 1) /\ m + (k - m) = k
  OBVIOUS
<1>5. c[m + i] = y[i] /\ (m + j = m + i + 1 <=> j = i + 1)
  BY <1>1, <1>2
<1>6. (\A k \in (m + i + 1)..(m + j - 1) : c[k].is # "flag") <=> (\A k \in (i + 1)..(j - 1) : y[k].is # "flag")
  <2>1. ASSUME \A k \in (m + i + 1)..(m + j - 1) : c[k].is # "flag", NEW k \in (i + 1)..(j - 1)
        PROVE  y[k].is # "flag"
    <3>1. k \in 1..n /\ m + k \in (m + i + 1)..(m + j - 1)
      BY <1>3
    <3> QED  BY <1>1, <2>1, <3>1
  <2>2. ASSUME \A k \in (i + 1)..(j - 1) : y[k].is # "flag", NEW k \in (m + i + 1)..(m + j - 1)
        PROVE  c[k].is # "flag"
    <3>1. k - m \in (i + 1)..(j - 1) /\ m + (k - m) = k
      BY <1>4
    <3>2. k - m \in 1..n
      BY <1>3, <3>1
    <3>3. c[k] = y[k - m]
      BY <1>1, <3>1, <3>2
    <3> QED  BY <2>2, <3>1, <3>3
  <2> QED  BY <2>1, <2>2
<1>7. Owns(e, c, m + i, m + j) <=> Owns(e, y, i, j)
  <2>1. Owns(e, c, m + i, m + j) <=>
          /\ y[i].is = "flag" /\ y[i].inline = None /\ \A k \in (m + i + 1)..(m + j - 1) : c[k].is # "flag"
          /\ \/ Arity(e, y[i].name) = "many"
             \/ Arity(e, y[i].name) \in {"one", "maybe"} /\ j = i + 1
    BY <1>5 DEF Owns
  <2> QED  BY <1>6, <2>1 DEF Owns
<1> QED  BY <1>7 DEF c, m

LEMMA OwnsAcross ==
  ASSUME NEW e, NEW x \in Seq(Token), NEW y \in Seq(Token), NoControl(y), Cut(e, x, y),
         NEW i \in 1..Len(x), NEW j \in 1..Len(y), y[j].is = "word"
  PROVE  ~Owns(e, x \o y, i, Len(x) + j)
<1> DEFINE c == x \o y
           m == Len(x)
           n == Len(y)
<1>1. /\ m \in Nat /\ n \in Nat /\ (\A k \in 1..m : c[k] = x[k])
      /\ \A k \in 1..n : c[m + k] = y[k]
  BY JoinIs
<1>2. i \in 1..m /\ j \in 1..n /\ y # <<>> /\ 1 \in 1..n
  OBVIOUS
<1>3. CASE y[1].is # "word"
  <2>1. y[1] \in Token
    BY <1>2
  <2>2. y[1].is = "flag"
    BY <1>2, <1>3, <2>1, TokenKinds DEF NoControl
  <2> HIDE DEF c, m, n
  <2>3. j # 1
    BY <1>3
  <2>4. m + 1 \in (i + 1)..(m + j - 1)
    BY <1>1, <1>2, <2>3
  <2>5. c[m + 1] = y[1]
    BY <1>1, <1>2
  <2> QED  BY <2>2, <2>4, <2>5 DEF Owns, c, m
<1>4. CASE Closed(e, x)
  <2> SUFFICES ASSUME Owns(e, c, i, m + j) PROVE FALSE
    OBVIOUS
  <2>1. ~Owns(e, x, i, m + 1)
    BY <1>4 DEF Closed
  <2> HIDE DEF c, m, n
  <2> m \in Nat /\ n \in Nat /\ i \in Nat /\ j \in Nat /\ i >= 1 /\ j >= 1 /\ i <= m
    BY <1>1, <1>2
  <2>2. \A k \in (i + 1)..(m + 1 - 1) : k \in 1..m /\ k \in (i + 1)..(m + j - 1)
    OBVIOUS
  <2>3. \A k \in (i + 1)..(m + 1 - 1) : x[k].is # "flag"
    <3>1. \A k \in (i + 1)..(m + j - 1) : c[k].is # "flag"
      BY DEF Owns
    <3>2. \A k \in 1..m : c[k] = x[k]
      BY <1>1
    <3> QED  BY <2>2, <3>1, <3>2, Zenon
  <2>4. c[i] = x[i] /\ (m + j = i + 1 => m + 1 = i + 1)
    BY <1>1, <1>2
  <2> QED  BY <2>1, <2>3, <2>4 DEF Owns
<1> QED  BY <1>2, <1>3, <1>4 DEF Cut

LEMMA PositionsJoin ==
  ASSUME NEW x \in Seq(Token), NEW y \in Seq(Token), NEW is
  PROVE  Positions(x \o y, is) = Positions(x, is) \cup {Len(x) + j : j \in Positions(y, is)}
<1> DEFINE c == x \o y
           m == Len(x)
           n == Len(y)
<1>1. /\ m \in Nat /\ n \in Nat /\ (\A k \in 1..m : c[k] = x[k])
      /\ \A k \in 1..n : c[m + k] = y[k]
  BY JoinIs
<1>2. DOMAIN c = 1..(m + n) /\ DOMAIN x = 1..m /\ DOMAIN y = 1..n
  BY JoinIs
<1>3. \A k \in 1..(m + n) : k \in 1..m \/ (k - m \in 1..n /\ k = m + (k - m))
  BY <1>1
<1>4. (\A k \in 1..m : k \in 1..(m + n)) /\ \A k \in 1..n : m + k \in 1..(m + n)
  BY <1>1
<1> HIDE DEF c, m, n
<1>5. ASSUME NEW k \in Positions(c, is) PROVE k \in Positions(x, is) \cup {m + j : j \in Positions(y, is)}
  <2>1. k \in 1..(m + n) /\ c[k].is = is
    BY <1>2 DEF Positions
  <2>2. CASE k \in 1..m
    BY <1>1, <1>2, <2>1, <2>2 DEF Positions
  <2>3. CASE k - m \in 1..n /\ k = m + (k - m)
    <3>1. k - m \in Positions(y, is)
      BY <1>1, <1>2, <2>1, <2>3 DEF Positions
    <3> QED  BY <2>3, <3>1
  <2> QED  BY <1>3, <2>1, <2>2, <2>3
<1>6. ASSUME NEW k \in Positions(x, is) PROVE k \in Positions(c, is)
  BY <1>1, <1>2, <1>4 DEF Positions
<1>7. ASSUME NEW k \in Positions(y, is) PROVE m + k \in Positions(c, is)
  BY <1>1, <1>2, <1>4 DEF Positions
<1>8. Positions(c, is) = Positions(x, is) \cup {m + j : j \in Positions(y, is)}
  BY <1>5, <1>6, <1>7
<1> QED  BY <1>8 DEF c, m
ReadsBoth(e, x, y) ==
    /\ NoControl(x \o y)
    /\ Settings(e, x \o y) = Settings(e, x) \cup Settings(e, y)
    /\ Positionals(e, x \o y) = Positionals(e, x) \cup {Len(x) + j : j \in Positionals(e, y)}

LEMMA SettingsJoin ==
  ASSUME NEW e, NEW x \in Seq(Token), NEW y \in Seq(Token), NoControl(x), NoControl(y), Cut(e, x, y)
  PROVE  ReadsBoth(e, x, y)
<1> DEFINE c == x \o y
           m == Len(x)
           n == Len(y)
<1>1. /\ m \in Nat /\ n \in Nat /\ (\A k \in 1..m : c[k] = x[k])
      /\ \A k \in 1..n : c[m + k] = y[k]
  BY JoinIs
<1>2. c \in Seq(Token) /\ DOMAIN c = 1..(m + n) /\ Len(c) = m + n /\ DOMAIN x = 1..m /\ DOMAIN y = 1..n
  BY JoinIs
<1>3. \A k \in 1..(m + n) : k \in 1..m \/ (k - m \in 1..n /\ k = m + (k - m))
  BY <1>1
<1>4. NoControl(c)
  <2>1. (\A k \in 1..m : x[k].is # "control") /\ \A k \in 1..n : y[k].is # "control"
    BY DEF NoControl
  <2> HIDE DEF c, m, n
  <2> SUFFICES ASSUME NEW k \in 1..(m + n) PROVE c[k].is # "control"
    BY <1>2 DEF NoControl
  <2>2. CASE k \in 1..m
    BY <1>1, <2>1, <2>2
  <2>3. CASE k - m \in 1..n /\ k = m + (k - m)
    <3>1. c[k] = y[k - m]
      BY <1>1, <2>3
    <3> QED  BY <2>1, <2>3, <3>1
  <2> QED  BY <1>3, <2>2, <2>3
<1>5. BeforeShell(c) = c /\ BeforeShell(x) = x /\ BeforeShell(y) = y
  BY <1>2, <1>4, BeforeShellIs
<1>6. /\ \A is : Positions(c, is) = Positions(x, is) \cup {m + j : j \in Positions(y, is)}
      /\ \A is : Positions(x, is) \subseteq 1..m /\ Positions(y, is) \subseteq 1..n
  <2>1. \A is : Positions(c, is) = Positions(x, is) \cup {m + j : j \in Positions(y, is)}
    BY PositionsJoin
  <2>2. \A is : Positions(x, is) \subseteq 1..m /\ Positions(y, is) \subseteq 1..n
    BY <1>2 DEF Positions
  <2> QED  BY <2>1, <2>2
<1>7. \A i \in 1..m, j \in 1..m : Owns(e, c, i, j) <=> Owns(e, x, i, j)
  BY <1>1, OwnsInFirst
<1>8. \A i \in 1..n, j \in 1..n : Owns(e, c, m + i, m + j) <=> Owns(e, y, i, j)
  <2>1. \A j \in 1..n : j \in 1..(Len(y) + 1)
    BY <1>1
  <2> SUFFICES ASSUME NEW i \in 1..n, NEW j \in 1..n
               PROVE  Owns(e, c, m + i, m + j) <=> Owns(e, y, i, j)
    OBVIOUS
  <2>2. j \in 1..(Len(y) + 1) /\ i \in 1..Len(y)
    BY <2>1
  <2> QED  BY <2>2, OwnsInSecond
<1>9. \A i \in 1..m, j \in Positions(y, "word") : ~Owns(e, c, i, m + j)
  BY <1>2, OwnsAcross DEF Positions
<1> HIDE DEF c, m, n
<1> USE DEF Owned
<1>10. ASSUME NEW i \in 1..m PROVE Setting(e, c, i) = Setting(e, x, i)
  <2>1. Owned(e, c, i) = Owned(e, x, i)
    <3>1. ASSUME NEW j \in Owned(e, c, i) PROVE j \in Owned(e, x, i)
      <4>1. j \in Positions(c, "word") /\ i < j /\ Owns(e, c, i, j)
        OBVIOUS
      <4>2. j \in Positions(x, "word")
        BY <1>6, <1>9, <4>1
      <4>3. j \in 1..m
        BY <1>6, <4>2
      <4> QED  BY <1>7, <4>1, <4>2, <4>3
    <3>2. ASSUME NEW j \in Owned(e, x, i) PROVE j \in Owned(e, c, i)
      <4>1. j \in Positions(x, "word") /\ i < j /\ Owns(e, x, i, j)
        OBVIOUS
      <4>2. j \in Positions(c, "word") /\ j \in 1..m
        BY <1>6, <4>1
      <4> QED  BY <1>7, <4>1, <4>2
    <3> QED  BY <3>1, <3>2
  <2>2. \A j \in Owned(e, x, i) : c[j] = x[j]
    <3>1. \A j \in Owned(e, x, i) : j \in 1..m
      BY <1>6
    <3> QED  BY <1>1, <3>1
  <2>3. c[i] = x[i]
    BY <1>1
  <2>4. {c[j].name : j \in Owned(e, c, i)} = {x[j].name : j \in Owned(e, x, i)}
    <3> HIDE DEF Owned
    <3> QED  BY <2>1, <2>2
  <2> QED  BY <2>3, <2>4 DEF Setting
<1>11. ASSUME NEW i \in 1..n PROVE Setting(e, c, m + i) = Setting(e, y, i)
  <2>1. ASSUME NEW j \in Owned(e, c, m + i) PROVE \E k \in Owned(e, y, i) : j = m + k
    <3>1. j \in Positions(c, "word") /\ m + i < j /\ Owns(e, c, m + i, j)
      OBVIOUS
    <3>2. ~(j \in 1..m)
      BY <1>1, <3>1
    <3>3. PICK k \in Positions(y, "word") : j = m + k
      BY <1>6, <3>1, <3>2
    <3>4. k \in 1..n
      BY <1>6
    <3>5. Owns(e, y, i, k)
      BY <1>8, <3>1, <3>3, <3>4
    <3>6. i < k
      BY <1>1, <3>1, <3>3, <3>4
    <3> QED  BY <3>3, <3>5, <3>6
  <2>2. ASSUME NEW k \in Owned(e, y, i) PROVE m + k \in Owned(e, c, m + i)
    <3>1. k \in Positions(y, "word") /\ i < k /\ Owns(e, y, i, k) /\ k \in 1..n
      BY <1>6
    <3>2. m + k \in Positions(c, "word")
      BY <1>6, <3>1
    <3>3. m + i < m + k
      BY <1>1, <3>1
    <3>4. Owns(e, c, m + i, m + k)
      BY <1>8, <3>1
    <3> QED  BY <3>2, <3>3, <3>4
  <2>3. \A k \in Owned(e, y, i) : c[m + k] = y[k]
    <3>1. \A k \in Owned(e, y, i) : k \in 1..n
      BY <1>6
    <3> QED  BY <1>1, <3>1
  <2>4. c[m + i] = y[i]
    BY <1>1
  <2>5. {c[j].name : j \in Owned(e, c, m + i)} = {y[j].name : j \in Owned(e, y, i)}
    <3> HIDE DEF Owned
    <3>1. ASSUME NEW j \in Owned(e, c, m + i) PROVE \E k \in Owned(e, y, i) : c[j].name = y[k].name
      BY <2>1, <2>3
    <3>2. ASSUME NEW k \in Owned(e, y, i) PROVE \E j \in Owned(e, c, m + i) : c[j].name = y[k].name
      BY <2>2, <2>3
    <3> QED  BY <3>1, <3>2
  <2> QED  BY <2>4, <2>5 DEF Setting
<1>12. Settings(e, c) = Settings(e, x) \cup Settings(e, y)
  <2>1. /\ Settings(e, c) = {Setting(e, c, i) : i \in Positions(c, "flag")}
        /\ Settings(e, x) = {Setting(e, x, i) : i \in Positions(x, "flag")}
        /\ Settings(e, y) = {Setting(e, y, i) : i \in Positions(y, "flag")}
    BY <1>5 DEF Settings
  <2>2. ASSUME NEW i \in Positions(c, "flag")
        PROVE  Setting(e, c, i) \in Settings(e, x) \cup Settings(e, y)
    <3>1. CASE i \in Positions(x, "flag")
      <4>1. i \in 1..m
        BY <1>6, <3>1
      <4> QED  BY <1>10, <2>1, <3>1, <4>1
    <3>2. CASE \E j \in Positions(y, "flag") : i = m + j
      <4>1. PICK j \in Positions(y, "flag") : i = m + j
        BY <3>2
      <4>2. j \in 1..n
        BY <1>6
      <4> QED  BY <1>11, <2>1, <4>1, <4>2
    <3> QED  BY <1>6, <3>1, <3>2
  <2>3. ASSUME NEW i \in Positions(x, "flag") PROVE Setting(e, x, i) \in Settings(e, c)
    <3>1. i \in 1..m /\ i \in Positions(c, "flag")
      BY <1>6
    <3> QED  BY <1>10, <2>1, <3>1
  <2>4. ASSUME NEW i \in Positions(y, "flag") PROVE Setting(e, y, i) \in Settings(e, c)
    <3>1. i \in 1..n /\ m + i \in Positions(c, "flag")
      BY <1>6
    <3>2. Setting(e, c, m + i) \in Settings(e, c)
      BY <2>1, <3>1
    <3> QED  BY <1>11, <3>1, <3>2
  <2> QED  BY <2>1, <2>2, <2>3, <2>4
<1> HIDE DEF Owned
<1> DEFINE Free(d, j) == \A i \in 1..(j - 1) : ~Owns(e, d, i, j)
<1>13. Positionals(e, c) = Positionals(e, x) \cup {m + j : j \in Positionals(e, y)}
  <2>1. /\ Positionals(e, c) = {j \in Positions(c, "word") : Free(c, j)}
        /\ Positionals(e, x) = {j \in Positions(x, "word") : Free(x, j)}
        /\ Positionals(e, y) = {j \in Positions(y, "word") : Free(y, j)}
    BY <1>5 DEF Positionals
  <2>2. ASSUME NEW j \in Positions(x, "word") PROVE Free(c, j) <=> Free(x, j)
    <3>1. j \in 1..m
      BY <1>6
    <3>2. \A i \in 1..(j - 1) : i \in 1..m
      BY <1>1, <3>1
    <3> QED  BY <1>7, <3>1, <3>2
  <2>3. ASSUME NEW j \in Positions(y, "word") PROVE Free(c, m + j) <=> Free(y, j)
    <3>1. j \in 1..n
      BY <1>6
    <3>2. \A i \in 1..((m + j) - 1) : i \in 1..m \/ (i - m \in 1..(j - 1) /\ i = m + (i - m))
      BY <1>1, <3>1
    <3>3. \A i \in 1..(j - 1) : i \in 1..n /\ m + i \in 1..((m + j) - 1)
      BY <1>1, <3>1
    <3>4. ASSUME Free(c, m + j), NEW i \in 1..(j - 1) PROVE ~Owns(e, y, i, j)
      BY <1>8, <3>1, <3>3, <3>4
    <3>5. ASSUME Free(y, j), NEW i \in 1..((m + j) - 1) PROVE ~Owns(e, c, i, m + j)
      <4>1. CASE i \in 1..m
        BY <1>9, <4>1
      <4>2. CASE i - m \in 1..(j - 1) /\ i = m + (i - m)
        <5>1. i - m \in 1..n
          BY <3>3, <4>2
        <5>2. ~Owns(e, c, m + (i - m), m + j)
          BY <1>8, <3>1, <3>5, <4>2, <5>1
        <5> QED  BY <4>2, <5>2
      <4> QED  BY <3>2, <4>1, <4>2
    <3> QED  BY <3>4, <3>5
  <2> HIDE DEF Free
  <2>4. ASSUME NEW j \in Positionals(e, c) PROVE j \in Positionals(e, x) \cup {m + k : k \in Positionals(e, y)}
    <3>1. j \in Positions(c, "word") /\ Free(c, j)
      BY <2>1
    <3>2. CASE j \in Positions(x, "word")
      BY <2>1, <2>2, <3>1, <3>2
    <3>3. CASE \E k \in Positions(y, "word") : j = m + k
      BY <2>1, <2>3, <3>1, <3>3
    <3> QED  BY <1>6, <3>1, <3>2, <3>3
  <2>5. ASSUME NEW j \in Positionals(e, x) PROVE j \in Positionals(e, c)
    BY <1>6, <2>1, <2>2
  <2>6. ASSUME NEW k \in Positionals(e, y) PROVE m + k \in Positionals(e, c)
    BY <1>6, <2>1, <2>3
  <2> QED  BY <2>4, <2>5, <2>6
<1> QED  BY <1>4, <1>12, <1>13 DEF ReadsBoth, c, m
----------------------------------------------------------------------------
(* What an agent reads in an item.                                          *)

AllSettings == [flag : FlagNames, values : SUBSET Values]

LEMMA NamesAreFlags ==
  ASSUME NEW e \in Known3
  PROVE  Names(e) \subseteq FlagNames
<1>1. CASE e = "claude"
  BY <1>1 DEF Names, FlagNames
<1>2. CASE e = "codex"
  BY <1>2 DEF Names, FlagNames
<1>3. CASE e = "agy"
  BY <1>3 DEF Names, FlagNames
<1> QED  BY <1>1, <1>2, <1>3 DEF Known3

LEMMA ItemReads ==
  ASSUME NEW e \in Known3, NEW it \in Items(e)
  PROVE  /\ NoControl(it) /\ Positionals(e, it) = {} /\ Settings(e, it) = {SettingOf(it)}
         /\ SettingOf(it) \in AllSettings
<1> DEFINE n == Len(it)
<1>1. /\ it \in Seq(Token) /\ n \in Nat /\ n >= 1 /\ it[1].is = "flag" /\ it[1].name \in Names(e) /\ it[1] \in Token
      /\ \A j \in 2..n : it[j] \in WordTokens
      /\ Fits(e, it)
  BY EmptySeq, ItemIs
<1>2. \A j \in 2..n : it[j].is = "word" /\ it[j].name \in Values
  BY <1>1, WordTokensAre
<1>3. DOMAIN it = 1..n /\ \A j \in 1..n : j = 1 \/ j \in 2..n
  BY <1>1
<1>4. \A j \in 2..n : j \in 1..n /\ 1 < j /\ 1 \in 1..(j - 1)
  BY <1>1
<1>5. 1 \in 1..n
  BY <1>1
<1>6. NoControl(it)
  BY <1>1, <1>2, <1>3 DEF NoControl
<1>7. BeforeShell(it) = it
  BY <1>1, <1>6, BeforeShellIs
<1>8. Positions(it, "flag") = {1} /\ Positions(it, "word") = 2..n
  BY <1>1, <1>2, <1>3, <1>4, <1>5 DEF Positions
<1>9. ASSUME NEW j \in 2..n PROVE Owns(e, it, 1, j)
  <2>1. it[1].inline = None
    BY <1>1, <1>9 DEF Fits
  <2>2. Arity(e, it[1].name) = "many" \/ (Arity(e, it[1].name) \in {"one", "maybe"} /\ n = 2)
    <3>1. Arity(e, it[1].name) \in {"none", "one", "maybe", "many"}
      BY ArityIs
    <3>2. n >= 2
      BY <1>1
    <3> QED  BY <1>1, <2>1, <3>1, <3>2 DEF Fits
  <2>3. \A k \in (1 + 1)..(j - 1) : it[k].is # "flag"
    <3>1. \A k \in (1 + 1)..(j - 1) : k \in 2..n
      BY <1>1
    <3> QED  BY <1>2, <3>1
  <2>4. n = 2 => j = 1 + 1
    OBVIOUS
  <2> QED  BY <1>1, <2>1, <2>2, <2>3, <2>4 DEF Owns
<1>10. Owned(e, it, 1) = 2..n
  BY <1>4, <1>8, <1>9 DEF Owned
<1>11. Setting(e, it, 1) = SettingOf(it)
  BY <1>10 DEF Setting, SettingOf
<1>12. Settings(e, it) = {SettingOf(it)}
  BY <1>7, <1>8, <1>11 DEF Settings
<1>13. Positionals(e, it) = {}
  BY <1>4, <1>7, <1>8, <1>9 DEF Positionals
<1>14. SettingOf(it) \in AllSettings
  <2>1. it[1].name \in FlagNames
    BY <1>1, NamesAreFlags
  <2>2. {it[j].name : j \in 2..n} \subseteq Values
    BY <1>2
  <2>3. it[1].inline \in Values \cup {None}
    <3> HIDE DEF Values
    <3> QED  BY <1>1 DEF Token
  <2> HIDE DEF Values, FlagNames
  <2> QED  BY <2>1, <2>2, <2>3 DEF SettingOf, AllSettings
<1> QED  BY <1>6, <1>12, <1>13, <1>14

\* A word after an item either stands on its own or is the item's too.
LEMMA ItemTakes ==
  ASSUME NEW e \in Known3, NEW it \in Items(e), NEW v \in Values, ~Closed(e, it)
  PROVE  it \o <<Word(v)>> \in Items(e)
<1> DEFINE w == <<Word(v)>>
           c == it \o w
           n == Len(it)
<1>1. Word(v) \in WordTokens /\ Word(v) \in Token
  BY TokensAre DEF WordTokens
<1>2. w \in Seq(Token) /\ Len(w) = 1 /\ w[1] = Word(v)
  BY <1>1
<1>3. /\ it \in Seq(Token) /\ n \in Nat /\ n >= 1 /\ it[1].is = "flag" /\ it[1].name \in Names(e)
      /\ \A j \in 2..n : it[j] \in WordTokens
      /\ Fits(e, it)
  BY <1>2, ItemIs
<1> HIDE DEF w
<1>4. /\ c \in Seq(Token) /\ Len(c) = n + 1 /\ c[1] = it[1]
      /\ \A j \in 2..n : c[j] \in WordTokens
      /\ c[n + 1] \in WordTokens
  <2>1. /\ c \in Seq(Token) /\ Len(c) = n + 1
        /\ \A i \in 1..n : c[i] = it[i]
        /\ \A i \in 1..1 : c[n + i] = w[i]
    <3>1. /\ c \in Seq(Token) /\ Len(c) = n + Len(w)
          /\ \A i \in 1..n : c[i] = it[i]
          /\ \A i \in 1..Len(w) : c[n + i] = w[i]
      BY <1>2, <1>3, JoinIs
    <3> HIDE DEF c, n
    <3> QED  BY <1>2, <3>1
  <2>2. 1 \in 1..n /\ (\A j \in 2..n : j \in 1..n) /\ 1 \in 1..1
    BY <1>3
  <2> HIDE DEF c, n
  <2> QED  BY <1>1, <1>2, <1>3, <2>1, <2>2
<1>5. PICK i \in 1..n : Owns(e, it, i, n + 1)
  BY DEF Closed
<1>6. i = 1
  <2>1. i = 1 \/ i \in 2..n
    BY <1>3
  <2>2. it[i].is = "flag"
    BY <1>5 DEF Owns
  <2> QED  BY <1>3, <2>1, <2>2, WordTokensAre
<1>7. /\ it[1].inline = None
      /\ \/ Arity(e, it[1].name) = "many"
         \/ Arity(e, it[1].name) \in {"one", "maybe"} /\ n = 1
  <2>1. Owns(e, it, 1, n + 1)
    BY <1>5, <1>6
  <2>2. /\ it[1].inline = None
        /\ \/ Arity(e, it[1].name) = "many"
           \/ Arity(e, it[1].name) \in {"one", "maybe"} /\ n + 1 = 1 + 1
    BY <2>1, Zenon DEF Owns
  <2>3. n + 1 = 1 + 1 => n = 1
    <3>1. n \in Nat
      BY <1>3
    <3> HIDE DEF n
    <3> QED  BY <3>1
  <2> QED  BY <2>2, <2>3
<1>8. Arity(e, it[1].name) = "many" \/ (Arity(e, it[1].name) = "maybe" /\ n = 1)
  <2>1. Arity(e, it[1].name) = "one" => n = 2
    BY <1>3, <1>7, Zenon DEF Fits
  <2>2. ~(n = 1 /\ n = 2)
    OBVIOUS
  <2> QED  BY <1>7, <2>1, <2>2
<1> HIDE DEF c, n
<1>9. Fits(e, c)
  BY <1>4, <1>7, <1>8 DEF Fits
<1>10. \A j \in 2..(n + 1) : c[j] \in WordTokens
  <2>1. \A j \in 2..(n + 1) : j \in 2..n \/ j = n + 1
    BY <1>3
  <2> QED  BY <1>4, <2>1
<1>11. n + 1 >= 1
  BY <1>3
<1> QED  BY <1>3, <1>4, <1>9, <1>10, <1>11 DEF Items, c, w

----------------------------------------------------------------------------
(* Commands built of items: the least set with the empty command and, with  *)
(* a command, the command after any item.                                   *)

Grows(e, X) == <<>> \in X /\ \A it \in Items(e), y \in X : it \o y \in X

Built(e) == {b \in Seq(Token) : \A X \in SUBSET Seq(Token) : Grows(e, X) => b \in X}

LEMMA BuiltGrows ==
  ASSUME NEW e
  PROVE  Grows(e, Built(e)) /\ Built(e) \subseteq Seq(Token)
<1>1. <<>> \in Seq(Token)
  OBVIOUS
<1>2. <<>> \in Built(e)
  BY <1>1, Zenon DEF Built, Grows
<1>3. ASSUME NEW it \in Items(e), NEW y \in Built(e) PROVE it \o y \in Built(e)
  <2>1. y \in Seq(Token) /\ \A X \in SUBSET Seq(Token) : Grows(e, X) => y \in X
    BY Zenon DEF Built
  <2>2. it \o y \in Seq(Token)
    BY <2>1, ItemIs
  <2>3. ASSUME NEW X \in SUBSET Seq(Token), Grows(e, X) PROVE it \o y \in X
    BY <2>1, <2>3, Zenon DEF Grows
  <2> QED  BY <2>2, <2>3, Zenon DEF Built
<1>4. Built(e) \subseteq Seq(Token)
  BY Zenon DEF Built
<1> QED  BY <1>2, <1>3, <1>4, Zenon DEF Grows

LEMMA BuiltInduction ==
  ASSUME NEW e, NEW X, <<>> \in X, \A it \in Items(e), y \in Built(e) : y \in X => it \o y \in X
  PROVE  \A b \in Built(e) : b \in X
<1> DEFINE Y == Built(e) \cap X
<1>1. Grows(e, Built(e)) /\ Built(e) \subseteq Seq(Token)
  BY BuiltGrows
<1>2. Grows(e, Y)
  BY <1>1, Zenon DEF Grows
<1>3. Y \in SUBSET Seq(Token)
  BY <1>1, Zenon
<1> HIDE DEF Y
<1>4. \A b \in Built(e) : b \in Y
  BY <1>2, <1>3, Zenon DEF Built
<1> QED  BY <1>4, Zenon DEF Y
LEMMA NothingReads ==
  ASSUME NEW e
  PROVE  /\ <<>> \in Seq(Token) /\ NoControl(<<>>) /\ Settings(e, <<>>) = {} /\ Positionals(e, <<>>) = {}
         /\ Closed(e, <<>>)
<1>1. <<>> \in Seq(Token) /\ Len(<<>>) = 0 /\ DOMAIN <<>> = {}
  OBVIOUS
<1>2. NoControl(<<>>)
  BY <1>1 DEF NoControl
<1>3. BeforeShell(<<>>) = <<>>
  BY <1>1, <1>2, BeforeShellIs
<1>4. \A is : Positions(<<>>, is) = {}
  BY <1>1 DEF Positions
<1>5. Settings(e, <<>>) = {} /\ Positionals(e, <<>>) = {}
  BY <1>3, <1>4 DEF Settings, Positionals
<1>6. Closed(e, <<>>)
  BY <1>1 DEF Closed
<1> QED  BY <1>1, <1>2, <1>5, <1>6

\* The settings of items.
SettingsOf(e) == {SettingOf(it) : it \in Items(e)}

LEMMA BuiltIs ==
  ASSUME NEW e \in Known3, NEW b \in Built(e)
  PROVE  /\ b \in Seq(Token) /\ (b = <<>> \/ b[1].is = "flag") /\ NoControl(b)
         /\ Positionals(e, b) = {} /\ Settings(e, b) \subseteq SettingsOf(e)
<1> DEFINE X == {x \in Seq(Token) : /\ x = <<>> \/ x[1].is = "flag"
                                    /\ NoControl(x) /\ Positionals(e, x) = {} /\ Settings(e, x) \subseteq SettingsOf(e)}
<1>1. <<>> \in X
  <2>1. Settings(e, <<>>) \subseteq SettingsOf(e)
    BY NothingReads
  <2> QED  BY <2>1, NothingReads, Zenon
<1>2. ASSUME NEW it \in Items(e), NEW y \in Built(e), y \in X PROVE it \o y \in X
  <2>1. y \in Seq(Token) /\ NoControl(y) /\ Positionals(e, y) = {} /\ Settings(e, y) \subseteq SettingsOf(e)
    BY <1>2
  <2>2. Cut(e, it, y)
    BY <1>2 DEF Cut
  <2>3. /\ it \o y \in Seq(Token) /\ (it \o y)[1] = it[1] /\ it[1].is = "flag" /\ it \in Seq(Token)
    BY <2>1, ItemIs
  <2>4. NoControl(it) /\ Positionals(e, it) = {} /\ Settings(e, it) = {SettingOf(it)}
    BY ItemReads
  <2>5. /\ NoControl(it \o y)
        /\ Settings(e, it \o y) = Settings(e, it) \cup Settings(e, y)
        /\ Positionals(e, it \o y) = Positionals(e, it) \cup {Len(it) + j : j \in Positionals(e, y)}
    <3>1. ReadsBoth(e, it, y)
      BY <2>1, <2>2, <2>3, <2>4, SettingsJoin, Zenon
    <3> QED  BY <3>1, Zenon DEF ReadsBoth
  <2>6. Positionals(e, it \o y) = {}
    BY <2>1, <2>4, <2>5
  <2>7. Settings(e, it \o y) \subseteq SettingsOf(e)
    BY <2>1, <2>4, <2>5 DEF SettingsOf
  <2>8. (it \o y)[1].is = "flag"
    BY <2>3
  <2> QED  BY <2>3, <2>5, <2>6, <2>7, <2>8, Zenon
<1> HIDE DEF X
<1>3. b \in X
  BY <1>1, <1>2, BuiltInduction
<1> QED  BY <1>3, Zenon DEF X

LEMMA SettingsAre ==
  ASSUME NEW e \in Known3, NEW s \in SettingsOf(e)
  PROVE  s \in AllSettings /\ s.flag \in Names(e)
<1>1. PICK it \in Items(e) : s = SettingOf(it)
  BY DEF SettingsOf
<1>2. s.flag = it[1].name
  BY <1>1 DEF SettingOf
<1>3. it[1].name \in Names(e)
  BY Zenon DEF Items
<1> QED  BY <1>1, <1>2, <1>3, ItemReads

LEMMA ItemsAreBuilt ==
  ASSUME NEW e, NEW it \in Items(e)
  PROVE  it \in Built(e)
<1>1. it \o <<>> \in Built(e)
  BY BuiltGrows, Zenon DEF Grows
<1>2. it \in Seq(Token)
  BY Zenon DEF Items
<1>3. it \o <<>> = it
  BY <1>2, ConcatEmptySeq
<1> QED  BY <1>1, <1>3

LEMMA BuiltJoins ==
  ASSUME NEW e \in Known3, NEW x \in Built(e), NEW y \in Built(e)
  PROVE  x \o y \in Built(e) /\ Settings(e, x \o y) = Settings(e, x) \cup Settings(e, y)
<1> DEFINE X == {b \in Seq(Token) : b \o y \in Built(e)}
<1>1. y \in Seq(Token) /\ x \in Seq(Token)
  BY BuiltIs
<1>2. <<>> \in X
  <2>1. <<>> \o y = y /\ <<>> \in Seq(Token)
    BY <1>1, ConcatEmptySeq
  <2> QED  BY <2>1
<1>3. ASSUME NEW it \in Items(e), NEW b \in Built(e), b \in X PROVE it \o b \in X
  <2>1. b \in Seq(Token) /\ b \o y \in Built(e)
    BY <1>3
  <2>2. it \in Seq(Token) /\ it \o b \in Seq(Token)
    BY <2>1, ItemIs
  <2>3. Associates(it, b, y)
    BY <1>1, <2>1, <2>2, ConcatAssociates
  <2>4. it \o (b \o y) \in Built(e)
    BY <2>1, BuiltGrows, Zenon DEF Grows
  <2>5. (it \o b) \o y \in Built(e)
    BY <2>3, <2>4, Zenon DEF Associates
  <2> QED  BY <2>2, <2>5, Zenon
<1> HIDE DEF X
<1>4. x \in X
  BY <1>2, <1>3, BuiltInduction
<1>5. x \o y \in Built(e)
  BY <1>4, Zenon DEF X
<1>6. NoControl(x) /\ NoControl(y) /\ (y = <<>> \/ y[1].is = "flag")
  BY BuiltIs
<1>7. Cut(e, x, y)
  BY <1>6 DEF Cut
<1>8. ReadsBoth(e, x, y)
  BY <1>1, <1>6, <1>7, SettingsJoin, Zenon
<1> QED  BY <1>5, <1>8, Zenon DEF ReadsBoth

LEMMA ClosedJoins ==
  ASSUME NEW e, NEW x \in Seq(Token), NEW y \in Seq(Token), y # <<>>, y[1].is = "flag"
  PROVE  Closed(e, x \o y) <=> Closed(e, y)
<1> DEFINE c == x \o y
           m == Len(x)
           n == Len(y)
<1>1. /\ m \in Nat /\ n \in Nat
      /\ \A k \in 1..n : c[m + k] = y[k]
  BY JoinIs
<1>2. Len(c) = m + n
  BY JoinIs
<1>3. n >= 1
  <2>1. n # 0
    BY EmptySeq
  <2> QED  BY <1>1, <2>1
<1>4. n + 1 \in 1..(Len(y) + 1)
  BY <1>1
<1>5. \A i \in 1..n : Owns(e, c, m + i, m + (n + 1)) <=> Owns(e, y, i, n + 1)
  BY <1>4, OwnsInSecond
<1> HIDE DEF c, m, n
<1> m \in Nat /\ n \in Nat
  BY <1>1
<1>6. m + (n + 1) = (m + n) + 1
  OBVIOUS
<1>7. ASSUME NEW i \in 1..m PROVE ~Owns(e, c, i, (m + n) + 1)
  <2>1. m + 1 \in (i + 1)..(((m + n) + 1) - 1)
    BY <1>3
  <2>2. c[m + 1].is = "flag"
    <3>1. 1 \in 1..n
      BY <1>3
    <3> QED  BY <1>1, <3>1
  <2> QED  BY <2>1, <2>2 DEF Owns
<1>8. \A i \in 1..(m + n) : i \in 1..m \/ (i - m \in 1..n /\ i = m + (i - m))
  OBVIOUS
<1>9. \A i \in 1..n : m + i \in 1..(m + n)
  OBVIOUS
<1>10. ASSUME Closed(e, y) PROVE Closed(e, c)
  <2>1. \A i \in 1..n : ~Owns(e, y, i, n + 1)
    BY <1>10 DEF Closed, n
  <2>2. ASSUME NEW i \in 1..(m + n) PROVE ~Owns(e, c, i, (m + n) + 1)
    <3>1. CASE i \in 1..m
      BY <1>7, <3>1
    <3>2. CASE i - m \in 1..n /\ i = m + (i - m)
      <4>1. ~Owns(e, c, m + (i - m), m + (n + 1))
        BY <1>5, <2>1, <3>2
      <4> QED  BY <1>6, <3>2, <4>1
    <3> QED  BY <1>8, <3>1, <3>2
  <2> QED  BY <1>2, <2>2 DEF Closed
<1>11. ASSUME Closed(e, c) PROVE Closed(e, y)
  <2>1. \A i \in 1..(m + n) : ~Owns(e, c, i, (m + n) + 1)
    BY <1>2, <1>11 DEF Closed
  <2>2. ASSUME NEW i \in 1..n PROVE ~Owns(e, y, i, n + 1)
    <3>1. ~Owns(e, c, m + i, (m + n) + 1)
      BY <1>9, <2>1
    <3> QED  BY <1>5, <1>6, <3>1
  <2> QED  BY <2>2 DEF Closed, n
<1> QED  BY <1>10, <1>11 DEF c

\* A word after a command built of items stands on its own or is its last item's.
LEMMA BuiltTakes ==
  ASSUME NEW e \in Known3, NEW v \in Values, NEW b \in Built(e)
  PROVE  Closed(e, b) \/ b \o <<Word(v)>> \in Built(e)
<1> DEFINE w == <<Word(v)>>
           X == {x \in Seq(Token) : Closed(e, x) \/ x \o w \in Built(e)}
<1>1. w \in Seq(Token)
  BY TokensAre
<1>2. \A it \in Items(e) : ~Closed(e, it) => it \o w \in Items(e)
  BY ItemTakes
<1> HIDE DEF w
<1>3. <<>> \in X
  BY NothingReads, Zenon
<1>4. ASSUME NEW it \in Items(e), NEW y \in Built(e), y \in X PROVE it \o y \in X
  <2>1. y \in Seq(Token) /\ (y = <<>> \/ y[1].is = "flag") /\ it \in Seq(Token) /\ it \o y \in Seq(Token)
    BY BuiltIs, ItemIs
  <2>2. CASE y = <<>>
    <3>1. it \o y = it
      BY <2>1, <2>2, ConcatEmptySeq
    <3>2. it \o w \in Items(e) => it \o w \in Built(e)
      BY ItemsAreBuilt
    <3> QED  BY <1>2, <2>1, <3>1, <3>2, Zenon
  <2>3. CASE y # <<>> /\ Closed(e, y)
    <3>1. Closed(e, it \o y)
      BY <2>1, <2>3, ClosedJoins
    <3> QED  BY <2>1, <3>1, Zenon
  <2>4. CASE y \o w \in Built(e)
    <3>1. it \o (y \o w) \in Built(e)
      BY <2>4, BuiltGrows, Zenon DEF Grows
    <3>2. Associates(it, y, w)
      BY <1>1, <2>1, ConcatAssociates
    <3>3. (it \o y) \o w \in Built(e)
      BY <3>1, <3>2, Zenon DEF Associates
    <3> QED  BY <2>1, <3>3, Zenon
  <2>5. Closed(e, y) \/ y \o w \in Built(e)
    BY <1>4, Zenon
  <2> QED  BY <2>2, <2>3, <2>4, <2>5
<1> HIDE DEF X
<1>5. b \in X
  BY <1>3, <1>4, BuiltInduction
<1> QED  BY <1>5, Zenon DEF X, w
----------------------------------------------------------------------------
(* A pass over a command built of items drops the items with the settings   *)
(* it is for, and goes on behind it.                                        *)

PassOf(e, g, D) ==
    /\ g \in [Seq(Token) -> Seq(Token)] /\ g[<<>>] = <<>>
    /\ \A it \in Items(e), y \in Seq(Token) :
         Cut(e, it, y) => g[it \o y] = (IF SettingOf(it) \in D THEN <<>> ELSE it) \o g[y]

Behind(e, g, x, y) == Cut(e, x, y) => g[x \o y] = g[x] \o g[y]

PassesBuilt(e, g, D, b) ==
    /\ g[b] \in Built(e) /\ Settings(e, g[b]) = Settings(e, b) \ D
    /\ Settings(e, b) \cap D = {} => g[b] = b
    /\ \A y \in Seq(Token) : Behind(e, g, b, y)

LEMMA CutBehind ==
  ASSUME NEW e \in Known3, NEW it \in Items(e), NEW b \in Built(e), NEW y \in Seq(Token), Cut(e, it \o b, y)
  PROVE  Cut(e, it, b \o y) /\ Cut(e, b, y)
<1>1. b \in Seq(Token) /\ (b = <<>> \/ b[1].is = "flag") /\ it \in Seq(Token)
  BY BuiltIs, ItemIs
<1>2. CASE b = <<>>
  <2>1. it \o b = it /\ b \o y = y
    BY <1>1, <1>2, ConcatEmptySeq
  <2>2. Closed(e, b)
    BY <1>2, NothingReads
  <2> QED  BY <2>1, <2>2 DEF Cut
<1>3. CASE b # <<>>
  <2>1. (b \o y)[1] = b[1]
    <3>1. \A i \in 1..Len(b) : (b \o y)[i] = b[i]
      BY <1>1, JoinIs
    <3>2. 1 \in 1..Len(b)
      BY <1>1, <1>3
    <3> QED  BY <3>1, <3>2
  <2>2. Cut(e, it, b \o y)
    BY <1>1, <1>3, <2>1 DEF Cut
  <2>3. Closed(e, it \o b) => Closed(e, b)
    BY <1>1, <1>3, ClosedJoins
  <2> QED  BY <2>2, <2>3 DEF Cut
<1> QED  BY <1>2, <1>3

LEMMA PassOfBuilt ==
  ASSUME NEW e \in Known3, NEW g, NEW D, PassOf(e, g, D), NEW b \in Built(e)
  PROVE  PassesBuilt(e, g, D, b)
<1> DEFINE X == {x \in Seq(Token) : PassesBuilt(e, g, D, x)}
<1>1. /\ \A x \in Seq(Token) : g[x] \in Seq(Token)
      /\ g[<<>>] = <<>>
      /\ \A it \in Items(e), y \in Seq(Token) :
           Cut(e, it, y) => g[it \o y] = (IF SettingOf(it) \in D THEN <<>> ELSE it) \o g[y]
  BY DEF PassOf
<1>2. <<>> \in X
  <2>1. <<>> \in Seq(Token) /\ Settings(e, <<>>) = {} /\ <<>> \in Built(e)
    BY NothingReads, BuiltGrows, Zenon DEF Grows
  <2>2. \A y \in Seq(Token) : Behind(e, g, <<>>, y)
    BY <1>1, ConcatEmptySeq DEF Behind
  <2>3. g[<<>>] \in Built(e) /\ Settings(e, g[<<>>]) = Settings(e, <<>>) \ D
    BY <1>1, <2>1
  <2>4. PassesBuilt(e, g, D, <<>>)
    BY <1>1, <2>2, <2>3, Zenon DEF PassesBuilt
  <2> QED  BY <2>1, <2>4, Zenon
<1>3. ASSUME NEW it \in Items(e), NEW x \in Built(e), x \in X PROVE it \o x \in X
  <2> DEFINE k == IF SettingOf(it) \in D THEN <<>> ELSE it
  <2>1. /\ g[x] \in Built(e) /\ Settings(e, g[x]) = Settings(e, x) \ D
        /\ Settings(e, x) \cap D = {} => g[x] = x
        /\ \A y \in Seq(Token) : Behind(e, g, x, y)
    BY <1>3, Zenon DEF PassesBuilt
  <2>2. x \in Seq(Token) /\ it \in Seq(Token) /\ it \o x \in Seq(Token) /\ (x = <<>> \/ x[1].is = "flag")
    BY BuiltIs, ItemIs
  <2>3. it \in Built(e) /\ Settings(e, it) = {SettingOf(it)}
    BY ItemsAreBuilt, ItemReads
  <2>4. k \in Built(e) /\ Settings(e, k) = {SettingOf(it)} \ D /\ k \in Seq(Token)
    <3>1. CASE SettingOf(it) \in D
      <4>1. k = <<>> /\ {SettingOf(it)} \ D = {}
        BY <3>1
      <4>2. <<>> \in Built(e) /\ Settings(e, <<>>) = {} /\ <<>> \in Seq(Token)
        BY NothingReads, BuiltGrows, Zenon DEF Grows
      <4> QED  BY <4>1, <4>2, Zenon
    <3>2. CASE SettingOf(it) \notin D
      <4>1. k = it /\ {SettingOf(it)} \ D = {SettingOf(it)}
        BY <3>2
      <4> QED  BY <2>2, <2>3, <4>1, Zenon
    <3> QED  BY <3>1, <3>2
  <2>5. Cut(e, it, x)
    BY <2>2 DEF Cut
  <2>6. g[it \o x] = k \o g[x]
    BY <1>1, <2>2, <2>5
  <2>7. Settings(e, it \o x) = {SettingOf(it)} \cup Settings(e, x)
    BY <2>3, BuiltJoins
  <2>8. SettingOf(it) \notin D => k = it
    OBVIOUS
  <2> HIDE DEF k
  <2>9. k \o g[x] \in Built(e) /\ Settings(e, k \o g[x]) = Settings(e, k) \cup Settings(e, g[x])
    BY <2>1, <2>4, BuiltJoins
  <2>10. Settings(e, g[it \o x]) = Settings(e, it \o x) \ D
    <3>1. Settings(e, g[it \o x]) = ({SettingOf(it)} \ D) \cup (Settings(e, x) \ D)
      BY <2>1, <2>4, <2>6, <2>9, Zenon
    <3> QED  BY <2>7, <3>1
  <2>11. Settings(e, it \o x) \cap D = {} => g[it \o x] = it \o x
    <3>1. Settings(e, it \o x) \cap D = {} => SettingOf(it) \notin D /\ Settings(e, x) \cap D = {}
      BY <2>7
    <3> QED  BY <2>1, <2>6, <2>8, <3>1, Zenon
  <2>12. ASSUME NEW y \in Seq(Token), Cut(e, it \o x, y) PROVE g[(it \o x) \o y] = g[it \o x] \o g[y]
    <3>1. Cut(e, it, x \o y) /\ Cut(e, x, y)
      BY <2>12, CutBehind
    <3>2. x \o y \in Seq(Token) /\ g[y] \in Seq(Token) /\ g[x] \in Seq(Token)
      BY <1>1, <2>2, JoinIs
    <3>3. Associates(it, x, y) /\ Associates(k, g[x], g[y])
      BY <2>2, <2>4, <3>2, ConcatAssociates
    <3>4. g[it \o (x \o y)] = k \o g[x \o y]
      BY <1>1, <3>1, <3>2 DEF k
    <3>5. g[x \o y] = g[x] \o g[y]
      BY <2>1, <3>1, Zenon DEF Behind
    <3> QED  BY <2>6, <3>3, <3>4, <3>5, Zenon DEF Associates
  <2>13. \A y \in Seq(Token) : Behind(e, g, it \o x, y)
    BY <2>12, Zenon DEF Behind
  <2>14. g[it \o x] \in Built(e)
    BY <2>6, <2>9, Zenon
  <2>15. PassesBuilt(e, g, D, it \o x)
    BY <2>10, <2>11, <2>13, <2>14, Zenon DEF PassesBuilt
  <2> QED  BY <2>2, <2>15, Zenon
<1> HIDE DEF X
<1>4. b \in X
  BY <1>2, <1>3, BuiltInduction
<1> QED  BY <1>4, Zenon DEF X
----------------------------------------------------------------------------
(* The three passes.                                                        *)

IdentityPass(e) == [c \in Seq(Token) |-> WithoutIdentity(e, c)]
AccessPass(e) == [c \in Seq(Token) |-> StripAccess(e, c)]
BindingPass(e) == [c \in Seq(Token) |-> DropBinding(e, c)]

IdentityDrops(e) == {s \in AllSettings : IsIdentity(e, s)}
AccessDrops(e) == {s \in AllSettings : IsAccess(e, s)}
BindingDrops(e) == {s \in AllSettings : IsBinding(e, s)}

LEMMA FilteredStays ==
  ASSUME NEW S, NEW cmd \in Seq(S), NEW span \in [DOMAIN cmd -> Nat \ {0}], NEW keeps
  PROVE  Filtered(cmd, span, keeps) \in Seq(S) /\ (cmd = <<>> => Filtered(cmd, span, keeps) = <<>>)
<1>1. PICK f : Passes(f, S, cmd, span, keeps)
  BY FilteredIs
<1>2. f \in [1..(Len(cmd) + 1) -> Seq(S)] /\ f[Len(cmd) + 1] = <<>> /\ Filtered(cmd, span, keeps) = f[1]
  BY <1>1 DEF Passes
<1>3. Len(cmd) \in Nat /\ (cmd = <<>> => Len(cmd) = 0)
  OBVIOUS
<1>4. 1 \in 1..(Len(cmd) + 1)
  BY <1>3
<1>5. f[1] \in Seq(S)
  BY <1>2, <1>4
<1>6. cmd = <<>> => Len(cmd) + 1 = 1
  BY <1>3
<1> QED  BY <1>2, <1>5, <1>6, Zenon

LEMMA PassesStay ==
  ASSUME NEW e
  PROVE  /\ \A c \in Seq(Token) : /\ WithoutIdentity(e, c) \in Seq(Token) /\ StripAccess(e, c) \in Seq(Token)
                                  /\ DropBinding(e, c) \in Seq(Token)
         /\ WithoutIdentity(e, <<>>) = <<>> /\ StripAccess(e, <<>>) = <<>> /\ DropBinding(e, <<>>) = <<>>
<1>1. ASSUME NEW c \in Seq(Token)
      PROVE  /\ WithoutIdentity(e, c) \in Seq(Token) /\ (c = <<>> => WithoutIdentity(e, c) = <<>>)
             /\ StripAccess(e, c) \in Seq(Token) /\ (c = <<>> => StripAccess(e, c) = <<>>)
             /\ DropBinding(e, c) \in Seq(Token) /\ (c = <<>> => DropBinding(e, c) = <<>>)
  <2>1. \A i \in DOMAIN c : i \in 1..Len(c)
    OBVIOUS
  <2>2. [i \in DOMAIN c |-> IdentitySpan(e, c, i)] \in [DOMAIN c -> Nat \ {0}]
    BY <2>1, SpansArePositive
  <2>3. [i \in DOMAIN c |-> AccessSpan(e, c, i)] \in [DOMAIN c -> Nat \ {0}]
    BY <2>1, SpansArePositive
  <2>4. [i \in DOMAIN c |-> BindingSpan(e, c, i)] \in [DOMAIN c -> Nat \ {0}]
    BY <2>1, SpansArePositive
  <2>5. WithoutIdentity(e, c) \in Seq(Token) /\ (c = <<>> => WithoutIdentity(e, c) = <<>>)
    BY <2>2, FilteredStays, Zenon DEF WithoutIdentity
  <2>6. StripAccess(e, c) \in Seq(Token) /\ (c = <<>> => StripAccess(e, c) = <<>>)
    BY <2>3, FilteredStays, Zenon DEF StripAccess
  <2>7. DropBinding(e, c) \in Seq(Token) /\ (c = <<>> => DropBinding(e, c) = <<>>)
    BY <2>4, FilteredStays, Zenon DEF DropBinding
  <2> QED  BY <2>5, <2>6, <2>7
<1>2. <<>> \in Seq(Token)
  OBVIOUS
<1> QED  BY <1>1, <1>2, Zenon

LEMMA IdentityPasses ==
  ASSUME NEW e \in Known3
  PROVE  PassOf(e, IdentityPass(e), IdentityDrops(e))
<1> DEFINE g == IdentityPass(e)
<1>1. \A c \in Seq(Token) : g[c] = WithoutIdentity(e, c)
  BY DEF IdentityPass
<1>2. g \in [Seq(Token) -> Seq(Token)] /\ g[<<>>] = <<>>
  BY PassesStay, NothingReads DEF IdentityPass
<1>3. ASSUME NEW it \in Items(e), NEW y \in Seq(Token), Cut(e, it, y)
      PROVE  g[it \o y] = (IF SettingOf(it) \in IdentityDrops(e) THEN <<>> ELSE it) \o g[y]
  <2>1. it \in Seq(Token) /\ it # <<>> /\ it \o y \in Seq(Token)
    BY ItemIs
  <2>2. IdentitySpan(e, it \o y, 1) = Len(it) /\ (Inherited(e, it[1]) <=> ~IsIdentity(e, SettingOf(it)))
    BY <1>3, IdentityOfItems
  <2>3. WithoutIdentity(e, it \o y) = (IF Inherited(e, it[1]) THEN it ELSE <<>>) \o WithoutIdentity(e, y)
    BY <2>1, <2>2, IdentityGoesOn
  <2>4. SettingOf(it) \in IdentityDrops(e) <=> ~Inherited(e, it[1])
    BY <2>2, ItemReads DEF IdentityDrops
  <2> QED  BY <1>1, <2>1, <2>3, <2>4, Zenon
<1> HIDE DEF g
<1>4. PassOf(e, g, IdentityDrops(e))
  BY <1>2, <1>3, Zenon DEF PassOf
<1> QED  BY <1>4 DEF g

LEMMA AccessPasses ==
  ASSUME NEW e \in Known3
  PROVE  PassOf(e, AccessPass(e), AccessDrops(e))
<1> DEFINE g == AccessPass(e)
<1>1. \A c \in Seq(Token) : g[c] = StripAccess(e, c)
  BY DEF AccessPass
<1>2. g \in [Seq(Token) -> Seq(Token)] /\ g[<<>>] = <<>>
  BY PassesStay, NothingReads DEF AccessPass
<1>3. ASSUME NEW it \in Items(e), NEW y \in Seq(Token), Cut(e, it, y)
      PROVE  g[it \o y] = (IF SettingOf(it) \in AccessDrops(e) THEN <<>> ELSE it) \o g[y]
  <2>1. it \in Seq(Token) /\ it # <<>> /\ it \o y \in Seq(Token)
    BY ItemIs
  <2>2. /\ \/ AccessSpan(e, it \o y, 1) = Len(it)
           \/ \A i \in 1..Len(it) : AccessSpan(e, it \o y, i) = 1 /\ NoAccess(e, it \o y, i)
        /\ NoAccess(e, it \o y, 1) <=> ~IsAccess(e, SettingOf(it))
    BY <1>3, AccessOfItems
  <2>3. StripAccess(e, it \o y) = (IF NoAccess(e, it \o y, 1) THEN it ELSE <<>>) \o StripAccess(e, y)
    BY <2>1, <2>2, AccessGoesOn
  <2>4. SettingOf(it) \in AccessDrops(e) <=> ~NoAccess(e, it \o y, 1)
    BY <2>2, ItemReads DEF AccessDrops
  <2> QED  BY <1>1, <2>1, <2>3, <2>4, Zenon
<1> HIDE DEF g
<1>4. PassOf(e, g, AccessDrops(e))
  BY <1>2, <1>3, Zenon DEF PassOf
<1> QED  BY <1>4 DEF g

LEMMA BindingPasses ==
  ASSUME NEW e \in {"codex", "agy"}
  PROVE  PassOf(e, BindingPass(e), BindingDrops(e))
<1> DEFINE g == BindingPass(e)
<1>0. e \in Known3
  BY DEF Known3
<1>1. \A c \in Seq(Token) : g[c] = DropBinding(e, c)
  BY DEF BindingPass
<1>2. g \in [Seq(Token) -> Seq(Token)] /\ g[<<>>] = <<>>
  BY PassesStay, NothingReads DEF BindingPass
<1>3. ASSUME NEW it \in Items(e), NEW y \in Seq(Token), Cut(e, it, y)
      PROVE  g[it \o y] = (IF SettingOf(it) \in BindingDrops(e) THEN <<>> ELSE it) \o g[y]
  <2>1. it \in Seq(Token) /\ it # <<>> /\ it \o y \in Seq(Token)
    BY ItemIs
  <2>2. /\ \/ BindingSpan(e, it \o y, 1) = Len(it)
           \/ \A i \in 1..Len(it) : BindingSpan(e, it \o y, i) = 1 /\ ~Bound(e, it \o y, i)
        /\ ~Bound(e, it \o y, 1) <=> ~IsBinding(e, SettingOf(it))
    BY <1>3, BindingOfItems
  <2>3. DropBinding(e, it \o y) = (IF ~Bound(e, it \o y, 1) THEN it ELSE <<>>) \o DropBinding(e, y)
    BY <2>1, <2>2, BindingGoesOn
  <2>4. SettingOf(it) \in BindingDrops(e) <=> Bound(e, it \o y, 1)
    BY <1>0, <2>2, ItemReads DEF BindingDrops
  <2> QED  BY <1>1, <2>1, <2>3, <2>4, Zenon
<1> HIDE DEF g
<1>4. PassOf(e, g, BindingDrops(e))
  BY <1>2, <1>3, Zenon DEF PassOf
<1> QED  BY <1>4 DEF g

\* A word on its own is no setting: the first pass drops it, the others leave it,
\* and a shell control as well.
LEMMA PassWords ==
  ASSUME NEW e, NEW t \in Token, t.is # "flag", NEW y \in Seq(Token)
  PROVE  /\ WithoutIdentity(e, <<t>> \o y) = WithoutIdentity(e, y)
         /\ StripAccess(e, <<t>> \o y) = <<t>> \o StripAccess(e, y)
         /\ DropBinding(e, <<t>> \o y) = <<t>> \o DropBinding(e, y)
<1> DEFINE x == <<t>>
           c == x \o y
<1>1. x \in Seq(Token) /\ Len(x) = 1 /\ x[1] = t /\ x # <<>> /\ \A i \in 1..1 : i = 1
  OBVIOUS
<1>2. c[1] = t
  BY <1>1, JoinIs
<1>3. WithoutIdentity(e, y) \in Seq(Token) /\ <<>> \o WithoutIdentity(e, y) = WithoutIdentity(e, y)
  BY PassesStay, ConcatEmptySeq
<1> HIDE DEF x, c
<1>4. \A S : ~Known(e, c[1], S)
  BY <1>2 DEF Known
<1>5. ~TxSources(c, 1) /\ c[1] # Flag("-i") /\ c[1] # Flag("-c")
  BY <1>2 DEF TxSources, Flag
<1>6. IdentitySpan(e, c, 1) = 1 /\ ~Inherited(e, t)
  BY <1>2 DEF IdentitySpan, Inherited
<1>7. AccessSpan(e, c, 1) = 1 /\ NoAccess(e, c, 1)
  BY <1>4, <1>5 DEF AccessSpan, NoAccess
<1>8. BindingSpan(e, c, 1) = 1 /\ ~Bound(e, c, 1)
  BY <1>4, <1>5 DEF BindingSpan, Bound
<1>9. WithoutIdentity(e, c) = (IF Inherited(e, x[1]) THEN x ELSE <<>>) \o WithoutIdentity(e, y)
  BY <1>1, <1>6, IdentityGoesOn DEF c
<1>10. StripAccess(e, c) = (IF NoAccess(e, c, 1) THEN x ELSE <<>>) \o StripAccess(e, y)
  BY <1>1, <1>7, AccessGoesOn DEF c
<1>11. DropBinding(e, c) = (IF ~Bound(e, c, 1) THEN x ELSE <<>>) \o DropBinding(e, y)
  BY <1>1, <1>8, BindingGoesOn DEF c
<1> QED  BY <1>1, <1>3, <1>6, <1>7, <1>8, <1>9, <1>10, <1>11, Zenon DEF c, x
----------------------------------------------------------------------------
(* What an agent reads in a command: settings, chats and prompts.           *)

Reads(e, c, S, chats, prompts) ==
    Settings(e, c) = S /\ ChatsNamed(e, c) = chats /\ Prompts(e, c) = prompts

ValuesIn(S, names) == UNION {s.values : s \in {t \in S : t.flag \in names}}
ChatFlags == {"--resume", "--session-id", "--conversation"}
Said(w) == {w[i].name : i \in 1..Len(w)}

\* At most one word, which is no verb.
Ends == {<<>>} \cup {<<Word(v)>> : v \in Values \ {"resume", "fork"}}
Verbs == {<<Word(v), Word(chat)>> : v \in {"resume", "fork"}, chat \in Values}

LEMMA WordsRead ==
  ASSUME NEW e, NEW w \in Seq(Token), \A i \in 1..Len(w) : w[i].is = "word"
  PROVE  /\ NoControl(w) /\ Settings(e, w) = {} /\ Positionals(e, w) = 1..Len(w) /\ Closed(e, w)
         /\ \A y : Cut(e, w, y)
<1> DEFINE n == Len(w)
<1>1. n \in Nat /\ DOMAIN w = 1..n
  OBVIOUS
<1>2. NoControl(w)
  BY DEF NoControl
<1>3. BeforeShell(w) = w
  BY <1>2, BeforeShellIs
<1>4. Positions(w, "flag") = {} /\ Positions(w, "word") = 1..n
  BY <1>1 DEF Positions
<1>5. \A i \in 1..n : \A j : ~Owns(e, w, i, j)
  BY DEF Owns
<1>6. Settings(e, w) = {}
  BY <1>3, <1>4 DEF Settings
<1>7. \A j \in 1..n : \A i \in 1..(j - 1) : i \in 1..n
  BY <1>1
<1>8. Positionals(e, w) = {j \in Positions(w, "word") : \A i \in 1..(j - 1) : ~Owns(e, w, i, j)}
  BY <1>3 DEF Positionals
<1> HIDE DEF n
<1>9. Positionals(e, w) = 1..n
  BY <1>4, <1>5, <1>7, <1>8
<1>10. Closed(e, w)
  BY <1>5 DEF Closed, n
<1> QED  BY <1>2, <1>6, <1>9, <1>10 DEF n, Cut

LEMMA EndsAre ==
  ASSUME NEW w \in Ends
  PROVE  /\ w \in Seq(Token) /\ \A i \in 1..Len(w) : w[i].is = "word"
         /\ \/ w = <<>> /\ Len(w) = 0 /\ Said(w) = {}
            \/ \E v \in Values \ {"resume", "fork"} : w = <<Word(v)>> /\ Len(w) = 1 /\ w[1].name = v /\ Said(w) = {v}
<1>1. CASE w = <<>>
  BY <1>1 DEF Said
<1>2. CASE \E v \in Values \ {"resume", "fork"} : w = <<Word(v)>>
  <2>1. PICK v \in Values \ {"resume", "fork"} : w = <<Word(v)>>
    BY <1>2
  <2>2. Word(v) \in Token /\ Word(v).is = "word" /\ Word(v).name = v
    BY TokensAre
  <2>3. w \in Seq(Token) /\ Len(w) = 1 /\ w[1] = Word(v) /\ \A i \in 1..1 : i = 1
    BY <2>1, <2>2
  <2>4. Said(w) = {v}
    <3>1. 1..1 = {1}
      OBVIOUS
    <3> QED  BY <2>2, <2>3, <3>1 DEF Said
  <2> QED  BY <2>1, <2>2, <2>3, <2>4
<1> QED  BY <1>1, <1>2 DEF Ends

LEMMA ValuesAre ==
  ASSUME NEW e, NEW c, NEW names
  PROVE  ValuesOf(e, c, names) = ValuesIn(Settings(e, c), names)
BY Zenon DEF ValuesOf, ValuesIn

\* Items and at most one word behind them.
LEMMA PlainReads ==
  ASSUME NEW e \in Known3, NEW b \in Built(e), NEW w \in Ends, w = <<>> \/ Closed(e, b)
  PROVE  /\ NoControl(b \o w) /\ b \o w \in Seq(Token)
         /\ Positionals(e, b \o w) = {Len(b) + j : j \in 1..Len(w)}
         /\ Reads(e, b \o w, Settings(e, b), ValuesIn(Settings(e, b), ChatFlags),
                  IF e = "agy" THEN ValuesIn(Settings(e, b), {"-i"}) ELSE Said(w))
<1> DEFINE c == b \o w
           n == Len(b)
           S == Settings(e, b)
<1>1. b \in Seq(Token) /\ NoControl(b) /\ Positionals(e, b) = {} /\ n \in Nat
  BY BuiltIs, EmptySeq
<1>2. w \in Seq(Token) /\ \A i \in 1..Len(w) : w[i].is = "word"
  BY EndsAre
<1>3. NoControl(w) /\ Settings(e, w) = {} /\ Positionals(e, w) = 1..Len(w)
  BY <1>2, WordsRead
<1>4. Cut(e, b, w)
  BY DEF Cut
<1>5. ReadsBoth(e, b, w)
  BY <1>1, <1>2, <1>3, <1>4, SettingsJoin, Zenon
<1>6. NoControl(c) /\ Settings(e, c) = S /\ Positionals(e, c) = {n + j : j \in 1..Len(w)}
  BY <1>1, <1>3, <1>5 DEF ReadsBoth
<1>7. c \in Seq(Token) /\ \A i \in 1..Len(w) : c[n + i] = w[i]
  BY <1>1, <1>2, JoinIs
<1> HIDE DEF c
<1>8. \/ Len(w) = 0 /\ Said(w) = {}
      \/ Len(w) = 1 /\ Said(w) = {w[1].name} /\ w[1].name \notin {"resume", "fork"}
  BY EndsAre
<1> HIDE DEF n
<1>9. \/ Positionals(e, c) = {} /\ Said(w) = {}
      \/ /\ Positionals(e, c) = {n + 1} /\ c[n + 1].name \notin {"resume", "fork"}
         /\ Said(w) = {c[n + 1].name}
  <2>1. CASE Len(w) = 0
    <3>1. 1..Len(w) = {}
      BY <2>1
    <3> QED  BY <1>6, <1>8, <2>1, <3>1
  <2>2. CASE Len(w) = 1 /\ Said(w) = {w[1].name} /\ w[1].name \notin {"resume", "fork"}
    <3>1. 1..Len(w) = {1}
      BY <2>2
    <3>2. c[n + 1] = w[1]
      BY <1>7, <3>1
    <3>3. Positionals(e, c) = {n + 1}
      BY <1>6, <3>1
    <3> QED  BY <2>2, <3>2, <3>3
  <2> QED  BY <1>8, <2>1, <2>2
<1>10. FirstOf(Positionals(e, c)) \subseteq Positionals(e, c)
  BY DEF FirstOf
<1>11. ~HasVerb(e, c)
  BY <1>9, <1>10 DEF HasVerb
<1>12. ChatsNamed(e, c) = ValuesIn(S, ChatFlags)
  BY <1>6, <1>11, ValuesAre DEF ChatsNamed, ChatFlags
<1>13. {c[i].name : i \in Positionals(e, c)} = Said(w)
  BY <1>9
<1>14. Prompts(e, c) = IF e = "agy" THEN ValuesIn(S, {"-i"}) ELSE Said(w)
  BY <1>6, <1>11, <1>13, ValuesAre DEF Prompts
<1> QED  BY <1>6, <1>7, <1>12, <1>14, Zenon DEF Reads, c, n

\* codex's verb, behind items or at the front.
LEMMA VerbReads ==
  ASSUME NEW x \in Built("codex"), Closed("codex", x), NEW v \in {"resume", "fork"}, NEW chat \in Values,
         NEW b \in Built("codex"), NEW w \in Ends, w = <<>> \/ Closed("codex", b)
  PROVE  LET c == x \o (<<Word(v), Word(chat)>> \o (b \o w)) IN
         /\ NoControl(c) /\ c \in Seq(Token)
         /\ Reads("codex", c, Settings("codex", x) \cup Settings("codex", b), {chat}, Said(w))
<1> DEFINE e == "codex"
           h == <<Word(v), Word(chat)>>
           u == b \o w
           c == x \o (h \o u)
           p == Len(x)
           q == Len(b)
<1>0. e \in Known3
  BY DEF Known3
<1>1. x \in Seq(Token) /\ NoControl(x) /\ Positionals(e, x) = {} /\ p \in Nat /\ b \in Seq(Token) /\ q \in Nat
  BY <1>0, BuiltIs, EmptySeq
<1>2. /\ NoControl(u) /\ u \in Seq(Token) /\ Positionals(e, u) = {q + j : j \in 1..Len(w)}
      /\ Settings(e, u) = Settings(e, b)
  BY <1>0, PlainReads DEF Reads
<1>3. v \in Values
  BY DEF Values
<1>4. Word(v) \in Token /\ Word(chat) \in Token /\ Word(v).is = "word" /\ Word(chat).is = "word"
      /\ Word(v).name = v /\ Word(chat).name = chat
  BY <1>3, TokensAre
<1>5. h \in Seq(Token) /\ Len(h) = 2 /\ h[1] = Word(v) /\ h[2] = Word(chat) /\ 1..2 = {1, 2}
  BY <1>4
<1>6. \A i \in 1..Len(h) : h[i].is = "word"
  BY <1>4, <1>5
<1>7. NoControl(h) /\ Settings(e, h) = {} /\ Positionals(e, h) = {1, 2} /\ Cut(e, h, u)
  BY <1>5, <1>6, WordsRead
<1>8. ReadsBoth(e, h, u)
  BY <1>2, <1>5, <1>7, SettingsJoin, Zenon
<1>9. /\ NoControl(h \o u) /\ Settings(e, h \o u) = Settings(e, b)
      /\ Positionals(e, h \o u) = {1, 2} \cup {2 + j : j \in Positionals(e, u)}
  <2> HIDE DEF u, h, e
  <2> QED  BY <1>2, <1>5, <1>7, <1>8 DEF ReadsBoth
<1>10. h \o u \in Seq(Token) /\ (\A i \in 1..2 : (h \o u)[i] = h[i]) /\ \A i \in 1..Len(u) : (h \o u)[2 + i] = u[i]
  <2>1. /\ h \o u \in Seq(Token) /\ \A i \in 1..Len(h) : (h \o u)[i] = h[i]
        /\ \A i \in 1..Len(u) : (h \o u)[Len(h) + i] = u[i]
    BY <1>2, <1>5, JoinIs
  <2> HIDE DEF u, h
  <2> QED  BY <1>5, <2>1
<1>11. Cut(e, x, h \o u)
  BY DEF Cut
<1>12. ReadsBoth(e, x, h \o u)
  BY <1>1, <1>9, <1>10, <1>11, SettingsJoin, Zenon
<1>13. /\ NoControl(c) /\ Settings(e, c) = Settings(e, x) \cup Settings(e, b)
       /\ Positionals(e, c) = {p + j : j \in Positionals(e, h \o u)}
  BY <1>1, <1>9, <1>12 DEF ReadsBoth
<1>14. /\ c \in Seq(Token)
       /\ \A i \in 1..Len(h \o u) : c[p + i] = (h \o u)[i]
  BY <1>1, <1>10, JoinIs
<1>15. Len(h \o u) = 2 + Len(u) /\ Len(u) = q + Len(w) /\ Len(w) \in Nat /\ \A i \in 1..Len(w) : u[q + i] = w[i]
  <2>1. w \in Seq(Token)
    BY EndsAre
  <2>2. Len(u) = q + Len(w) /\ Len(w) \in Nat /\ \A i \in 1..Len(w) : u[q + i] = w[i]
    BY <1>1, <2>1, JoinIs
  <2>3. Len(h \o u) = Len(h) + Len(u)
    BY <1>2, <1>5, JoinIs
  <2> HIDE DEF h, u, q
  <2> QED  BY <1>5, <2>2, <2>3
<1> HIDE DEF c, u, h, p, q, e
<1>16. c[p + 1].name = v /\ c[p + 2].name = chat
  <2>1. 1 \in 1..Len(h \o u) /\ 2 \in 1..Len(h \o u) /\ 1 \in 1..2 /\ 2 \in 1..2
    BY <1>1, <1>15
  <2> QED  BY <1>4, <1>5, <1>10, <1>14, <2>1
<1>17. \/ Len(w) = 0 /\ Said(w) = {}
       \/ Len(w) = 1 /\ Said(w) = {w[1].name}
  BY EndsAre
<1>18. \/ Positionals(e, c) = {p + 1, p + 2} /\ Said(w) = {}
       \/ /\ Positionals(e, c) = {p + 1, p + 2, p + (2 + (q + 1))}
          /\ Said(w) = {c[p + (2 + (q + 1))].name}
  <2>1. CASE Len(w) = 0
    <3>1. 1..Len(w) = {}
      BY <2>1
    <3>2. Positionals(e, u) = {}
      BY <1>2, <3>1
    <3>3. Positionals(e, h \o u) = {1, 2}
      BY <1>9, <3>2
    <3> QED  BY <1>13, <1>17, <2>1, <3>3
  <2>2. CASE Len(w) = 1 /\ Said(w) = {w[1].name}
    <3>1. 1..Len(w) = {1}
      BY <2>2
    <3>2. Positionals(e, u) = {q + 1}
      BY <1>2, <3>1
    <3>3. Positionals(e, h \o u) = {1, 2, 2 + (q + 1)}
      BY <1>9, <3>2
    <3>4. Positionals(e, c) = {p + 1, p + 2, p + (2 + (q + 1))}
      BY <1>13, <3>3
    <3>5. u[q + 1] = w[1]
      BY <1>15, <3>1
    <3>6. q + 1 \in 1..Len(u) /\ 2 + (q + 1) \in 1..Len(h \o u)
      BY <1>1, <1>15, <2>2
    <3>7. c[p + (2 + (q + 1))] = w[1]
      BY <1>10, <1>14, <3>5, <3>6
    <3> QED  BY <2>2, <3>4, <3>7
  <2> QED  BY <1>17, <2>1, <2>2
<1>19. p \in Nat /\ q \in Nat
  BY <1>1
<1> DEFINE P == Positionals(e, c)
           r == p + (2 + (q + 1))
<1>20. FirstOf(P) = {p + 1} /\ P \ {p + 1} = P \cap {p + 2, r} /\ FirstOf(P \ {p + 1}) = {p + 2}
       /\ (P \ {p + 1}) \ {p + 2} = P \cap {r}
  <2>1. p + 1 < p + 2 /\ p + 2 < r /\ p + 1 < r /\ p + 1 \in Int /\ p + 2 \in Int /\ r \in Int
    BY <1>19
  <2>2. P = {p + 1, p + 2} \/ P = {p + 1, p + 2, r}
    BY <1>18
  <2> HIDE DEF P, r
  <2> DEFINE a == p + 1
             d == p + 2
  <2>3. a < d /\ d < r /\ a < r /\ a \in Int /\ d \in Int /\ r \in Int /\ (P = {a, d} \/ P = {a, d, r})
    BY <2>1, <2>2
  <2> HIDE DEF a, d
  <2>4. FirstOf(P) = {a}
    BY <2>3 DEF FirstOf
  <2>5. P \ {a} = P \cap {d, r} /\ (P \ {a}) \ {d} = P \cap {r}
    BY <2>3
  <2>6. P \ {a} = {d} \/ P \ {a} = {d, r}
    BY <2>3
  <2>7. FirstOf(P \ {a}) = {d}
    BY <2>3, <2>6 DEF FirstOf
  <2> QED  BY <2>4, <2>5, <2>7 DEF a, d
<1>21. HasVerb(e, c)
  BY <1>16, <1>20 DEF HasVerb, e
<1>22. Operands(e, c) = P \ {p + 1} /\ FirstOf(Operands(e, c)) = {p + 2} /\ Operands(e, c) \ FirstOf(Operands(e, c)) = P \cap {r}
  BY <1>20 DEF Operands
<1>23. ChatsNamed(e, c) = {chat}
  BY <1>16, <1>21, <1>22 DEF ChatsNamed
<1>24. {c[i].name : i \in P \cap {r}} = Said(w)
  <2>1. CASE P = {p + 1, p + 2} /\ Said(w) = {}
    <3>1. r # p + 1 /\ r # p + 2
      BY <1>19
    <3>2. P \cap {r} = {}
      BY <2>1, <3>1
    <3> QED  BY <2>1, <3>2
  <2>2. CASE P = {p + 1, p + 2, r} /\ Said(w) = {c[r].name}
    <3>1. P \cap {r} = {r}
      BY <2>2
    <3> QED  BY <2>2, <3>1
  <2> QED  BY <1>18, <2>1, <2>2
<1>25. Prompts(e, c) = Said(w)
  BY <1>21, <1>22, <1>24 DEF Prompts, e
<1> QED  BY <1>13, <1>14, <1>23, <1>25, Zenon DEF Reads, c, u, h, e
----------------------------------------------------------------------------
(* A shell control ends a command; the adapter and the agent agree on it.   *)

Shell == <<Control, Word("other")>>

LEMMA ShellIs ==
  Shell \in Seq(Token) /\ Len(Shell) = 2 /\ Shell[1] = Control /\ Shell # <<>> /\ Control.is = "control" /\ Control \in Token
  /\ Word("other") \in Token /\ Word("other").is = "word"
<1>1. "other" \in Values
  BY DEF Values
<1>2. Control \in Token /\ Control.is = "control" /\ Word("other") \in Token /\ Word("other").is = "word"
  BY <1>1, TokensAre
<1> QED  BY <1>2 DEF Shell

LEMMA BeforeShellJoin ==
  ASSUME NEW c \in Seq(Token), NoControl(c)
  PROVE  BeforeShell(c \o Shell) = c /\ ~NoControl(c \o Shell) /\ Control \in Range(c \o Shell)
<1> DEFINE d == c \o Shell
           n == Len(c)
           ends == {i \in DOMAIN d : d[i].is = "control"}
<1>1. /\ d \in Seq(Token) /\ DOMAIN d = 1..(n + 2) /\ n \in Nat /\ Len(d) = n + 2
      /\ \A i \in 1..n : d[i] = c[i]
      /\ d[n + 1] = Control
  <2>1. /\ d \in Seq(Token) /\ DOMAIN d = 1..(n + Len(Shell)) /\ n \in Nat /\ Len(d) = n + Len(Shell)
        /\ \A i \in 1..n : d[i] = c[i]
        /\ \A i \in 1..Len(Shell) : d[n + i] = Shell[i]
    BY ShellIs, JoinIs
  <2>2. 1 \in 1..Len(Shell) /\ Len(Shell) = 2
    BY ShellIs
  <2> HIDE DEF d, n
  <2> QED  BY <2>1, <2>2, ShellIs
<1>2. \A i \in 1..n : c[i].is # "control"
  BY DEF NoControl
<1> HIDE DEF d
<1>3. n + 1 \in ends
  BY <1>1, ShellIs
<1>4. \A i \in ends : i \in Nat /\ n + 1 <= i
  <2> SUFFICES ASSUME NEW i \in ends, ~(n + 1 <= i) PROVE FALSE
    BY <1>1
  <2>1. i \in 1..n
    BY <1>1
  <2> QED  BY <1>1, <1>2, <2>1
<1>5. Min(ends) = n + 1
  <2> HIDE DEF ends, n
  <2>1. n \in Nat
    BY <1>1
  <2>2. \A i \in ends : (\A j \in ends : i <= j) => i = n + 1
    BY <1>3, <1>4, <2>1
  <2>3. \E i \in ends : \A j \in ends : i <= j
    BY <1>3, <1>4
  <2>4. Min(ends) \in ends /\ \A j \in ends : Min(ends) <= j
    BY <2>3 DEF Min
  <2> QED  BY <2>2, <2>4
<1>6. BeforeShell(d) = SubSeq(d, 1, n)
  <2>1. BeforeShell(d) = SubSeq(d, 1, Min(ends) - 1)
    BY <1>3 DEF BeforeShell
  <2>2. (n + 1) - 1 = n
    BY <1>1
  <2> QED  BY <1>5, <2>1, <2>2
<1>7. SubSeq(d, 1, n) = c
  <2>1. \A i \in 1..n : d[0 + i] = c[i] /\ c[i] \in Token
    BY <1>1
  <2>2. n \in Int /\ 1 \in Int /\ 0 \in Int
    BY <1>1
  <2>3. SubSeq(d, 0 + 1, 0 + n) = SubSeq(c, 1, n)
    BY <2>1, <2>2, SameSlice
  <2>4. SubSeq(c, 1, n) = c
    OBVIOUS
  <2>5. 0 + 1 = 1 /\ 0 + n = n
    BY <1>1
  <2> QED  BY <2>3, <2>4, <2>5
<1>8. ~NoControl(d)
  <2>1. n + 1 \in 1..Len(d)
    BY <1>1
  <2> QED  BY <1>1, <2>1, ShellIs DEF NoControl
<1>9. Control \in Range(d)
  <2>1. n + 1 \in DOMAIN d
    BY <1>1
  <2> QED  BY <1>1, <2>1 DEF Range
<1> QED  BY <1>6, <1>7, <1>8, <1>9 DEF d

LEMMA ShellReads ==
  ASSUME NEW e, NEW c \in Seq(Token), NoControl(c)
  PROVE  Reads(e, c \o Shell, Settings(e, c), ChatsNamed(e, c), Prompts(e, c))
<1> DEFINE d == c \o Shell
           P == Positionals(e, c)
<1>1. BeforeShell(d) = c /\ BeforeShell(c) = c
  BY BeforeShellJoin, BeforeShellIs
<1>2. \A i \in 1..Len(c) : d[i] = c[i]
  BY ShellIs, JoinIs
<1>3. Settings(e, d) = Settings(e, c) /\ Positionals(e, d) = P
  BY <1>1 DEF Settings, Positionals
<1>4. P \subseteq 1..Len(c)
  BY <1>1 DEF Positionals, Positions
<1>5. FirstOf(P) \subseteq P /\ \A Q : FirstOf(Q) \subseteq Q
  BY DEF FirstOf
<1> HIDE DEF d, P
<1>6. \A i \in P : d[i] = c[i]
  BY <1>2, <1>4
<1>7. HasVerb(e, d) <=> HasVerb(e, c)
  BY <1>3, <1>5, <1>6 DEF HasVerb, P
<1>8. Operands(e, d) = Operands(e, c) /\ Operands(e, c) \subseteq P
  BY <1>3 DEF Operands, P
<1>9. ASSUME NEW Q, Q \subseteq P PROVE {d[i].name : i \in Q} = {c[i].name : i \in Q}
  BY <1>6, <1>9
<1>10. {d[i].name : i \in FirstOf(Operands(e, c))} = {c[i].name : i \in FirstOf(Operands(e, c))}
  <2>1. FirstOf(Operands(e, c)) \subseteq P
    BY <1>5, <1>8
  <2> QED  BY <1>9, <2>1
<1>11. \A names : ValuesOf(e, d, names) = ValuesOf(e, c, names)
  BY <1>3, ValuesAre
<1>12. ChatsNamed(e, d) = ChatsNamed(e, c)
  BY <1>7, <1>8, <1>10, <1>11 DEF ChatsNamed
<1>13. {d[i].name : i \in Operands(e, c) \ FirstOf(Operands(e, c))}
         = {c[i].name : i \in Operands(e, c) \ FirstOf(Operands(e, c))}
  <2>1. Operands(e, c) \ FirstOf(Operands(e, c)) \subseteq P
    BY <1>8
  <2> QED  BY <1>9, <2>1
<1>14. {d[i].name : i \in P} = {c[i].name : i \in P}
  BY <1>9
<1>15. Prompts(e, d) = Prompts(e, c)
  BY <1>3, <1>7, <1>8, <1>11, <1>13, <1>14 DEF Prompts, P
<1> QED  BY <1>3, <1>12, <1>15 DEF Reads, d

----------------------------------------------------------------------------
(* What the adapter keeps of a command: its items but the identity.         *)

Kept(e, b) == WithoutIdentity(e, b)

LEMMA KeptIs ==
  ASSUME NEW e \in Known3, NEW b \in Built(e)
  PROVE  /\ Kept(e, b) \in Built(e) /\ Kept(e, b) \in Seq(Token)
         /\ Settings(e, Kept(e, b)) = Settings(e, b) \ IdentityDrops(e)
         /\ \A y \in Seq(Token) : Cut(e, b, y) => WithoutIdentity(e, b \o y) = Kept(e, b) \o WithoutIdentity(e, y)
<1>1. PassesBuilt(e, IdentityPass(e), IdentityDrops(e), b)
  BY IdentityPasses, PassOfBuilt
<1>2. b \in Seq(Token) /\ \A y \in Seq(Token) : b \o y \in Seq(Token)
  BY BuiltIs, JoinIs
<1>3. \A c \in Seq(Token) : IdentityPass(e)[c] = WithoutIdentity(e, c)
  BY DEF IdentityPass
<1>4. /\ Kept(e, b) \in Built(e)
      /\ Settings(e, Kept(e, b)) = Settings(e, b) \ IdentityDrops(e)
  BY <1>1, <1>2, <1>3, Zenon DEF PassesBuilt, Kept
<1>5. \A y \in Seq(Token) : Cut(e, b, y) => WithoutIdentity(e, b \o y) = Kept(e, b) \o WithoutIdentity(e, y)
  BY <1>1, <1>2, <1>3, Zenon DEF PassesBuilt, Behind, Kept
<1>6. Kept(e, b) \in Seq(Token)
  BY <1>4, BuiltIs
<1> QED  BY <1>4, <1>5, <1>6

LEMMA KeptEnds ==
  ASSUME NEW e \in Known3, NEW b \in Built(e), NEW w \in Ends, w = <<>> \/ Closed(e, b)
  PROVE  WithoutIdentity(e, b \o w) = Kept(e, b)
<1>1. w \in Seq(Token) /\ Cut(e, b, w)
  BY EndsAre DEF Cut
<1>2. WithoutIdentity(e, w) = <<>>
  <2>1. CASE w = <<>>
    BY <2>1, PassesStay
  <2>2. CASE \E v \in Values : w = <<Word(v)>>
    <3>1. PICK v \in Values : w = <<Word(v)>>
      BY <2>2
    <3>2. Word(v) \in Token /\ Word(v).is # "flag" /\ <<Word(v)>> \o <<>> = <<Word(v)>>
      BY TokensAre
    <3>3. WithoutIdentity(e, <<Word(v)>> \o <<>>) = WithoutIdentity(e, <<>>)
      BY <3>2, NothingReads, PassWords
    <3> QED  BY <3>1, <3>2, <3>3, PassesStay
  <2> QED  BY <2>1, <2>2 DEF Ends
<1>3. WithoutIdentity(e, b \o w) = Kept(e, b) \o <<>>
  BY <1>1, <1>2, KeptIs
<1>4. Kept(e, b) \o <<>> = Kept(e, b)
  BY KeptIs, ConcatEmptySeq
<1> QED  BY <1>3, <1>4

\* A command that begins with no verb of codex.
LEMMA NoVerbInFront ==
  ASSUME NEW e, NEW c, c = <<>> \/ c[1].is # "word" \/ c[1].name \notin {"resume", "fork"}
  PROVE  AfterVerb(e, c) = c
BY DEF AfterVerb

LEMMA PlainStart ==
  ASSUME NEW e \in Known3, NEW b \in Built(e), NEW w \in Ends
  PROVE  LET c == b \o w IN
         /\ c \in Seq(Token)
         /\ c = <<>> \/ c[1].is # "word" \/ c[1].name \notin {"resume", "fork"}
<1> DEFINE c == b \o w
<1>1. b \in Seq(Token) /\ (b = <<>> \/ b[1].is = "flag") /\ w \in Seq(Token)
  BY BuiltIs, EndsAre
<1>2. c \in Seq(Token) /\ \A i \in 1..Len(b) : c[i] = b[i]
  BY <1>1, JoinIs
<1>3. CASE b = <<>>
  <2>1. c = w
    BY <1>1, <1>3, ConcatEmptySeq
  <2> QED  BY <1>2, <2>1, EndsAre
<1>4. CASE b # <<>>
  <2>1. 1 \in 1..Len(b)
    BY <1>1, <1>4
  <2> QED  BY <1>1, <1>2, <1>4, <2>1
<1> QED  BY <1>3, <1>4

LEMMA PlainStrips ==
  ASSUME NEW e \in Known3, NEW b \in Built(e), NEW w \in Ends, w = <<>> \/ Closed(e, b)
  PROVE  /\ StripIdentity(e, b \o w) = Kept(e, b)
         /\ StripIdentity(e, b \o Shell) = Kept(e, b)
<1>1. AfterVerb(e, b \o w) = b \o w
  BY PlainStart, NoVerbInFront
<1>2. BeforeShell(b \o w) = b \o w
  BY PlainReads, BeforeShellIs
<1>3. StripIdentity(e, b \o w) = Kept(e, b)
  BY <1>1, <1>2, KeptEnds DEF StripIdentity
<1>4. b \in Seq(Token) /\ NoControl(b) /\ (b = <<>> \/ b[1].is = "flag")
  BY BuiltIs
<1>5. (b \o Shell)[1].is # "word"
  <2>1. CASE b = <<>>
    <3>1. b \o Shell = Shell
      BY <2>1, ShellIs, ConcatEmptySeq
    <3> QED  BY <3>1, ShellIs
  <2>2. CASE b # <<>>
    <3>1. \A i \in 1..Len(b) : (b \o Shell)[i] = b[i]
      BY <1>4, ShellIs, JoinIs
    <3>2. 1 \in 1..Len(b)
      BY <1>4, <2>2
    <3> QED  BY <1>4, <2>2, <3>1, <3>2
  <2> QED  BY <2>1, <2>2
<1>6. AfterVerb(e, b \o Shell) = b \o Shell
  BY <1>5, NoVerbInFront
<1>7. BeforeShell(b \o Shell) = b
  BY <1>4, BeforeShellJoin
<1>8. StripIdentity(e, b \o Shell) = Kept(e, b)
  BY <1>6, <1>7 DEF StripIdentity, Kept
<1> QED  BY <1>3, <1>8

LEMMA TwoTokens ==
  ASSUME NEW S, NEW s \in S, NEW t \in S
  PROVE  <<s>> \o <<t>> = <<s, t>>
<1>1. /\ <<s>> \o <<t>> \in Seq(S) /\ Len(<<s>> \o <<t>>) = 2
      /\ (<<s>> \o <<t>>)[1] = s /\ (<<s>> \o <<t>>)[2] = t
  OBVIOUS
<1>2. <<s, t>> \in Seq(S) /\ Len(<<s, t>>) = 2 /\ <<s, t>>[1] = s /\ <<s, t>>[2] = t
  OBVIOUS
<1>3. \A i \in 1..2 : i = 1 \/ i = 2
  OBVIOUS
<1> QED  BY <1>1, <1>2, <1>3, SeqEqual

TwoInFront(s, t, u) ==
    LET c == <<s, t>> \o u IN
    /\ c = <<s>> \o (<<t>> \o u) /\ c \in Seq(Token) /\ c[1] = s /\ c[2] = t /\ Len(c) > 1 /\ c # <<>>
    /\ SubSeq(c, 3, Len(c)) = u

LEMMA AfterTwo ==
  ASSUME NEW s \in Token, NEW t \in Token, NEW u \in Seq(Token)
  PROVE  TwoInFront(s, t, u)
<1> DEFINE h == <<s, t>>
           c == h \o u
           n == Len(u)
<1>1. h \in Seq(Token) /\ Len(h) = 2 /\ h[1] = s /\ h[2] = t /\ <<s>> \in Seq(Token) /\ <<t>> \in Seq(Token)
  OBVIOUS
<1>2. /\ c \in Seq(Token) /\ Len(c) = 2 + n /\ n \in Nat
      /\ \A i \in 1..2 : c[i] = h[i]
      /\ \A i \in 1..n : c[2 + i] = u[i]
  <2>1. /\ c \in Seq(Token) /\ Len(c) = Len(h) + n /\ n \in Nat
        /\ \A i \in 1..Len(h) : c[i] = h[i]
        /\ \A i \in 1..n : c[Len(h) + i] = u[i]
    BY <1>1, JoinIs
  <2> HIDE DEF c, h, n
  <2> QED  BY <1>1, <2>1
<1>3. c = <<s>> \o (<<t>> \o u)
  <2>1. Associates(<<s>>, <<t>>, u)
    BY <1>1, ConcatAssociates
  <2>2. <<s>> \o <<t>> = h
    BY TwoTokens
  <2> QED  BY <2>1, <2>2, Zenon DEF Associates
<1> HIDE DEF c, h
<1>4. c[1] = s /\ c[2] = t /\ Len(c) > 1 /\ c # <<>>
  BY <1>1, <1>2
<1>5. SubSeq(c, 3, Len(c)) = u
  <2>1. \A i \in 1..n : c[2 + i] = u[i] /\ u[i] \in Token
    BY <1>2
  <2>2. n \in Int /\ 1 \in Int /\ 2 \in Int
    BY <1>2
  <2>3. SubSeq(c, 2 + 1, 2 + n) = SubSeq(u, 1, n)
    BY <2>1, <2>2, SameSlice
  <2>4. SubSeq(u, 1, n) = u /\ 2 + 1 = 3
    OBVIOUS
  <2> QED  BY <1>2, <2>3, <2>4
<1> QED  BY <1>1, <1>2, <1>3, <1>4, <1>5, Zenon DEF TwoInFront, c, h

LEMMA VerbStrips ==
  ASSUME NEW x \in Built("codex"), Closed("codex", x), NEW v \in {"resume", "fork"}, NEW chat \in Values,
         NEW b \in Built("codex"), NEW w \in Ends, w = <<>> \/ Closed("codex", b)
  PROVE  StripIdentity("codex", x \o (<<Word(v), Word(chat)>> \o (b \o w))) = Kept("codex", x) \o Kept("codex", b)
<1> DEFINE e == "codex"
           h == <<Word(v), Word(chat)>>
           u == b \o w
           c == x \o (h \o u)
<1>0. e \in Known3 /\ v \in Values
  BY DEF Known3, Values
<1>1. Word(v) \in Token /\ Word(chat) \in Token /\ Word(v).is = "word" /\ Word(chat).is = "word" /\ Word(v).name = v
  BY <1>0, TokensAre
<1>2. x \in Seq(Token) /\ (x = <<>> \/ x[1].is = "flag") /\ u \in Seq(Token) /\ NoControl(u)
  BY <1>0, BuiltIs, PlainReads
<1>3. NoControl(c) /\ c \in Seq(Token)
  BY VerbReads, Zenon
<1>4. /\ h \o u = <<Word(v)>> \o (<<Word(chat)>> \o u) /\ h \o u \in Seq(Token)
      /\ (h \o u)[1] = Word(v) /\ (h \o u)[2] = Word(chat) /\ Len(h \o u) > 1 /\ h \o u # <<>>
      /\ SubSeq(h \o u, 3, Len(h \o u)) = u
  <2>1. TwoInFront(Word(v), Word(chat), u)
    BY <1>1, <1>2, AfterTwo, Zenon
  <2> QED  BY <2>1, Zenon DEF TwoInFront
<1>5. <<Word(chat)>> \o u \in Seq(Token)
  BY <1>1, <1>2
<1>6. Kept(e, x) \in Seq(Token) /\ Kept(e, b) \in Seq(Token)
  BY <1>0, KeptIs
<1>7. WithoutIdentity(e, u) = Kept(e, b)
  BY <1>0, KeptEnds
<1>8. WithoutIdentity(e, h \o u) = Kept(e, b)
  <2>1. WithoutIdentity(e, <<Word(chat)>> \o u) = WithoutIdentity(e, u)
    BY <1>1, <1>2, PassWords
  <2>2. WithoutIdentity(e, <<Word(v)>> \o (<<Word(chat)>> \o u)) = WithoutIdentity(e, <<Word(chat)>> \o u)
    BY <1>1, <1>5, PassWords
  <2> QED  BY <1>4, <1>7, <2>1, <2>2, Zenon
<1>9. CASE x = <<>>
  <2>1. c = h \o u
    BY <1>4, <1>9, ConcatEmptySeq
  <2>2. AfterVerb(e, c) = u
    <3> HIDE DEF c, u, h
    <3>1. c[1].is = "word" /\ c[1].name \in {"resume", "fork"} /\ c[2].is # "flag" /\ c # <<>> /\ Len(c) > 1
      BY <1>1, <1>4, <2>1
    <3>2. AfterVerb(e, c) = SubSeq(c, 3, Len(c))
      BY <3>1 DEF AfterVerb
    <3> QED  BY <1>4, <2>1, <3>2
  <2>3. BeforeShell(u) = u
    BY <1>2, BeforeShellIs
  <2>4. StripIdentity(e, c) = Kept(e, b)
    BY <1>7, <2>2, <2>3 DEF StripIdentity
  <2>5. Kept(e, x) = <<>>
    BY <1>9, PassesStay DEF Kept
  <2>6. <<>> \o Kept(e, b) = Kept(e, b)
    BY <1>6, ConcatEmptySeq
  <2> QED  BY <2>4, <2>5, <2>6
<1>10. CASE x # <<>>
  <2>1. c[1] = x[1]
    <3>1. \A i \in 1..Len(x) : c[i] = x[i]
      BY <1>2, <1>4, JoinIs
    <3>2. 1 \in 1..Len(x)
      BY <1>2, <1>10
    <3> QED  BY <3>1, <3>2
  <2>2. AfterVerb(e, c) = c
    BY <1>2, <1>10, <2>1, NoVerbInFront
  <2>3. BeforeShell(c) = c
    BY <1>3, BeforeShellIs
  <2>4. StripIdentity(e, c) = WithoutIdentity(e, c)
    BY <2>2, <2>3 DEF StripIdentity
  <2>5. Cut(e, x, h \o u)
    BY DEF Cut
  <2>6. WithoutIdentity(e, c) = Kept(e, x) \o WithoutIdentity(e, h \o u)
    BY <1>0, <1>4, <2>5, KeptIs
  <2> QED  BY <1>8, <2>4, <2>6
<1> QED  BY <1>9, <1>10

\* The verb in front of items and a shell.
LEMMA VerbShellStrips ==
  ASSUME NEW v \in {"resume", "fork"}, NEW chat \in Values, NEW b \in Built("codex")
  PROVE  StripIdentity("codex", (<<Word(v), Word(chat)>> \o b) \o Shell) = Kept("codex", b)
<1> DEFINE h == <<Word(v), Word(chat)>>
           c == (h \o b) \o Shell
<1>0. "codex" \in Known3 /\ v \in Values
  BY DEF Known3, Values
<1>1. Word(v) \in Token /\ Word(chat) \in Token /\ Word(v).is = "word" /\ Word(chat).is = "word" /\ Word(v).name = v
  BY <1>0, TokensAre
<1>2. b \in Seq(Token) /\ NoControl(b) /\ h \in Seq(Token) /\ b \o Shell \in Seq(Token)
  BY <1>0, <1>1, BuiltIs, ShellIs, JoinIs
<1>3. c = h \o (b \o Shell)
  <2>1. Associates(h, b, Shell)
    BY <1>2, ShellIs, ConcatAssociates
  <2> QED  BY <2>1, Zenon DEF Associates
<1> DEFINE u == b \o Shell
<1>4. /\ (h \o u)[1] = Word(v) /\ (h \o u)[2] = Word(chat) /\ Len(h \o u) > 1 /\ h \o u # <<>>
      /\ SubSeq(h \o u, 3, Len(h \o u)) = u
  <2>1. TwoInFront(Word(v), Word(chat), u)
    BY <1>1, <1>2, AfterTwo, Zenon
  <2> QED  BY <2>1, Zenon DEF TwoInFront
<1>5. BeforeShell(u) = b
  BY <1>2, BeforeShellJoin
<1> HIDE DEF c, u, h
<1>6. AfterVerb("codex", c) = u
  <2>1. c = h \o u
    BY <1>3 DEF u
  <2>2. c[1].is = "word" /\ c[1].name \in {"resume", "fork"} /\ c[2].is # "flag" /\ c # <<>> /\ Len(c) > 1
    BY <1>1, <1>4, <2>1
  <2>3. AfterVerb("codex", c) = SubSeq(c, 3, Len(c))
    BY <2>2 DEF AfterVerb
  <2> QED  BY <1>4, <2>1, <2>3
<1>7. StripIdentity("codex", c) = Kept("codex", b)
  BY <1>5, <1>6 DEF StripIdentity, Kept
<1> QED  BY <1>7 DEF c, h

----------------------------------------------------------------------------
(* The items the adapters write.                                            *)

LEMMA BareItem ==
  ASSUME NEW e \in Known3, NEW n \in Names(e), Arity(e, n) # "one"
  PROVE  /\ <<Flag(n)>> \in Items(e) /\ SettingOf(<<Flag(n)>>) = [flag |-> n, values |-> {}]
         /\ <<Flag(n)>>[1] = Flag(n) /\ Len(<<Flag(n)>>) = 1
<1> DEFINE it == <<Flag(n)>>
<1>1. Flag(n) \in Token /\ Flag(n).is = "flag" /\ Flag(n).inline = None /\ Flag(n).name = n
  BY NamesAreFlags, TokensAre
<1>2. it \in Seq(Token) /\ Len(it) = 1 /\ it[1] = Flag(n)
  BY <1>1
<1>3. 2..Len(it) = {}
  BY <1>2
<1> HIDE DEF it
<1>4. Fits(e, it)
  BY <1>1, <1>2 DEF Fits
<1>5. it \in Items(e)
  BY <1>1, <1>2, <1>3, <1>4 DEF Items
<1>6. SettingOf(it) = [flag |-> n, values |-> {}]
  BY <1>1, <1>2, <1>3 DEF SettingOf
<1> QED  BY <1>2, <1>5, <1>6 DEF it

LEMMA OptionItem ==
  ASSUME NEW e \in Known3, NEW n \in Names(e), Arity(e, n) # "none", NEW v \in Values
  PROVE  /\ Option(n, v) \in Items(e) /\ SettingOf(Option(n, v)) = [flag |-> n, values |-> {v}]
         /\ Option(n, v)[1] = Flag(n) /\ Len(Option(n, v)) = 2
<1> DEFINE it == Option(n, v)
<1>1. Flag(n) \in Token /\ Flag(n).is = "flag" /\ Flag(n).inline = None /\ Flag(n).name = n
  BY NamesAreFlags, TokensAre
<1>2. Word(v) \in Token /\ Word(v).name = v /\ Word(v) \in WordTokens
  BY TokensAre DEF WordTokens
<1>3. it \in Seq(Token) /\ Len(it) = 2 /\ it[1] = Flag(n) /\ it[2] = Word(v)
  BY <1>1, <1>2 DEF Option
<1>4. 2..Len(it) = {2}
  BY <1>3
<1> HIDE DEF it
<1>5. Fits(e, it)
  BY <1>1, <1>3, ArityIs DEF Fits
<1>6. it \in Items(e)
  <2>1. Len(it) >= 1 /\ it[1].is = "flag" /\ it[1].name \in Names(e)
    BY <1>1, <1>2, <1>3, <1>4, <1>5
  <2>2. \A j \in 2..Len(it) : it[j] \in WordTokens
    BY <1>1, <1>2, <1>3, <1>4, <1>5
  <2>3. it \in Seq(Token)
    BY <1>1, <1>2, <1>3, <1>4, <1>5
  <2> QED  BY <1>5, <2>1, <2>2, <2>3, Zenon DEF Items
<1>7. SettingOf(it) = [flag |-> n, values |-> {v}]
  BY <1>1, <1>2, <1>3, <1>4 DEF SettingOf
<1> QED  BY <1>3, <1>6, <1>7 DEF it

LEMMA ListItem ==
  ASSUME NEW e \in Known3, NEW n \in Names(e), Arity(e, n) = "many", NEW v \in Values, NEW u \in Values
  PROVE  <<Flag(n), Word(v), Word(u)>> \in Items(e)
<1> DEFINE it == <<Flag(n), Word(v), Word(u)>>
<1>1. Flag(n) \in Token /\ Flag(n).is = "flag" /\ Flag(n).inline = None /\ Flag(n).name = n
  BY NamesAreFlags, TokensAre
<1>2. Word(v) \in Token /\ Word(v) \in WordTokens /\ Word(u) \in Token /\ Word(u) \in WordTokens
  BY TokensAre DEF WordTokens
<1>3. it \in Seq(Token) /\ Len(it) = 3 /\ it[1] = Flag(n) /\ it[2] = Word(v) /\ it[3] = Word(u)
  BY <1>1, <1>2
<1>4. 2..Len(it) = {2, 3}
  BY <1>3
<1> HIDE DEF it
<1>5. Fits(e, it)
  BY <1>1, <1>3 DEF Fits
<1>6. it \in Items(e)
  <2>1. Len(it) >= 1 /\ it[1].is = "flag" /\ it[1].name \in Names(e)
    BY <1>1, <1>2, <1>3, <1>4, <1>5
  <2>2. \A j \in 2..Len(it) : it[j] \in WordTokens
    BY <1>1, <1>2, <1>3, <1>4, <1>5
  <2>3. it \in Seq(Token)
    BY <1>1, <1>2, <1>3, <1>4, <1>5
  <2> QED  BY <1>5, <2>1, <2>2, <2>3, Zenon DEF Items
<1> QED  BY <1>6 DEF it

LEMMA InlineItem ==
  ASSUME NEW n \in {"--model", "--conversation"}, NEW v \in {"m", "c0"}
  PROVE  <<Inline(n, v)>> \in Items("agy")
<1> DEFINE it == <<Inline(n, v)>>
<1>1. n \in FlagNames /\ v \in Values /\ n \in Names("agy")
  BY DEF FlagNames, Values, Names
<1>2. Inline(n, v) \in Token
  BY <1>1, TokensAre
<1>3. Inline(n, v).is = "flag" /\ Inline(n, v).name = n /\ Inline(n, v).inline = v
  BY DEF Inline
<1>4. it \in Seq(Token) /\ Len(it) = 1 /\ it[1] = Inline(n, v)
  BY <1>2
<1>5. 2..Len(it) = {}
  BY <1>4
<1> HIDE DEF it
<1>6. Fits("agy", it)
  BY <1>3, <1>4, LaunchAssumption DEF Fits
<1>7. it \in Items("agy")
  <2>1. Len(it) >= 1 /\ it[1].is = "flag" /\ it[1].name \in Names("agy")
    BY <1>1, <1>3, <1>4, <1>5, <1>6
  <2>2. \A j \in 2..Len(it) : it[j] \in WordTokens
    BY <1>1, <1>3, <1>4, <1>5, <1>6
  <2>3. it \in Seq(Token)
    BY <1>1, <1>3, <1>4, <1>5, <1>6
  <2> QED  BY <1>6, <2>1, <2>2, <2>3, Zenon DEF Items
<1> QED  BY <1>7 DEF it

\* An item that takes no further word.
LEMMA ItemCloses ==
  ASSUME NEW e \in Known3, NEW it \in Items(e),
         \/ it[1].inline # None
         \/ Arity(e, it[1].name) \in {"none", "one"}
         \/ Arity(e, it[1].name) = "maybe" /\ Len(it) = 2
  PROVE  Closed(e, it)
<1> SUFFICES ASSUME ~Closed(e, it) PROVE FALSE
  OBVIOUS
<1> DEFINE w == <<Word("m")>>
           d == it \o w
<1>1. "m" \in Values
  BY DEF Values
<1>2. d \in Items(e)
  BY <1>1, ItemTakes
<1>3. it \in Seq(Token) /\ it # <<>> /\ Fits(e, it) /\ Fits(e, d)
  <2>1. /\ it \in Seq(Token) /\ it # <<>> /\ Fits(e, it)
    BY ItemIs, NothingReads
  <2>2. Fits(e, d)
    <3> HIDE DEF d
    <3> QED  BY <1>2, ItemIs, NothingReads
  <2> QED  BY <2>1, <2>2
<1>4. w \in Seq(Token) /\ Len(w) = 1
  BY <1>1, TokensAre
<1>5. Len(d) = Len(it) + 1 /\ d[1] = it[1] /\ Len(it) \in Nat
  <2>1. /\ Len(d) = Len(it) + Len(w) /\ Len(it) \in Nat
        /\ \A i \in 1..Len(it) : d[i] = it[i]
    BY <1>3, <1>4, JoinIs
  <2>2. 1 \in 1..Len(it)
    BY <1>3
  <2> HIDE DEF d, w
  <2> QED  BY <1>4, <2>1, <2>2
<1> HIDE DEF d, w
<1>6. it[1].inline = None
  BY <1>3, <1>5 DEF Fits
<1>7. /\ Arity(e, it[1].name) = "none" => Len(it) = 1 /\ Len(it) + 1 = 1
      /\ Arity(e, it[1].name) = "one" => Len(it) = 2 /\ Len(it) + 1 = 2
      /\ Arity(e, it[1].name) = "maybe" => Len(it) + 1 \in {1, 2}
  BY <1>3, <1>5, <1>6 DEF Fits
<1> HIDE DEF d, w
<1> QED  BY <1>5, <1>6, <1>7

\* agy has no list of values: it never takes a word more.
LEMMA AgyCloses ==
  \A b \in Built("agy") : Closed("agy", b)
<1> DEFINE e == "agy"
           X == {b \in Built(e) : Closed(e, b)}
<1>0. e \in Known3
  BY DEF Known3
<1>1. <<>> \in X
  BY NothingReads, BuiltGrows DEF Grows
<1>2. \A it \in Items(e), y \in Built(e) : y \in X => it \o y \in X
  <2> SUFFICES ASSUME NEW it \in Items(e), NEW y \in Built(e), Closed(e, y) PROVE it \o y \in X
    OBVIOUS
  <2>1. it \o y \in Built(e)
    BY BuiltGrows DEF Grows
  <2>2. it[1].name \in Names(e) /\ it \in Seq(Token)
    BY DEF Items
  <2>3. Arity(e, it[1].name) \in {"none", "one"}
    BY <2>2 DEF Arity, Names
  <2>4. Closed(e, it)
    BY <1>0, <2>3, ItemCloses
  <2>5. CASE y = <<>>
    <3>1. it \o y = it
      BY <2>2, <2>5, ConcatEmptySeq
    <3> QED  BY <2>1, <2>4, <3>1
  <2>6. CASE y # <<>>
    <3>1. y \in Seq(Token) /\ y[1].is = "flag"
      BY <1>0, <2>6, BuiltIs
    <3>2. Closed(e, it \o y)
      BY <2>2, <2>6, <3>1, ClosedJoins
    <3> QED  BY <2>1, <3>2
  <2> QED  BY <2>5, <2>6
<1> HIDE DEF X, e
<1>3. \A b \in Built(e) : b \in X
  BY <1>1, <1>2, BuiltInduction
<1> QED  BY <1>3 DEF X, e
----------------------------------------------------------------------------
(* The four forms of a command: what the agent reads in it, and the adapter *)
(* keeps of it, is given by its items.                                      *)

Says(e, c, b, chats, prompts) ==
    /\ c \in Seq(Token) /\ b \in Built(e)
    /\ Reads(e, c, Settings(e, b), chats, prompts)
    /\ StripIdentity(e, c) = Kept(e, b)

PromptsIn(e, S, w) == IF e = "agy" THEN ValuesIn(S, {"-i"}) ELSE Said(w)

LEMMA PlainSays ==
  ASSUME NEW e \in Known3, NEW b \in Built(e), NEW w \in Ends, w = <<>> \/ Closed(e, b)
  PROVE  /\ NoControl(b \o w)
         /\ Says(e, b \o w, b, ValuesIn(Settings(e, b), ChatFlags), PromptsIn(e, Settings(e, b), w))
<1>1. NoControl(b \o w) /\ b \o w \in Seq(Token)
      /\ Reads(e, b \o w, Settings(e, b), ValuesIn(Settings(e, b), ChatFlags), PromptsIn(e, Settings(e, b), w))
  BY PlainReads DEF PromptsIn
<1>2. StripIdentity(e, b \o w) = Kept(e, b)
  BY PlainStrips
<1> QED  BY <1>1, <1>2 DEF Says

LEMMA NoEnd ==
  /\ <<>> \in Ends /\ <<>> \in Seq(Token) /\ Len(<<>>) = 0 /\ Said(<<>>) = {}
  /\ \A x \in Seq(Token) : x \o <<>> = x /\ <<>> \o x = x
<1>1. <<>> \in Ends
  BY DEF Ends
<1>2. Len(<<>>) = 0 /\ <<>> \in Seq(Token)
  OBVIOUS
<1>3. 1..0 = {}
  OBVIOUS
<1>4. Said(<<>>) = {}
  BY <1>2, <1>3 DEF Said
<1>5. \A x \in Seq(Token) : x \o <<>> = x /\ <<>> \o x = x
  BY ConcatEmptySeq
<1> QED  BY <1>1, <1>2, <1>4, <1>5

LEMMA ShellSays ==
  ASSUME NEW e \in Known3, NEW b \in Built(e)
  PROVE  Says(e, b \o Shell, b, ValuesIn(Settings(e, b), ChatFlags), PromptsIn(e, Settings(e, b), <<>>))
<1>1. b \in Seq(Token) /\ b \o <<>> = b
  BY BuiltIs, NoEnd
<1>2. NoControl(b) /\ Says(e, b, b, ValuesIn(Settings(e, b), ChatFlags), PromptsIn(e, Settings(e, b), <<>>))
  BY <1>1, NoEnd, PlainSays, Zenon
<1>3. Reads(e, b \o Shell, Settings(e, b), ChatsNamed(e, b), Prompts(e, b))
  BY <1>1, <1>2, ShellReads
<1>4. ChatsNamed(e, b) = ValuesIn(Settings(e, b), ChatFlags) /\ Prompts(e, b) = PromptsIn(e, Settings(e, b), <<>>)
  BY <1>2 DEF Says, Reads
<1>5. StripIdentity(e, b \o Shell) = Kept(e, b)
  BY NoEnd, PlainStrips
<1>6. b \o Shell \in Seq(Token)
  BY <1>1, ShellIs, JoinIs
<1> QED  BY <1>3, <1>4, <1>5, <1>6 DEF Says

LEMMA VerbSays ==
  ASSUME NEW x \in Built("codex"), Closed("codex", x), NEW v \in {"resume", "fork"}, NEW chat \in Values,
         NEW b \in Built("codex"), NEW w \in Ends, w = <<>> \/ Closed("codex", b)
  PROVE  LET c == x \o (<<Word(v), Word(chat)>> \o (b \o w)) IN
         NoControl(c) /\ Says("codex", c, x \o b, {chat}, Said(w))
<1> DEFINE e == "codex"
           c == x \o (<<Word(v), Word(chat)>> \o (b \o w))
<1>0. e \in Known3
  BY DEF Known3
<1>1. /\ NoControl(c) /\ c \in Seq(Token)
      /\ Reads(e, c, Settings(e, x) \cup Settings(e, b), {chat}, Said(w))
  BY VerbReads, Zenon
<1>2. StripIdentity(e, c) = Kept(e, x) \o Kept(e, b)
  BY VerbStrips, Zenon
<1> HIDE DEF c
<1>3. x \o b \in Built(e) /\ Settings(e, x \o b) = Settings(e, x) \cup Settings(e, b)
  BY <1>0, BuiltJoins
<1>4. Kept(e, x \o b) = Kept(e, x) \o Kept(e, b)
  <2>1. Cut(e, x, b) /\ b \in Seq(Token)
    BY <1>0, BuiltIs DEF Cut
  <2>2. WithoutIdentity(e, x \o b) = Kept(e, x) \o WithoutIdentity(e, b)
    BY <1>0, <2>1, KeptIs
  <2> QED  BY <2>2 DEF Kept
<1>5. Says(e, c, x \o b, {chat}, Said(w))
  BY <1>1, <1>2, <1>3, <1>4 DEF Says
<1> QED  BY <1>1, <1>5 DEF c, e

LEMMA VerbShellSays ==
  ASSUME NEW v \in {"resume", "fork"}, NEW chat \in Values, NEW b \in Built("codex")
  PROVE  Says("codex", (<<Word(v), Word(chat)>> \o b) \o Shell, b, {chat}, {})
<1> DEFINE e == "codex"
           h == <<Word(v), Word(chat)>>
           c == h \o b
<1>0. e \in Known3 /\ <<>> \in Built(e) /\ Closed(e, <<>>) /\ Settings(e, <<>>) = {}
  BY BuiltGrows, NothingReads DEF Known3, Grows
<1>1. v \in Values
  BY DEF Values
<1>2. h \in Seq(Token) /\ b \in Seq(Token)
  BY <1>0, <1>1, TokensAre, BuiltIs
<1>3. c \in Seq(Token) /\ b \o <<>> = b /\ <<>> \o c = c
  BY <1>2, JoinIs, NoEnd
<1>4. NoControl(c) /\ Reads(e, c, Settings(e, b), {chat}, {})
  <2>1. LET d == <<>> \o (h \o (b \o <<>>)) IN
         /\ NoControl(d) /\ d \in Seq(Token)
         /\ Reads("codex", d, Settings("codex", <<>>) \cup Settings("codex", b), {chat}, Said(<<>>))
    BY <1>0, NoEnd, VerbReads, Zenon
  <2>2. <<>> \o (h \o (b \o <<>>)) = c
    BY <1>3
  <2>3. Settings(e, <<>>) \cup Settings(e, b) = Settings(e, b)
    BY <1>0
  <2> QED  BY <2>1, <2>2, <2>3, NoEnd
<1> HIDE DEF c, h
<1>5. ChatsNamed(e, c) = {chat} /\ Prompts(e, c) = {} /\ Settings(e, c) = Settings(e, b)
  BY <1>4 DEF Reads
<1>6. Reads(e, c \o Shell, Settings(e, b), {chat}, {})
  <2>1. Reads(e, c \o Shell, Settings(e, c), ChatsNamed(e, c), Prompts(e, c))
    BY <1>3, <1>4, ShellReads
  <2> QED  BY <1>5, <2>1
<1>7. StripIdentity(e, c \o Shell) = Kept(e, b)
  BY VerbShellStrips DEF c, h
<1>8. c \o Shell \in Seq(Token)
  BY <1>3, ShellIs, JoinIs
<1> QED  BY <1>6, <1>7, <1>8 DEF Says, c, h, e
----------------------------------------------------------------------------
(* What prepare_workspace does to the four forms.                           *)

LEMMA BareBuilt ==
  ASSUME NEW e \in Known3, NEW n \in Names(e), Arity(e, n) # "one"
  PROVE  /\ <<Flag(n)>> \in Built(e) /\ Settings(e, <<Flag(n)>>) = {[flag |-> n, values |-> {}]}
         /\ <<Flag(n)>> \in Seq(Token) /\ <<Flag(n)>> # <<>> /\ <<Flag(n)>>[1].is = "flag"
         /\ Arity(e, n) = "none" => Closed(e, <<Flag(n)>>)
<1> DEFINE it == <<Flag(n)>>
<1>1. it \in Items(e) /\ SettingOf(it) = [flag |-> n, values |-> {}] /\ it[1] = Flag(n)
  BY BareItem
<1>2. Flag(n).is = "flag" /\ Flag(n).name = n
  BY DEF Flag
<1> HIDE DEF it
<1>3. it \in Built(e) /\ Settings(e, it) = {[flag |-> n, values |-> {}]} /\ it \in Seq(Token) /\ it # <<>>
  <2>1. it \in Seq(Token) /\ it # <<>>
    BY <1>1, ItemIs, NothingReads
  <2>2. Settings(e, it) = {SettingOf(it)}
    BY <1>1, ItemReads
  <2>3. it \in Built(e)
    BY <1>1, ItemsAreBuilt
  <2> QED  BY <1>1, <2>1, <2>2, <2>3
<1>4. Arity(e, n) = "none" => Closed(e, it)
  BY <1>1, <1>2, ItemCloses
<1> QED  BY <1>1, <1>2, <1>3, <1>4 DEF it

LEMMA OptionBuilt ==
  ASSUME NEW e \in Known3, NEW n \in Names(e), Arity(e, n) # "none", NEW v \in Values
  PROVE  /\ Option(n, v) \in Built(e) /\ Settings(e, Option(n, v)) = {[flag |-> n, values |-> {v}]}
         /\ Option(n, v) \in Seq(Token) /\ Option(n, v) # <<>> /\ Option(n, v)[1].is = "flag"
         /\ Arity(e, n) # "many" => Closed(e, Option(n, v))
<1> DEFINE it == Option(n, v)
<1>1. it \in Items(e) /\ SettingOf(it) = [flag |-> n, values |-> {v}] /\ it[1] = Flag(n) /\ Len(it) = 2
  BY OptionItem
<1>2. Flag(n).is = "flag" /\ Flag(n).name = n
  BY DEF Flag
<1> HIDE DEF it
<1>3. it \in Built(e) /\ Settings(e, it) = {[flag |-> n, values |-> {v}]} /\ it \in Seq(Token) /\ it # <<>>
  <2>1. it \in Seq(Token) /\ it # <<>>
    BY <1>1, ItemIs, NothingReads
  <2>2. Settings(e, it) = {SettingOf(it)}
    BY <1>1, ItemReads
  <2>3. it \in Built(e)
    BY <1>1, ItemsAreBuilt
  <2> QED  BY <1>1, <2>1, <2>2, <2>3
<1>4. Arity(e, n) # "many" => Closed(e, it)
  BY <1>1, <1>2, ItemCloses, ArityIs
<1> QED  BY <1>1, <1>2, <1>3, <1>4 DEF it

\* Built commands one after the other.
LEMMA BothBuilt ==
  ASSUME NEW e \in Known3, NEW x \in Built(e), NEW y \in Built(e), y # <<>>
  PROVE  /\ x \o y \in Built(e) /\ Settings(e, x \o y) = Settings(e, x) \cup Settings(e, y)
         /\ x \o y \in Seq(Token) /\ x \o y # <<>> /\ (x \o y)[1].is = "flag"
         /\ Closed(e, y) => Closed(e, x \o y)
<1>1. /\ x \o y \in Built(e) /\ Settings(e, x \o y) = Settings(e, x) \cup Settings(e, y)
  BY BuiltJoins
<1>2. x \in Seq(Token) /\ y \in Seq(Token) /\ y[1].is = "flag"
  BY BuiltIs
<1>3. x \o y \in Seq(Token) /\ Len(x \o y) = Len(x) + Len(y)
  BY <1>2, JoinIs
<1>4. x \o y # <<>>
  BY <1>2, <1>3
<1>5. (x \o y)[1].is = "flag"
  BY <1>1, <1>4, BuiltIs
<1>6. Closed(e, y) => Closed(e, x \o y)
  BY <1>2, ClosedJoins
<1> QED  BY <1>1, <1>3, <1>4, <1>5, <1>6

Bindings(e, tree) ==
    CASE e = "claude" -> <<>> [] e = "codex" -> Option("-c", "check=off")
      [] e = "agy" -> Option("--add-dir", tree) \o Option("--log-file", tree)
BindingSettings(e, tree) ==
    CASE e = "claude" -> {} [] e = "codex" -> {[flag |-> "-c", values |-> {"check=off"}]}
      [] e = "agy" -> {[flag |-> "--add-dir", values |-> {tree}], [flag |-> "--log-file", values |-> {tree}]}

LEMMA BindingsAre ==
  ASSUME NEW e \in Known3, NEW tree \in Values
  PROVE  /\ Bindings(e, tree) \in Built(e) /\ Bindings(e, tree) \in Seq(Token)
         /\ Settings(e, Bindings(e, tree)) = BindingSettings(e, tree) /\ Closed(e, Bindings(e, tree))
<1>1. CASE e = "claude"
  <2>1. Bindings(e, tree) = <<>> /\ BindingSettings(e, tree) = {}
    BY <1>1 DEF Bindings, BindingSettings
  <2> QED  BY <2>1, BuiltGrows, NothingReads DEF Grows
<1>2. CASE e = "codex"
  <2>1. Bindings(e, tree) = Option("-c", "check=off") /\ BindingSettings(e, tree) = {[flag |-> "-c", values |-> {"check=off"}]}
    BY <1>2 DEF Bindings, BindingSettings
  <2>2. "-c" \in Names(e) /\ Arity(e, "-c") = "one" /\ "check=off" \in Values
    BY <1>2 DEF Names, Arity, Values
  <2> QED  BY <2>1, <2>2, OptionBuilt
<1>3. CASE e = "agy"
  <2> DEFINE x == Option("--add-dir", tree)
             y == Option("--log-file", tree)
  <2>1. /\ Bindings(e, tree) = x \o y
        /\ BindingSettings(e, tree) = {[flag |-> "--add-dir", values |-> {tree}], [flag |-> "--log-file", values |-> {tree}]}
    BY <1>3 DEF Bindings, BindingSettings
  <2>2. /\ "--add-dir" \in Names(e) /\ Arity(e, "--add-dir") = "one"
        /\ "--log-file" \in Names(e) /\ Arity(e, "--log-file") = "one"
    BY <1>3 DEF Names, Arity
  <2>3. x \in Built(e) /\ Settings(e, x) = {[flag |-> "--add-dir", values |-> {tree}]}
    BY <2>2, OptionBuilt
  <2>4. y \in Built(e) /\ Settings(e, y) = {[flag |-> "--log-file", values |-> {tree}]} /\ Closed(e, y) /\ y # <<>>
    BY <2>2, OptionBuilt
  <2> HIDE DEF x, y
  <2> QED  BY <2>1, <2>3, <2>4, BothBuilt
<1> QED  BY <1>1, <1>2, <1>3 DEF Known3

Dropped(e, k) == IF e = "claude" THEN k ELSE DropBinding(e, k)
Unbound(e, S) == IF e = "claude" THEN S ELSE S \ BindingDrops(e)

LEMMA DroppedIs ==
  ASSUME NEW e \in Known3, NEW k \in Built(e)
  PROVE  /\ Dropped(e, k) \in Built(e) /\ Dropped(e, k) \in Seq(Token)
         /\ Settings(e, Dropped(e, k)) = Unbound(e, Settings(e, k))
         /\ Unbound(e, Settings(e, k)) = Settings(e, k) => Dropped(e, k) = k
         /\ e # "claude" => \A y \in Seq(Token) : Cut(e, k, y) => DropBinding(e, k \o y) = Dropped(e, k) \o DropBinding(e, y)
<1>0. k \in Seq(Token)
  BY BuiltIs
<1>1. CASE e = "claude"
  BY <1>0, <1>1 DEF Dropped, Unbound
<1>2. CASE e # "claude"
  <2>0. e \in {"codex", "agy"}
    BY <1>2 DEF Known3
  <2>1. PassesBuilt(e, BindingPass(e), BindingDrops(e), k)
    BY <2>0, BindingPasses, PassOfBuilt
  <2>2. \A y \in Seq(Token) : k \o y \in Seq(Token)
    BY <1>0, JoinIs
  <2>3. \A c \in Seq(Token) : BindingPass(e)[c] = DropBinding(e, c)
    BY DEF BindingPass
  <2>4. /\ DropBinding(e, k) \in Built(e)
        /\ Settings(e, DropBinding(e, k)) = Settings(e, k) \ BindingDrops(e)
        /\ Settings(e, k) \cap BindingDrops(e) = {} => DropBinding(e, k) = k
    BY <1>0, <2>1, <2>3, Zenon DEF PassesBuilt
  <2>5. \A y \in Seq(Token) : Cut(e, k, y) => DropBinding(e, k \o y) = DropBinding(e, k) \o DropBinding(e, y)
    BY <1>0, <2>1, <2>2, <2>3, Zenon DEF PassesBuilt, Behind
  <2>6. DropBinding(e, k) \in Seq(Token)
    BY <2>4, BuiltIs
  <2>7. Unbound(e, Settings(e, k)) = Settings(e, k) \ BindingDrops(e) /\ Dropped(e, k) = DropBinding(e, k)
    BY <1>2 DEF Unbound, Dropped
  <2>8. Settings(e, k) \ BindingDrops(e) = Settings(e, k) => Settings(e, k) \cap BindingDrops(e) = {}
    OBVIOUS
  <2> QED  BY <1>2, <2>4, <2>5, <2>6, <2>7, <2>8
<1> QED  BY <1>1, <1>2

LEMMA EndsStay ==
  ASSUME NEW e, NEW w \in Ends
  PROVE  DropBinding(e, w) = w
<1>1. CASE w = <<>>
  BY <1>1, PassesStay
<1>2. CASE \E v \in Values : w = <<Word(v)>>
  <2>1. PICK v \in Values : w = <<Word(v)>>
    BY <1>2
  <2>2. Word(v) \in Token /\ Word(v).is # "flag" /\ <<Word(v)>> \o <<>> = <<Word(v)>>
    BY TokensAre
  <2>3. DropBinding(e, <<Word(v)>> \o <<>>) = <<Word(v)>> \o DropBinding(e, <<>>)
    BY <2>2, NothingReads, PassWords
  <2> QED  BY <2>1, <2>2, <2>3, PassesStay
<1> QED  BY <1>1, <1>2 DEF Ends

LEMMA ShellStays ==
  ASSUME NEW e
  PROVE  DropBinding(e, Shell) = Shell
<1> DEFINE w == Word("other")
<1>1. w \in Token /\ w.is # "flag" /\ Control \in Token /\ Control.is # "flag" /\ <<w>> \in Seq(Token)
  BY ShellIs
<1>2. <<w>> \o <<>> = <<w>>
  BY <1>1, NoEnd
<1>3. <<Control>> \o <<w>> = Shell
  BY <1>1, TwoTokens DEF Shell
<1> HIDE DEF w
<1>4. DropBinding(e, <<w>> \o <<>>) = <<w>> \o DropBinding(e, <<>>)
  BY <1>1, NothingReads, PassWords
<1>5. DropBinding(e, <<w>>) = <<w>>
  BY <1>2, <1>4, PassesStay
<1>6. DropBinding(e, <<Control>> \o <<w>>) = <<Control>> \o DropBinding(e, <<w>>)
  BY <1>1, PassWords
<1> QED  BY <1>3, <1>5, <1>6

LEMMA NoControlInRange ==
  ASSUME NEW c \in Seq(Token), NoControl(c)
  PROVE  Control \notin Range(c)
<1>1. DOMAIN c = 1..Len(c)
  OBVIOUS
<1> QED  BY <1>1, ShellIs DEF NoControl, Range

\* Stated once for all, so that the three adapters read alike.
LEMMA PreparedIs ==
  ASSUME NEW e \in Known3, NEW c \in Seq(Token), NEW tree \in Values, NoControl(c) \/ e # "codex"
  PROVE  Prepared(e, c, tree) = Bindings(e, tree) \o (IF e = "claude" THEN c ELSE DropBinding(e, c))
<1>1. CASE e = "claude"
  BY <1>1, NoEnd DEF Prepared, Bindings
<1>2. CASE e = "codex"
  <2>1. Control \notin Range(c)
    BY <1>2, NoControlInRange
  <2> QED  BY <1>2, <2>1 DEF Prepared, CodexPrepared, Bindings
<1>3. CASE e = "agy"
  BY <1>3 DEF Prepared, AgyPrepared, Bindings
<1> QED  BY <1>1, <1>2, <1>3 DEF Known3

LEMMA PreparedEnds ==
  ASSUME NEW e \in Known3, NEW k \in Built(e), NEW tree \in Values,
         NEW w, (w \in Ends /\ (w = <<>> \/ Closed(e, k))) \/ (w = Shell /\ e # "codex")
  PROVE  Prepared(e, k \o w, tree) = (Bindings(e, tree) \o Dropped(e, k)) \o w
<1>1. k \in Seq(Token) /\ w \in Seq(Token)
  BY BuiltIs, EndsAre, ShellIs
<1>2. k \o w \in Seq(Token) /\ (NoControl(k \o w) \/ e # "codex")
  BY <1>1, JoinIs, PlainSays
<1>3. Cut(e, k, w)
  BY ShellIs DEF Cut
<1>4. (IF e = "claude" THEN k \o w ELSE DropBinding(e, k \o w)) = Dropped(e, k) \o w
  <2>1. DropBinding(e, w) = w
    BY EndsStay, ShellStays
  <2>2. e # "claude" => \A y \in Seq(Token) : Cut(e, k, y) => DropBinding(e, k \o y) = Dropped(e, k) \o DropBinding(e, y)
    BY DroppedIs
  <2>3. e = "claude" => Dropped(e, k) = k
    BY DEF Dropped
  <2> QED  BY <1>1, <1>3, <2>1, <2>2, <2>3
<1>5. Prepared(e, k \o w, tree) = Bindings(e, tree) \o (Dropped(e, k) \o w)
  BY <1>2, <1>4, PreparedIs
<1>6. Associates(Bindings(e, tree), Dropped(e, k), w)
  BY <1>1, BindingsAre, DroppedIs, ConcatAssociates
<1> QED  BY <1>5, <1>6, Zenon DEF Associates

LEMMA PreparedVerb ==
  ASSUME NEW v \in {"resume", "fork"}, NEW chat \in Values, NEW k \in Built("codex"), NEW tree \in Values,
         NEW w \in Ends, w = <<>> \/ Closed("codex", k)
  PROVE  Prepared("codex", <<Word(v), Word(chat)>> \o (k \o w), tree)
           = Bindings("codex", tree) \o (<<Word(v), Word(chat)>> \o (Dropped("codex", k) \o w))
<1> DEFINE e == "codex"
           h == <<Word(v), Word(chat)>>
           u == k \o w
<1>0. e \in Known3 /\ <<>> \in Built(e) /\ Closed(e, <<>>) /\ v \in Values
  BY BuiltGrows, NothingReads DEF Known3, Grows, Values
<1>1. Word(v) \in Token /\ Word(chat) \in Token /\ Word(v).is # "flag" /\ Word(chat).is # "flag"
  BY <1>0, TokensAre
<1>2. k \in Seq(Token) /\ w \in Seq(Token) /\ h \in Seq(Token)
  BY <1>0, <1>1, BuiltIs, EndsAre
<1>3. u \in Seq(Token) /\ h \o u \in Seq(Token)
  BY <1>2, JoinIs
<1>4. NoControl(h \o u)
  <2>1. LET c == <<>> \o (<<Word(v), Word(chat)>> \o (k \o w)) IN
         NoControl(c) /\ Says("codex", c, <<>> \o k, {chat}, Said(w))
    BY <1>0, VerbSays, Zenon
  <2> QED  BY <1>3, <2>1, NoEnd
<1>5. DropBinding(e, u) = Dropped(e, k) \o w
  <2>1. Cut(e, k, w)
    BY DEF Cut
  <2>2. DropBinding(e, w) = w
    BY EndsStay
  <2>3. \A y \in Seq(Token) : Cut(e, k, y) => DropBinding(e, k \o y) = Dropped(e, k) \o DropBinding(e, y)
    BY <1>0, DroppedIs
  <2> QED  BY <1>2, <2>1, <2>2, <2>3
<1>6. Dropped(e, k) \o w \in Seq(Token)
  BY <1>0, <1>2, DroppedIs, JoinIs
<1> DEFINE d == Dropped(e, k) \o w
<1>7. /\ h \o u = <<Word(v)>> \o (<<Word(chat)>> \o u)
      /\ h \o d = <<Word(v)>> \o (<<Word(chat)>> \o d)
  <2>1. TwoInFront(Word(v), Word(chat), u)
    BY <1>1, <1>3, AfterTwo, Zenon
  <2>2. TwoInFront(Word(v), Word(chat), d)
    BY <1>1, <1>6, AfterTwo, Zenon
  <2> QED  BY <2>1, <2>2, Zenon DEF TwoInFront
<1>8. <<Word(chat)>> \o u \in Seq(Token)
  BY <1>1, <1>3
<1> HIDE DEF u, d
<1>9. DropBinding(e, h \o u) = h \o d
  <2>1. DropBinding(e, <<Word(chat)>> \o u) = <<Word(chat)>> \o DropBinding(e, u)
    BY <1>1, <1>3, PassWords
  <2>2. DropBinding(e, <<Word(v)>> \o (<<Word(chat)>> \o u)) = <<Word(v)>> \o DropBinding(e, <<Word(chat)>> \o u)
    BY <1>1, <1>8, PassWords
  <2> QED  BY <1>5, <1>7, <2>1, <2>2 DEF d
<1>10. Prepared(e, h \o u, tree) = Bindings(e, tree) \o DropBinding(e, h \o u)
  BY <1>0, <1>3, <1>4, PreparedIs
<1> QED  BY <1>9, <1>10 DEF u, d, h, e
----------------------------------------------------------------------------
(* The commands of the operations, by their settings.                       *)

AccessOf(e, ro) == IF ro THEN ReadOnly(e) ELSE Writable(e)
ReadOnlySettings(e) ==
    CASE e = "claude" ->
           {[flag |-> "--allowedTools", values |-> {"Bash"}], [flag |-> "--disallowedTools", values |-> {"Edit"}],
            [flag |-> "--permission-mode", values |-> {"dontAsk"}], [flag |-> "--setting-sources", values |-> {"user"}]}
      [] e = "codex" ->
           {[flag |-> "--sandbox", values |-> {"full"}], [flag |-> "--ask-for-approval", values |-> {"never"}],
            [flag |-> "trust", values |-> {}]}
      [] e = "agy" -> {[flag |-> "--mode", values |-> {"plan"}]}
WritableSettings(e) ==
    {[flag |-> "yolo", values |-> {}]} \cup (IF e = "codex" THEN {[flag |-> "trust", values |-> {}]} ELSE {})
AccessSettings(e, ro) == IF ro THEN ReadOnlySettings(e) ELSE WritableSettings(e)

AccessWords(e, ro) ==
    /\ AccessOf(e, ro) \in Built(e) /\ AccessOf(e, ro) \in Seq(Token) /\ AccessOf(e, ro) # <<>>
    /\ AccessOf(e, ro)[1].is = "flag" /\ Closed(e, AccessOf(e, ro))
    /\ Settings(e, AccessOf(e, ro)) = AccessSettings(e, ro)

LEMMA WritableIs ==
  ASSUME NEW e \in Known3
  PROVE  AccessWords(e, FALSE)
<1>1. "yolo" \in Names(e) /\ Arity(e, "yolo") = "none"
  BY DEF Names, Arity, Known3
<1> DEFINE x == <<Flag("yolo")>>
           y == <<Flag("trust")>>
<1>2. /\ x \in Built(e) /\ Settings(e, x) = {[flag |-> "yolo", values |-> {}]} /\ x \in Seq(Token) /\ x # <<>>
      /\ x[1].is = "flag" /\ Closed(e, x)
  BY <1>1, BareBuilt
<1>3. CASE e = "codex"
  <2>1. "trust" \in Names(e) /\ Arity(e, "trust") = "none"
    BY <1>3 DEF Names, Arity
  <2>2. y \in Built(e) /\ Settings(e, y) = {[flag |-> "trust", values |-> {}]} /\ y # <<>> /\ Closed(e, y)
    BY <2>1, BareBuilt
  <2>3. /\ AccessOf(e, FALSE) = x \o y
        /\ AccessSettings(e, FALSE) = {[flag |-> "yolo", values |-> {}]} \cup {[flag |-> "trust", values |-> {}]}
    BY <1>3 DEF AccessOf, Writable, AccessSettings, WritableSettings
  <2> HIDE DEF x, y
  <2>4. /\ x \o y \in Built(e) /\ Settings(e, x \o y) = Settings(e, x) \cup Settings(e, y)
        /\ x \o y \in Seq(Token) /\ x \o y # <<>> /\ (x \o y)[1].is = "flag" /\ Closed(e, x \o y)
    BY <1>2, <2>2, BothBuilt
  <2> QED  BY <1>2, <2>2, <2>3, <2>4, Zenon DEF AccessWords
<1>4. CASE e # "codex"
  <2>1. AccessSettings(e, FALSE) = {[flag |-> "yolo", values |-> {}]}
    BY <1>4 DEF AccessSettings, WritableSettings
  <2>2. AccessOf(e, FALSE) = x
    BY <1>4 DEF AccessOf, Writable
  <2> HIDE DEF x
  <2> QED  BY <1>2, <2>1, <2>2, Zenon DEF AccessWords
<1> QED  BY <1>3, <1>4

LEMMA ReadOnlyIs ==
  ASSUME NEW e \in Known3
  PROVE  AccessWords(e, TRUE)
<1>1. CASE e = "claude"
  <2> DEFINE p == Option("--allowedTools", "Bash")
             q == Option("--disallowedTools", "Edit")
             r == Option("--permission-mode", "dontAsk")
             t == Option("--setting-sources", "user")
  <2>1. /\ "--allowedTools" \in Names(e) /\ Arity(e, "--allowedTools") = "many"
        /\ "--disallowedTools" \in Names(e) /\ Arity(e, "--disallowedTools") = "many"
        /\ "--permission-mode" \in Names(e) /\ Arity(e, "--permission-mode") = "one"
        /\ "--setting-sources" \in Names(e) /\ Arity(e, "--setting-sources") = "one"
        /\ {"Bash", "Edit", "dontAsk", "user"} \subseteq Values
    BY <1>1 DEF Names, Arity, Values
  <2>2. p \in Built(e) /\ Settings(e, p) = {[flag |-> "--allowedTools", values |-> {"Bash"}]}
    BY <2>1, OptionBuilt
  <2>3. q \in Built(e) /\ Settings(e, q) = {[flag |-> "--disallowedTools", values |-> {"Edit"}]} /\ q # <<>>
    BY <2>1, OptionBuilt
  <2>4. r \in Built(e) /\ Settings(e, r) = {[flag |-> "--permission-mode", values |-> {"dontAsk"}]} /\ r # <<>>
    BY <2>1, OptionBuilt
  <2>5. /\ t \in Built(e) /\ Settings(e, t) = {[flag |-> "--setting-sources", values |-> {"user"}]} /\ t # <<>>
        /\ Closed(e, t)
    BY <2>1, OptionBuilt
  <2>6. AccessOf(e, TRUE) = ((p \o q) \o r) \o t
    BY <1>1 DEF AccessOf, ReadOnly, ClaudeReadOnly
  <2>7. AccessSettings(e, TRUE) = (({[flag |-> "--allowedTools", values |-> {"Bash"}]}
           \cup {[flag |-> "--disallowedTools", values |-> {"Edit"}]})
           \cup {[flag |-> "--permission-mode", values |-> {"dontAsk"}]})
           \cup {[flag |-> "--setting-sources", values |-> {"user"}]}
    BY <1>1 DEF AccessSettings, ReadOnlySettings
  <2> HIDE DEF p, q, r, t
  <2>8. p \o q \in Built(e) /\ Settings(e, p \o q) = Settings(e, p) \cup Settings(e, q)
    BY <2>2, <2>3, BothBuilt
  <2>9. (p \o q) \o r \in Built(e) /\ Settings(e, (p \o q) \o r) = Settings(e, p \o q) \cup Settings(e, r)
    BY <2>8, <2>4, BothBuilt
  <2>10. /\ ((p \o q) \o r) \o t \in Built(e)
         /\ Settings(e, ((p \o q) \o r) \o t) = Settings(e, (p \o q) \o r) \cup Settings(e, t)
         /\ ((p \o q) \o r) \o t \in Seq(Token) /\ ((p \o q) \o r) \o t # <<>>
         /\ (((p \o q) \o r) \o t)[1].is = "flag" /\ Closed(e, ((p \o q) \o r) \o t)
    BY <2>9, <2>5, BothBuilt
  <2> QED  BY <2>2, <2>3, <2>4, <2>5, <2>6, <2>7, <2>8, <2>9, <2>10, Zenon DEF AccessWords
<1>2. CASE e = "codex"
  <2> DEFINE p == Option("--sandbox", "full")
             q == Option("--ask-for-approval", "never")
             r == <<Flag("trust")>>
  <2>1. /\ "--sandbox" \in Names(e) /\ Arity(e, "--sandbox") = "one"
        /\ "--ask-for-approval" \in Names(e) /\ Arity(e, "--ask-for-approval") = "one"
        /\ "trust" \in Names(e) /\ Arity(e, "trust") = "none"
        /\ {"full", "never"} \subseteq Values
    BY <1>2 DEF Names, Arity, Values
  <2>2. p \in Built(e) /\ Settings(e, p) = {[flag |-> "--sandbox", values |-> {"full"}]}
    BY <2>1, OptionBuilt
  <2>3. q \in Built(e) /\ Settings(e, q) = {[flag |-> "--ask-for-approval", values |-> {"never"}]} /\ q # <<>>
    BY <2>1, OptionBuilt
  <2>4. r \in Built(e) /\ Settings(e, r) = {[flag |-> "trust", values |-> {}]} /\ r # <<>> /\ Closed(e, r)
    BY <2>1, BareBuilt
  <2>5. AccessOf(e, TRUE) = (p \o q) \o r
    BY <1>2 DEF AccessOf, ReadOnly, CodexReadOnly
  <2>6. AccessSettings(e, TRUE) = ({[flag |-> "--sandbox", values |-> {"full"}]}
           \cup {[flag |-> "--ask-for-approval", values |-> {"never"}]})
           \cup {[flag |-> "trust", values |-> {}]}
    BY <1>2 DEF AccessSettings, ReadOnlySettings
  <2> HIDE DEF p, q, r
  <2>7. p \o q \in Built(e) /\ Settings(e, p \o q) = Settings(e, p) \cup Settings(e, q)
    BY <2>2, <2>3, BothBuilt
  <2>8. /\ (p \o q) \o r \in Built(e) /\ Settings(e, (p \o q) \o r) = Settings(e, p \o q) \cup Settings(e, r)
        /\ (p \o q) \o r \in Seq(Token) /\ (p \o q) \o r # <<>>
        /\ ((p \o q) \o r)[1].is = "flag" /\ Closed(e, (p \o q) \o r)
    BY <2>7, <2>4, BothBuilt
  <2> QED  BY <2>2, <2>3, <2>4, <2>5, <2>6, <2>7, <2>8, Zenon DEF AccessWords
<1>3. CASE e = "agy"
  <2>1. "--mode" \in Names(e) /\ Arity(e, "--mode") = "one" /\ "plan" \in Values
    BY <1>3 DEF Names, Arity, Values
  <2>2. AccessOf(e, TRUE) = Option("--mode", "plan") /\ AccessSettings(e, TRUE) = {[flag |-> "--mode", values |-> {"plan"}]}
    BY <1>3 DEF AccessOf, ReadOnly, AgyReadOnly, AccessSettings, ReadOnlySettings
  <2> DEFINE x == Option("--mode", "plan")
  <2>3. /\ x \in Built(e) /\ Settings(e, x) = {[flag |-> "--mode", values |-> {"plan"}]} /\ x \in Seq(Token) /\ x # <<>>
        /\ x[1].is = "flag" /\ Closed(e, x)
    BY <2>1, OptionBuilt
  <2> HIDE DEF x
  <2>4. AccessOf(e, TRUE) = x
    BY <2>2 DEF x
  <2> QED  BY <2>2, <2>3, <2>4, Zenon DEF AccessWords
<1> QED  BY <1>1, <1>2, <1>3 DEF Known3

LEMMA AccessIs ==
  ASSUME NEW e \in Known3, NEW ro \in BOOLEAN
  PROVE  AccessWords(e, ro)
BY WritableIs, ReadOnlyIs

\* What is left of a command whose access is replaced.
LEMMA StripsIs ==
  ASSUME NEW e \in Known3, NEW y \in Built(e)
  PROVE  /\ StripAccess(e, y) \in Built(e) /\ StripAccess(e, y) \in Seq(Token)
         /\ Settings(e, StripAccess(e, y)) = Settings(e, y) \ AccessDrops(e)
<1>1. PassesBuilt(e, AccessPass(e), AccessDrops(e), y)
  BY AccessPasses, PassOfBuilt
<1>2. y \in Seq(Token)
  BY BuiltIs
<1>3. AccessPass(e)[y] = StripAccess(e, y)
  BY <1>2 DEF AccessPass
<1>4. StripAccess(e, y) \in Built(e) /\ Settings(e, StripAccess(e, y)) = Settings(e, y) \ AccessDrops(e)
  BY <1>1, <1>2, <1>3, Zenon DEF PassesBuilt
<1> QED  BY <1>4, BuiltIs

Applied(e, y, ro) == (Settings(e, y) \ AccessDrops(e)) \cup AccessSettings(e, ro)

LEMMA AppliedIs ==
  ASSUME NEW e \in Known3, NEW y \in Built(e), NEW ro \in BOOLEAN
  PROVE  /\ ApplyAccess(e, y, ro) = StripAccess(e, y) \o AccessOf(e, ro)
         /\ ApplyAccess(e, y, ro) \in Built(e) /\ ApplyAccess(e, y, ro) \in Seq(Token)
         /\ Settings(e, ApplyAccess(e, y, ro)) = Applied(e, y, ro)
         /\ Closed(e, ApplyAccess(e, y, ro))
<1> DEFINE a == StripAccess(e, y)
           z == AccessOf(e, ro)
<1>1. a \in Built(e) /\ a \in Seq(Token) /\ Settings(e, a) = Settings(e, y) \ AccessDrops(e)
  BY StripsIs
<1>2. z \in Built(e) /\ z # <<>> /\ Closed(e, z) /\ Settings(e, z) = AccessSettings(e, ro)
  BY AccessIs DEF AccessWords
<1>3. ApplyAccess(e, y, ro) = a \o z
  BY DEF ApplyAccess, AccessOf
<1> HIDE DEF a, z
<1>4. /\ a \o z \in Built(e) /\ a \o z \in Seq(Token) /\ Closed(e, a \o z)
      /\ Settings(e, a \o z) = Settings(e, a) \cup Settings(e, z)
  BY <1>1, <1>2, BothBuilt
<1> QED  BY <1>1, <1>2, <1>3, <1>4 DEF a, z, Applied
Composed(e, tree, S, ro, more) ==
    BindingSettings(e, tree) \cup Unbound(e, ((S \ AccessDrops(e)) \cup AccessSettings(e, ro)) \cup more)

\* The front of prepare_workspace before items and at most one word.
LEMMA PreparedSays ==
  ASSUME NEW e \in Known3, NEW k \in Built(e), NEW tree \in Values, NEW w \in Ends,
         w = <<>> \/ (Closed(e, k) /\ Closed(e, Bindings(e, tree) \o Dropped(e, k)))
  PROVE  LET c == Prepared(e, k \o w, tree)
             b == Bindings(e, tree) \o Dropped(e, k)
         IN  /\ NoControl(c)
             /\ Settings(e, b) = BindingSettings(e, tree) \cup Unbound(e, Settings(e, k))
             /\ Says(e, c, b, ValuesIn(Settings(e, b), ChatFlags), PromptsIn(e, Settings(e, b), w))
<1> DEFINE b == Bindings(e, tree) \o Dropped(e, k)
<1>1. Prepared(e, k \o w, tree) = b \o w
  BY PreparedEnds, Zenon
<1>2. b \in Built(e) /\ Settings(e, b) = BindingSettings(e, tree) \cup Unbound(e, Settings(e, k))
  <2>1. Bindings(e, tree) \in Built(e) /\ Settings(e, Bindings(e, tree)) = BindingSettings(e, tree)
    BY BindingsAre
  <2>2. Dropped(e, k) \in Built(e) /\ Settings(e, Dropped(e, k)) = Unbound(e, Settings(e, k))
    BY DroppedIs
  <2> QED  BY <2>1, <2>2, BuiltJoins
<1>3. w = <<>> \/ Closed(e, b)
  OBVIOUS
<1> HIDE DEF b
<1>4. NoControl(b \o w)
      /\ Says(e, b \o w, b, ValuesIn(Settings(e, b), ChatFlags), PromptsIn(e, Settings(e, b), w))
  BY <1>2, <1>3, PlainSays, Zenon
<1> QED  BY <1>1, <1>2, <1>4, Zenon DEF b

\* Access flags come last, so nothing in front of them takes a word behind them.
LEMMA StillCloses ==
  ASSUME NEW e \in Known3, NEW y \in Built(e), NEW ro \in BOOLEAN, NEW tree \in Values
  PROVE  Closed(e, Bindings(e, tree) \o Dropped(e, ApplyAccess(e, y, ro)))
<1> DEFINE a == StripAccess(e, y)
           z == AccessOf(e, ro)
           k == ApplyAccess(e, y, ro)
           f == Bindings(e, tree)
<1>1. k = a \o z /\ k \in Built(e) /\ Closed(e, k) /\ k \in Seq(Token)
  BY AppliedIs
<1>2. a \in Built(e)
  BY StripsIs
<1>3. z \in Built(e) /\ z \in Seq(Token) /\ z # <<>> /\ z[1].is = "flag" /\ Closed(e, z) /\ Settings(e, z) = AccessSettings(e, ro)
  BY AccessIs DEF AccessWords
<1>4. f \in Built(e)
  BY BindingsAre
<1> HIDE DEF a, z, k, f
<1>5. CASE e = "agy"
  <2>1. f \o Dropped(e, k) \in Built(e)
    BY <1>1, <1>4, DroppedIs, BuiltJoins
  <2> QED  BY <1>5, <2>1, AgyCloses DEF k, f
<1>6. CASE e = "claude"
  <2>1. Dropped(e, k) = k
    BY <1>6 DEF Dropped
  <2>2. f = <<>>
    BY <1>6 DEF Bindings, f
  <2>3. f \o Dropped(e, k) = k
    BY <1>1, <2>1, <2>2, NoEnd
  <2> QED  BY <1>1, <2>3 DEF k, f
<1>7. CASE e = "codex"
  <2>1. Dropped(e, z) = z
    <3>1. AccessSettings(e, ro) \cap BindingDrops(e) = {}
      BY <1>7 DEF AccessSettings, ReadOnlySettings, WritableSettings, BindingDrops, IsBinding
    <3>2. Unbound(e, Settings(e, z)) = Settings(e, z)
      BY <1>3, <1>7, <3>1 DEF Unbound
    <3> QED  BY <1>3, <3>2, DroppedIs
  <2>2. DropBinding(e, k) = Dropped(e, a) \o DropBinding(e, z)
    <3>1. Cut(e, a, z)
      BY <1>3 DEF Cut
    <3>2. \A q \in Seq(Token) : Cut(e, a, q) => DropBinding(e, a \o q) = Dropped(e, a) \o DropBinding(e, q)
      BY <1>2, <1>7, DroppedIs
    <3> QED  BY <1>1, <1>3, <3>1, <3>2
  <2>3. Dropped(e, k) = Dropped(e, a) \o z
    BY <1>7, <2>1, <2>2 DEF Dropped
  <2>4. Dropped(e, k) \in Built(e) /\ Dropped(e, k) # <<>> /\ Closed(e, Dropped(e, k))
    <3>1. Dropped(e, a) \in Built(e)
      BY <1>2, DroppedIs
    <3> QED  BY <1>3, <2>3, <3>1, BothBuilt
  <2>5. Closed(e, f \o Dropped(e, k))
    BY <1>4, <2>4, BothBuilt
  <2> QED  BY <2>5 DEF k, f
<1> QED  BY <1>5, <1>6, <1>7 DEF Known3

\* A command with new access and, if seeded, a prompt: of a spawn, a handover, a rollover.
Seeded(e, y, ro, seeded, text) ==
    ApplyAccess(e, y, ro) \o (IF seeded THEN Seed(e, text) ELSE <<>>)
SeedSettings(e, seeded, text) == IF e = "agy" /\ seeded THEN {[flag |-> "-i", values |-> {text}]} ELSE {}
SeedPrompts(e, S, seeded, text) == IF e = "agy" THEN ValuesIn(S, {"-i"}) ELSE IF seeded THEN {text} ELSE {}

LEMMA SeedSays ==
  ASSUME NEW e \in Known3, NEW y \in Built(e), NEW ro \in BOOLEAN, NEW tree \in Values,
         NEW seeded \in BOOLEAN, NEW text \in Values \ {"resume", "fork"}
  PROVE  LET c == Prepared(e, Seeded(e, y, ro, seeded, text), tree)
             S == Composed(e, tree, Settings(e, y), ro, SeedSettings(e, seeded, text))
         IN  /\ NoControl(c)
             /\ \E b : Settings(e, b) = S
                       /\ Says(e, c, b, ValuesIn(S, ChatFlags), SeedPrompts(e, S, seeded, text))
<1> DEFINE k == ApplyAccess(e, y, ro)
           S == Composed(e, tree, Settings(e, y), ro, SeedSettings(e, seeded, text))
           w == IF seeded /\ e # "agy" THEN <<Word(text)>> ELSE <<>>
           z == Option("-i", text)
           m == IF seeded /\ e = "agy" THEN k \o z ELSE k
<1>1. /\ k \in Built(e) /\ k \in Seq(Token) /\ Settings(e, k) = Applied(e, y, ro)
      /\ Closed(e, k)
  BY AppliedIs
<1>2. w \in Ends /\ w \in Seq(Token)
  BY EndsAre, NoEnd DEF Ends
<1>3. Said(w) = IF seeded /\ e # "agy" THEN {text} ELSE {}
  <2>1. CASE seeded /\ e # "agy"
    <3>1. w = <<Word(text)>> /\ Word(text).name = text /\ Word(text) \in Token
      BY <2>1, TokensAre
    <3>2. Len(w) = 1 /\ w[1] = Word(text) /\ 1..1 = {1}
      BY <3>1
    <3> QED  BY <2>1, <3>1, <3>2 DEF Said
  <2>2. CASE ~(seeded /\ e # "agy")
    BY <2>2, NoEnd
  <2> QED  BY <2>1, <2>2
<1>4. /\ m \in Built(e) /\ m \in Seq(Token)
      /\ Settings(e, m) = Applied(e, y, ro) \cup SeedSettings(e, seeded, text)
      /\ Seeded(e, y, ro, seeded, text) = m \o w
  <2>1. CASE seeded /\ e = "agy"
    <3>1. "-i" \in Names(e) /\ Arity(e, "-i") = "one"
      BY <2>1 DEF Names, Arity
    <3>2. z \in Built(e) /\ Settings(e, z) = {[flag |-> "-i", values |-> {text}]} /\ z # <<>>
      BY <3>1, OptionBuilt
    <3> HIDE DEF k, z
    <3>3. k \o z \in Built(e) /\ Settings(e, k \o z) = Settings(e, k) \cup Settings(e, z) /\ k \o z \in Seq(Token)
      BY <1>1, <3>2, BothBuilt
    <3>4. SeedSettings(e, seeded, text) = {[flag |-> "-i", values |-> {text}]}
      BY <2>1 DEF SeedSettings
    <3>5. Seeded(e, y, ro, seeded, text) = k \o z
      BY <2>1 DEF Seeded, Seed, k, z
    <3> QED  BY <1>1, <2>1, <3>2, <3>3, <3>4, <3>5, NoEnd
  <2>2. CASE ~(seeded /\ e = "agy")
    <3>1. SeedSettings(e, seeded, text) = {}
      BY <2>2 DEF SeedSettings
    <3>2. Seeded(e, y, ro, seeded, text) = k \o w
      BY <2>2 DEF Seeded, Seed
    <3> QED  BY <1>1, <2>2, <3>1, <3>2
  <2> QED  BY <2>1, <2>2
<1>5. w = <<>> \/ (Closed(e, m) /\ Closed(e, Bindings(e, tree) \o Dropped(e, m)))
  <2>1. CASE seeded /\ e # "agy"
    BY <1>1, <2>1, StillCloses
  <2>2. CASE ~(seeded /\ e # "agy")
    BY <2>2
  <2> QED  BY <2>1, <2>2
<1>6. SeedPrompts(e, S, seeded, text) = PromptsIn(e, S, w)
  <2> HIDE DEF S, w
  <2> QED  BY <1>3 DEF SeedPrompts, PromptsIn
<1> HIDE DEF w, m, k, z
<1> DEFINE c == Prepared(e, m \o w, tree)
           b == Bindings(e, tree) \o Dropped(e, m)
<1>7. /\ NoControl(c)
      /\ Settings(e, b) = BindingSettings(e, tree) \cup Unbound(e, Settings(e, m))
      /\ Says(e, c, b, ValuesIn(Settings(e, b), ChatFlags), PromptsIn(e, Settings(e, b), w))
  BY <1>2, <1>4, <1>5, PreparedSays, Zenon
<1>8. Settings(e, b) = S
  BY <1>4, <1>7 DEF Composed, Applied
<1> HIDE DEF b, c, S
<1>9. Says(e, c, b, ValuesIn(S, ChatFlags), SeedPrompts(e, S, seeded, text))
  BY <1>6, <1>7, <1>8
<1> QED  BY <1>4, <1>7, <1>8, <1>9, Zenon DEF c, S
IdentitySettings(e, kind, chat) ==
    CASE e = "claude" -> {[flag |-> "--resume", values |-> {chat}]}
                         \cup (IF kind = "fork" THEN {[flag |-> "--fork-session", values |-> {}]} ELSE {})
      [] e = "codex" -> {} [] e = "agy" -> {[flag |-> "--conversation", values |-> {chat}]}

LEMMA IdentityIs ==
  ASSUME NEW e \in {"claude", "agy"}, NEW kind \in {"resume", "fork"}, NEW chat \in Values
  PROVE  /\ Identity(e, kind, chat) \in Built(e)
         /\ Settings(e, Identity(e, kind, chat)) = IdentitySettings(e, kind, chat)
<1>0. e \in Known3
  BY DEF Known3
<1>1. CASE e = "claude"
  <2> DEFINE x == Option("--resume", chat)
             y == <<Flag("--fork-session")>>
  <2>1. /\ "--resume" \in Names(e) /\ Arity(e, "--resume") = "maybe"
        /\ "--fork-session" \in Names(e) /\ Arity(e, "--fork-session") = "none"
    BY <1>1 DEF Names, Arity
  <2>2. x \in Built(e) /\ Settings(e, x) = {[flag |-> "--resume", values |-> {chat}]} /\ x \in Seq(Token)
    BY <1>0, <2>1, OptionBuilt
  <2>3. y \in Built(e) /\ Settings(e, y) = {[flag |-> "--fork-session", values |-> {}]} /\ y # <<>>
    BY <1>0, <2>1, BareBuilt
  <2>4. x \o <<>> = x
    BY <2>2, NoEnd
  <2>5. Identity(e, kind, chat) = IF kind = "fork" THEN x \o y ELSE x
    BY <1>1, <2>4 DEF Identity
  <2>6. IdentitySettings(e, kind, chat)
          = IF kind = "fork" THEN {[flag |-> "--resume", values |-> {chat}]} \cup {[flag |-> "--fork-session", values |-> {}]}
            ELSE {[flag |-> "--resume", values |-> {chat}]}
    BY <1>1 DEF IdentitySettings
  <2> HIDE DEF x, y
  <2>7. x \o y \in Built(e) /\ Settings(e, x \o y) = Settings(e, x) \cup Settings(e, y)
    BY <1>0, <2>2, <2>3, BothBuilt
  <2> QED  BY <2>2, <2>3, <2>5, <2>6, <2>7
<1>2. CASE e = "agy"
  <2>1. "--conversation" \in Names(e) /\ Arity(e, "--conversation") = "one"
    BY <1>2 DEF Names, Arity
  <2>2. Identity(e, kind, chat) = Option("--conversation", chat)
    BY <1>2 DEF Identity
  <2>3. IdentitySettings(e, kind, chat) = {[flag |-> "--conversation", values |-> {chat}]}
    BY <1>2 DEF IdentitySettings
  <2> QED  BY <1>0, <2>1, <2>2, <2>3, OptionBuilt
<1> QED  BY <1>1, <1>2

\* A command that continues a chat: of a resume, a fork.
Continued(e, kind, chat, s, ro) == ApplyAccess(e, Identity(e, kind, chat) \o s, ro)

LEMMA CodexContinues ==
  ASSUME NEW kind \in {"resume", "fork"}, NEW chat \in Values, NEW s \in Built("codex"), NEW ro \in BOOLEAN,
         NEW tree \in Values
  PROVE  LET c == Prepared("codex", Continued("codex", kind, chat, s, ro), tree)
             S == Composed("codex", tree, Settings("codex", s), ro, {})
         IN  /\ NoControl(c)
             /\ \E b : Settings("codex", b) = S /\ Says("codex", c, b, {chat}, {})
<1> DEFINE e == "codex"
           h == <<Word(kind), Word(chat)>>
           a == StripAccess(e, s)
           z == AccessOf(e, ro)
           k == ApplyAccess(e, s, ro)
           S == Composed(e, tree, Settings(e, s), ro, {})
<1>0. e \in Known3 /\ kind \in Values
  BY DEF Known3, Values
<1>1. Word(kind) \in Token /\ Word(chat) \in Token /\ Word(kind).is # "flag" /\ Word(chat).is # "flag"
  BY <1>0, TokensAre
<1>2. h \in Seq(Token) /\ s \in Seq(Token)
  BY <1>0, <1>1, BuiltIs
<1>3. a \in Seq(Token)
  BY <1>0, StripsIs
<1>4. z \in Seq(Token)
  BY <1>0, AccessIs DEF AccessWords
<1>5. k = a \o z /\ k \in Built(e) /\ k \in Seq(Token) /\ Settings(e, k) = Applied(e, s, ro)
  BY <1>0, AppliedIs
<1>6. /\ h \o s = <<Word(kind)>> \o (<<Word(chat)>> \o s)
      /\ h \o a = <<Word(kind)>> \o (<<Word(chat)>> \o a)
  <2>1. TwoInFront(Word(kind), Word(chat), s)
    BY <1>1, <1>2, AfterTwo, Zenon
  <2>2. TwoInFront(Word(kind), Word(chat), a)
    BY <1>1, <1>3, AfterTwo, Zenon
  <2> QED  BY <2>1, <2>2, Zenon DEF TwoInFront
<1>7. <<Word(chat)>> \o s \in Seq(Token)
  BY <1>1, <1>2
<1>8. StripAccess(e, h \o s) = h \o a
  <2>1. StripAccess(e, <<Word(chat)>> \o s) = <<Word(chat)>> \o a
    BY <1>1, <1>2, PassWords
  <2>2. StripAccess(e, <<Word(kind)>> \o (<<Word(chat)>> \o s)) = <<Word(kind)>> \o StripAccess(e, <<Word(chat)>> \o s)
    BY <1>1, <1>7, PassWords
  <2> QED  BY <1>6, <2>1, <2>2
<1>9. Continued(e, kind, chat, s, ro) = h \o (k \o <<>>)
  <2>1. Identity(e, kind, chat) = h
    BY DEF Identity
  <2>2. Continued(e, kind, chat, s, ro) = StripAccess(e, h \o s) \o z
    BY <2>1 DEF Continued, ApplyAccess, AccessOf
  <2>3. Associates(h, a, z)
    BY <1>2, <1>3, <1>4, ConcatAssociates
  <2>4. (h \o a) \o z = h \o k
    BY <1>5, <2>3, Zenon DEF Associates
  <2>5. k \o <<>> = k
    BY <1>5, NoEnd
  <2> QED  BY <1>8, <2>2, <2>4, <2>5
<1> HIDE DEF k, a, z
<1> DEFINE f == Bindings(e, tree)
           m == Dropped(e, k)
           c == f \o (h \o (m \o <<>>))
<1>10. Prepared(e, h \o (k \o <<>>), tree) = c
  <2>1. k \in Built("codex") /\ <<>> \in Ends
    BY <1>5, NoEnd
  <2>2. ASSUME NEW w \in Ends, w = <<>>
        PROVE  Prepared("codex", <<Word(kind), Word(chat)>> \o (k \o w), tree)
                 = Bindings("codex", tree) \o (<<Word(kind), Word(chat)>> \o (Dropped("codex", k) \o w))
    <3>1. w = <<>> \/ Closed("codex", k)
      BY <2>2
    <3> QED  BY <2>1, <3>1, PreparedVerb, Zenon
  <2> QED  BY <2>1, <2>2
<1>11. f \in Built(e) /\ Closed(e, f) /\ Settings(e, f) = BindingSettings(e, tree)
  BY <1>0, BindingsAre
<1>12. m \in Built(e) /\ Settings(e, m) = Unbound(e, Settings(e, k))
  BY <1>0, <1>5, DroppedIs
<1> HIDE DEF f, m
<1>13. NoControl(c) /\ Says(e, c, f \o m, {chat}, {})
  <2>1. NoControl(c) /\ Says(e, c, f \o m, {chat}, Said(<<>>))
    BY <1>11, <1>12, NoEnd, VerbSays, Zenon
  <2> QED  BY <2>1, NoEnd
<1>14. Settings(e, f \o m) = Settings(e, f) \cup Settings(e, m)
  BY <1>0, <1>11, <1>12, BuiltJoins
<1>15. Settings(e, f \o m) = S
  BY <1>5, <1>11, <1>12, <1>14 DEF Composed, Applied
<1> HIDE DEF c, S
<1> QED  BY <1>9, <1>10, <1>13, <1>15, Zenon DEF S

LEMMA ContinueSays ==
  ASSUME NEW e \in Known3, NEW kind \in {"resume", "fork"}, NEW chat \in Values, NEW s \in Built(e), NEW ro \in BOOLEAN,
         NEW tree \in Values
  PROVE  LET c == Prepared(e, Continued(e, kind, chat, s, ro), tree)
             S == Composed(e, tree, IdentitySettings(e, kind, chat) \cup Settings(e, s), ro, {})
         IN  /\ NoControl(c)
             /\ \E b : Settings(e, b) = S
                       /\ Says(e, c, b, IF e = "codex" THEN {chat} ELSE ValuesIn(S, ChatFlags),
                               IF e = "agy" THEN ValuesIn(S, {"-i"}) ELSE {})
<1>1. CASE e = "codex"
  <2>1. IdentitySettings(e, kind, chat) \cup Settings(e, s) = Settings(e, s)
    BY <1>1 DEF IdentitySettings
  <2>2. LET c == Prepared(e, Continued(e, kind, chat, s, ro), tree)
            S == Composed(e, tree, Settings(e, s), ro, {})
        IN  /\ NoControl(c)
            /\ \E b : Settings(e, b) = S /\ Says(e, c, b, {chat}, {})
    BY <1>1, CodexContinues, Zenon
  <2> QED  BY <1>1, <2>1, <2>2
<1>2. CASE e \in {"claude", "agy"}
  <2> DEFINE y == Identity(e, kind, chat) \o s
             S == Composed(e, tree, Settings(e, y), ro, {})
             T == Composed(e, tree, Settings(e, y), ro, SeedSettings(e, FALSE, "brief"))
             k == Continued(e, kind, chat, s, ro)
  <2>1. y \in Built(e) /\ Settings(e, y) = IdentitySettings(e, kind, chat) \cup Settings(e, s)
    BY <1>2, IdentityIs, BuiltJoins
  <2>2. T = S
    BY DEF SeedSettings
  <2>3. Seeded(e, y, ro, FALSE, "brief") = k
    <3>1. k \in Seq(Token) /\ k = ApplyAccess(e, y, ro)
      BY <2>1, AppliedIs DEF Continued
    <3>2. k \o <<>> = k
      BY <3>1, NoEnd
    <3> QED  BY <3>1, <3>2 DEF Seeded
  <2>4. SeedPrompts(e, S, FALSE, "brief") = IF e = "agy" THEN ValuesIn(S, {"-i"}) ELSE {}
    BY DEF SeedPrompts
  <2>5. "brief" \in Values \ {"resume", "fork"}
    BY DEF Values
  <2>6. LET c == Prepared(e, Seeded(e, y, ro, FALSE, "brief"), tree)
            R == Composed(e, tree, Settings(e, y), ro, SeedSettings(e, FALSE, "brief"))
        IN  /\ NoControl(c)
            /\ \E b : Settings(e, b) = R /\ Says(e, c, b, ValuesIn(R, ChatFlags), SeedPrompts(e, R, FALSE, "brief"))
    BY <2>1, <2>5, SeedSays, Zenon
  <2> HIDE DEF k
  <2>7. /\ NoControl(Prepared(e, k, tree))
        /\ \E b : Settings(e, b) = S
                  /\ Says(e, Prepared(e, k, tree), b, ValuesIn(S, ChatFlags), IF e = "agy" THEN ValuesIn(S, {"-i"}) ELSE {})
    BY <2>2, <2>3, <2>4, <2>6
  <2> HIDE DEF y
  <2> QED  BY <1>2, <2>1, <2>7 DEF k
<1> QED  BY <1>1, <1>2 DEF Known3
----------------------------------------------------------------------------
(* Commands users write.                                                    *)

Flattens(f, S, seqs) ==
    /\ f \in [1..Len(seqs) -> Seq(S)] /\ FlattenSeq(seqs) = f[Len(seqs)]
    /\ \A i \in 1..Len(seqs) : f[i] = IF i = 1 THEN seqs[i] ELSE f[i - 1] \o seqs[i]

LEMMA FlattenIs ==
  ASSUME NEW S, NEW n \in Nat, n # 0, NEW seqs \in [1..n -> Seq(S)]
  PROVE  Len(seqs) = n /\ \E f : Flattens(f, S, seqs)
<1> DEFINE Body(f, i) == IF i = 1 THEN seqs[i] ELSE f[i - 1] \o seqs[i]
           Good(f, k) == f \in [1..k -> Seq(S)] /\ \A i \in 1..k : f[i] = Body(f, i)
           K == {k \in Nat : k <= n => \E f : Good(f, k)}
<1>1. seqs \in Seq(Seq(S))
  BY SeqDef
<1>2. Len(seqs) = n
  BY <1>1, LenProperties
<1>3. 0 \in K
  <2> DEFINE f == [i \in 1..0 |-> <<>>]
  <2>1. 1..0 = {}
    OBVIOUS
  <2>2. f \in [1..0 -> Seq(S)] /\ \A i \in 1..0 : f[i] = Body(f, i)
    BY <2>1
  <2> HIDE DEF f
  <2>3. \E g : Good(g, 0)
    BY <2>2
  <2> QED  BY <2>3
<1>4. \A i \in 1..n : seqs[i] \in Seq(S)
  OBVIOUS
<1> HIDE DEF K, Good
<1>5. ASSUME NEW k \in Nat, k \in K PROVE k + 1 \in K
  <2> SUFFICES ASSUME k + 1 <= n PROVE \E f : Good(f, k + 1)
    BY <1>5 DEF K
  <2>1. k <= n /\ k + 1 \in 1..n
    BY <1>5
  <2>2. PICK f : Good(f, k)
    BY <1>5, <2>1 DEF K
  <2> DEFINE g == [i \in 1..(k + 1) |-> IF i = k + 1 THEN Body(f, i) ELSE f[i]]
  <2>3. f \in [1..k -> Seq(S)] /\ \A i \in 1..k : f[i] = Body(f, i)
    BY <2>2 DEF Good
  <2>4. Body(f, k + 1) \in Seq(S)
    <3>1. seqs[k + 1] \in Seq(S)
      BY <1>4, <2>1
    <3>2. k + 1 = 1 \/ f[(k + 1) - 1] \in Seq(S)
      <4>1. k + 1 = 1 \/ (k + 1) - 1 \in 1..k
        BY <1>5
      <4> QED  BY <2>3, <4>1
    <3> QED  BY <3>1, <3>2
  <2>5. \A i \in 1..(k + 1) : (i = k + 1 \/ i \in 1..k) /\ (i = 1 \/ (i - 1 \in 1..k /\ i - 1 # k + 1))
    BY <1>5
  <2>6. \A i \in 1..k : i \in 1..(k + 1) /\ i # k + 1
    BY <1>5
  <2>7. g \in [1..(k + 1) -> Seq(S)]
    <3>1. \A i \in 1..(k + 1) : (IF i = k + 1 THEN Body(f, i) ELSE f[i]) \in Seq(S)
      BY <2>3, <2>4, <2>5
    <3> QED  BY <3>1
  <2>8. \A i \in 1..(k + 1) : g[i] = Body(f, i)
    BY <2>3, <2>5
  <2>9. \A i \in 1..(k + 1) : i = 1 \/ g[i - 1] = f[i - 1]
    BY <2>5, <2>6
  <2> HIDE DEF g
  <2>10. \A i \in 1..(k + 1) : g[i] = Body(g, i)
    BY <2>8, <2>9
  <2>11. Good(g, k + 1)
    BY <2>7, <2>10 DEF Good
  <2> QED  BY <2>11
<1>6. \A k \in Nat : k \in K
  BY <1>3, <1>5, SetInduction
<1>7. \E f : Good(f, n)
  BY <1>6 DEF K
<1> DEFINE flatten == CHOOSE f : f = [i \in 1..Len(seqs) |-> IF i = 1 THEN seqs[i] ELSE f[i - 1] \o seqs[i]]
<1>8. \E f : f = [i \in 1..Len(seqs) |-> IF i = 1 THEN seqs[i] ELSE f[i - 1] \o seqs[i]]
  <2>1. PICK f : Good(f, n)
    BY <1>7
  <2>2. f = [i \in 1..n |-> Body(f, i)]
    BY <2>1 DEF Good
  <2> QED  BY <1>2, <2>2
<1>9. flatten = [i \in 1..Len(seqs) |-> IF i = 1 THEN seqs[i] ELSE flatten[i - 1] \o seqs[i]]
  BY <1>8
<1>10. FlattenSeq(seqs) = flatten[n]
  BY <1>2 DEF FlattenSeq
<1> HIDE DEF flatten
<1>11. DOMAIN flatten = 1..n /\ \A i \in 1..n : flatten[i] = Body(flatten, i)
  BY <1>2, <1>9
<1> DEFINE L == {i \in Nat : i \in 1..n => flatten[i] \in Seq(S)}
<1>12. 0 \in L
  OBVIOUS
<1>13. ASSUME NEW i \in Nat, i \in L PROVE i + 1 \in L
  <2> SUFFICES ASSUME i + 1 \in 1..n PROVE flatten[i + 1] \in Seq(S)
    OBVIOUS
  <2>1. flatten[i + 1] = IF i + 1 = 1 THEN seqs[i + 1] ELSE flatten[(i + 1) - 1] \o seqs[i + 1]
    BY <1>11
  <2>2. seqs[i + 1] \in Seq(S)
    BY <1>4
  <2>3. i + 1 = 1 \/ flatten[(i + 1) - 1] \in Seq(S)
    <3>1. i + 1 = 1 \/ (i \in 1..n /\ (i + 1) - 1 = i)
      BY <1>13
    <3> QED  BY <1>13, <3>1
  <2> QED  BY <2>1, <2>2, <2>3
<1> HIDE DEF L
<1>14. \A i \in Nat : i \in L
  BY <1>12, <1>13, SetInduction
<1>15. flatten \in [1..n -> Seq(S)]
  <2>1. \A i \in 1..n : flatten[i] \in Seq(S)
    BY <1>14 DEF L
  <2>2. flatten = [i \in 1..n |-> flatten[i]]
    BY <1>2, <1>9
  <2> QED  BY <2>1, <2>2
<1>16. Flattens(flatten, S, seqs)
  BY <1>2, <1>10, <1>11, <1>15 DEF Flattens
<1> QED  BY <1>2, <1>16
\* An item a user may write: codex's own update check is not among them.
ByHand(e) == {it \in Items(e) : e = "codex" => it[1].name # "-c" \/ SettingOf(it).values = {"k"}}
NoBinding(e) == {b \in Built(e) : e = "codex" => Settings(e, b) \cap BindingDrops(e) = {}}

LEMMA BlocksAreItems ==
  ASSUME ~OddForms, NEW e \in Known3
  PROVE  Blocks(e) \subseteq ByHand(e)
<1>1. CASE e = "claude"
  <2>1. /\ \A n \in {"--model", "--resume", "--session-id", "--permission-mode", "--allowedTools", "--setting-sources"} :
             n \in Names(e) /\ Arity(e, n) # "none"
        /\ \A n \in {"--verbose", "--resume", "--continue", "yolo"} : n \in Names(e) /\ Arity(e, n) # "one"
        /\ "--add-dir" \in Names(e) /\ Arity(e, "--add-dir") = "many"
    BY <1>1 DEF Names, Arity
  <2>2. {"m", "c0", "plan", "Read", "project", "d1", "d2"} \subseteq Values
    BY DEF Values
  <2>3. \A n \in {"--model", "--resume", "--session-id", "--permission-mode", "--allowedTools", "--setting-sources"},
           v \in {"m", "c0", "plan", "Read", "project"} : Option(n, v) \in Items(e)
    BY <2>1, <2>2, OptionItem
  <2>4. \A n \in {"--verbose", "--resume", "--continue", "yolo"} : <<Flag(n)>> \in Items(e)
    BY <2>1, BareItem
  <2>5. <<Flag("--add-dir"), Word("d1"), Word("d2")>> \in Items(e)
    BY <2>1, <2>2, ListItem
  <2>6. Blocks(e) =
           {Option("--model", "m"), <<Flag("--verbose")>>, <<Flag("--add-dir"), Word("d1"), Word("d2")>>,
            <<Flag("--resume")>>, Option("--resume", "c0"), Option("--session-id", "c0"),
            <<Flag("--continue")>>, Option("--permission-mode", "plan"), <<Flag("yolo")>>,
            Option("--allowedTools", "Read"), Option("--setting-sources", "project")} \cup {}
    BY <1>1 DEF Blocks
  <2> SUFFICES ASSUME NEW it \in Blocks(e) PROVE it \in Items(e)
    BY <1>1 DEF ByHand
  <2> QED  BY <2>3, <2>4, <2>5, <2>6, Zenon
<1>2. CASE e = "codex"
  <2>1. /\ \A n \in {"-m", "--sandbox", "-c"} : n \in Names(e) /\ Arity(e, n) # "none"
        /\ \A n \in {"--search", "yolo"} : n \in Names(e) /\ Arity(e, n) # "one"
        /\ "--image" \in Names(e) /\ Arity(e, "--image") = "many"
    BY <1>2 DEF Names, Arity
  <2>2. {"m", "k", "other", "i1", "i2"} \subseteq Values
    BY DEF Values
  <2>3. \A n \in {"-m", "--sandbox", "-c"}, v \in {"m", "k", "other"} :
           /\ Option(n, v) \in Items(e) /\ SettingOf(Option(n, v)) = [flag |-> n, values |-> {v}]
           /\ Option(n, v)[1] = Flag(n)
    BY <2>1, <2>2, OptionItem
  <2>4. \A n \in {"--search", "yolo"} : <<Flag(n)>> \in Items(e) /\ <<Flag(n)>>[1] = Flag(n)
    BY <2>1, BareItem
  <2>5. <<Flag("--image"), Word("i1"), Word("i2")>> \in Items(e)
    BY <2>1, <2>2, ListItem
  <2>6. <<Flag("--image"), Word("i1"), Word("i2")>>[1] = Flag("--image")
    OBVIOUS
  <2>7. \A n : Flag(n).name = n
    BY DEF Flag
  <2>8. Blocks(e) =
           {Option("-m", "m"), <<Flag("--search")>>, <<Flag("--image"), Word("i1"), Word("i2")>>,
            Option("-c", "k"), <<Flag("yolo")>>, Option("--sandbox", "other")} \cup {}
    BY <1>2 DEF Blocks
  <2>9. \A it \in {<<Flag("--search")>>, <<Flag("yolo")>>, Option("-m", "m"), Option("--sandbox", "other"),
                   <<Flag("--image"), Word("i1"), Word("i2")>>} :
           it \in Items(e) /\ it[1].name # "-c"
    <3>1. \A n \in {"--search", "yolo"} : <<Flag(n)>> \in Items(e) /\ <<Flag(n)>>[1].name # "-c"
      BY <2>4, <2>7
    <3>2. Option("-m", "m") \in Items(e) /\ Option("-m", "m")[1].name # "-c"
      BY <2>3, <2>7
    <3>3. Option("--sandbox", "other") \in Items(e) /\ Option("--sandbox", "other")[1].name # "-c"
      BY <2>3, <2>7
    <3>4. <<Flag("--image"), Word("i1"), Word("i2")>>[1].name # "-c"
      BY <2>6, <2>7
    <3> QED  BY <2>5, <3>1, <3>2, <3>3, <3>4, Zenon
  <2>10. Option("-c", "k") \in Items(e) /\ SettingOf(Option("-c", "k")).values = {"k"}
    BY <2>3
  <2> SUFFICES ASSUME NEW it \in Blocks(e) PROVE it \in Items(e) /\ (it[1].name # "-c" \/ SettingOf(it).values = {"k"})
    BY DEF ByHand
  <2> QED  BY <2>8, <2>9, <2>10, Zenon
<1>3. CASE e = "agy"
  <2>1. /\ \A n \in {"--model", "--conversation", "-i", "--mode", "--add-dir"} : n \in Names(e) /\ Arity(e, n) # "none"
        /\ \A n \in {"--new-project", "--continue", "--sandbox"} : n \in Names(e) /\ Arity(e, n) # "one"
    BY <1>3 DEF Names, Arity
  <2>2. {"m", "c0", "p", "plan", "d1"} \subseteq Values
    BY DEF Values
  <2>3. \A n \in {"--model", "--conversation", "-i", "--mode", "--add-dir"}, v \in {"m", "c0", "p", "plan", "d1"} :
           Option(n, v) \in Items(e)
    BY <2>1, <2>2, OptionItem
  <2>4. \A n \in {"--new-project", "--continue", "--sandbox"} : <<Flag(n)>> \in Items(e)
    BY <2>1, BareItem
  <2>5. <<Inline("--model", "m")>> \in Items(e) /\ <<Inline("--conversation", "c0")>> \in Items(e)
    BY <1>3, InlineItem
  <2>6. Blocks(e) =
           {Option("--model", "m"), <<Inline("--model", "m")>>, <<Flag("--new-project")>>,
            Option("--conversation", "c0"), <<Inline("--conversation", "c0")>>, <<Flag("--continue")>>,
            Option("-i", "p"), Option("--mode", "plan"), <<Flag("--sandbox")>>, Option("--add-dir", "d1")}
    BY <1>3 DEF Blocks
  <2> SUFFICES ASSUME NEW it \in Blocks(e) PROVE it \in Items(e)
    BY <1>3 DEF ByHand
  <2> QED  BY <2>3, <2>4, <2>5, <2>6, Zenon
<1> QED  BY <1>1, <1>2, <1>3 DEF Known3

LEMMA ByHandStays ==
  ASSUME NEW e \in Known3, NEW it \in ByHand(e)
  PROVE  /\ it \in NoBinding(e)
         /\ Closed(e, it) \/ it \o <<Word("p")>> \in NoBinding(e)
<1>1. it \in Items(e) /\ it \in Built(e) /\ Settings(e, it) = {SettingOf(it)}
  BY ItemReads, ItemsAreBuilt DEF ByHand
<1>2. e = "codex" => SettingOf(it) \notin BindingDrops(e)
  <2> SUFFICES ASSUME e = "codex" PROVE ~IsBinding(e, SettingOf(it))
    BY DEF BindingDrops
  <2>1. SettingOf(it).flag = it[1].name
    BY DEF SettingOf
  <2>2. "k" \notin UpdateCheck
    BY DEF UpdateCheck
  <2> QED  BY <2>1, <2>2 DEF IsBinding, ByHand
<1>3. ASSUME ~Closed(e, it) PROVE it \o <<Word("p")>> \in NoBinding(e)
  <2> DEFINE d == it \o <<Word("p")>>
  <2>1. "p" \in Values
    BY DEF Values
  <2>2. d \in Items(e)
    BY <1>1, <1>3, <2>1, ItemTakes
  <2>3. d[1] = it[1]
    <3>1. it \in Seq(Token) /\ it # <<>> /\ <<Word("p")>> \in Seq(Token)
      <4>1. it \in Seq(Token) /\ it # <<>>
        BY <1>1, ItemIs, NothingReads
      <4>2. Word("p") \in Token
        BY <2>1, TokensAre
      <4> QED  BY <4>1, <4>2
    <3>2. \A i \in 1..Len(it) : d[i] = it[i]
      BY <3>1, JoinIs
    <3>3. 1 \in 1..Len(it)
      BY <3>1
    <3> QED  BY <3>2, <3>3
  <2> HIDE DEF d
  <2>4. e = "codex" => it[1].name # "-c"
    <3> SUFFICES ASSUME e = "codex", it[1].name = "-c" PROVE FALSE
      OBVIOUS
    <3>1. Arity(e, it[1].name) = "one"
      BY DEF Arity
    <3> QED  BY <1>1, <1>3, <3>1, ItemCloses
  <2>5. e = "codex" => SettingOf(d) \notin BindingDrops(e)
    <3>1. SettingOf(d).flag = it[1].name
      BY <2>3 DEF SettingOf
    <3> QED  BY <2>4, <3>1 DEF BindingDrops, IsBinding
  <2>6. d \in Built(e) /\ Settings(e, d) = {SettingOf(d)}
    BY <2>2, ItemReads, ItemsAreBuilt
  <2> QED  BY <2>5, <2>6 DEF NoBinding, d
<1> QED  BY <1>1, <1>2, <1>3 DEF NoBinding

LEMMA NoBindingJoins ==
  ASSUME NEW e \in Known3, NEW x \in NoBinding(e), NEW y \in NoBinding(e)
  PROVE  x \o y \in NoBinding(e)
<1>1. x \in Built(e) /\ y \in Built(e)
  BY DEF NoBinding
<1>2. x \o y \in Built(e) /\ Settings(e, x \o y) = Settings(e, x) \cup Settings(e, y)
  BY <1>1, BuiltJoins
<1> QED  BY <1>2 DEF NoBinding

\* Flags in any order, and a word behind them.
Written(e, F) == F \in NoBinding(e) /\ (Closed(e, F) \/ F \o <<Word("p")>> \in NoBinding(e))

LEMMA WrittenJoins ==
  ASSUME NEW e \in Known3, NEW x \in NoBinding(e), NEW it \in ByHand(e)
  PROVE  Written(e, x \o it)
<1>1. x \in Built(e) /\ it \in Items(e) /\ it \in NoBinding(e)
  BY ByHandStays DEF NoBinding, ByHand
<1>2. x \o it \in NoBinding(e)
  BY <1>1, NoBindingJoins
<1>3. x \in Seq(Token) /\ it \in Seq(Token) /\ it # <<>> /\ it[1].is = "flag"
  BY <1>1, BuiltIs, ItemIs, NothingReads
<1>4. CASE Closed(e, it)
  <2>1. Closed(e, x \o it)
    BY <1>3, <1>4, ClosedJoins
  <2> QED  BY <1>2, <2>1 DEF Written
<1>5. CASE ~Closed(e, it)
  <2>1. it \o <<Word("p")>> \in NoBinding(e)
    BY <1>5, ByHandStays
  <2>2. x \o (it \o <<Word("p")>>) \in NoBinding(e)
    BY <2>1, NoBindingJoins
  <2>3. <<Word("p")>> \in Seq(Token)
    <3>1. "p" \in Values
      BY DEF Values
    <3> QED  BY <3>1, TokensAre
  <2>4. Associates(x, it, <<Word("p")>>)
    BY <1>3, <2>3, ConcatAssociates
  <2>5. (x \o it) \o <<Word("p")>> \in NoBinding(e)
    BY <2>2, <2>4, Zenon DEF Associates
  <2> QED  BY <1>2, <2>5 DEF Written
<1> QED  BY <1>4, <1>5

LEMMA WrittenIs ==
  ASSUME ~OddForms, NEW e \in Known3, NEW n \in Nat, NEW flags \in [1..n -> Blocks(e)]
  PROVE  Written(e, FlattenSeq(flags))
<1>0. Blocks(e) \subseteq ByHand(e) /\ ByHand(e) \subseteq Items(e) /\ Items(e) \subseteq Seq(Token)
  BY BlocksAreItems DEF ByHand, Items
<1>1. <<>> \in NoBinding(e) /\ Closed(e, <<>>) /\ Settings(e, <<>>) = {}
  BY BuiltGrows, NothingReads DEF NoBinding, Grows
<1>2. CASE n = 0
  <2>1. flags \in [1..0 -> Seq(Token)]
    BY <1>0, <1>2
  <2>2. flags \in Seq(Seq(Token)) /\ DOMAIN flags = 1..0 /\ 1..0 = {}
    BY <2>1, SeqDef
  <2>3. Len(flags) = 0
    BY <2>2
  <2>4. FlattenSeq(flags) = flags
    BY <2>3 DEF FlattenSeq
  <2>5. flags = <<>>
    BY <2>2, <2>3
  <2> QED  BY <1>1, <2>4, <2>5 DEF Written
<1>3. CASE n # 0
  <2>1. flags \in [1..n -> Seq(Token)]
    BY <1>0
  <2>2. Len(flags) = n /\ \E f : Flattens(f, Token, flags)
    BY <1>3, <2>1, FlattenIs
  <2>3. PICK f : Flattens(f, Token, flags)
    BY <2>2
  <2>4. FlattenSeq(flags) = f[n] /\ \A i \in 1..n : f[i] = IF i = 1 THEN flags[i] ELSE f[i - 1] \o flags[i]
    BY <2>2, <2>3 DEF Flattens
  <2> DEFINE K == {i \in Nat : i \in 1..n => Written(e, f[i])}
  <2>5. 0 \in K
    OBVIOUS
  <2>6. ASSUME NEW i \in Nat, i \in K PROVE i + 1 \in K
    <3> SUFFICES ASSUME i + 1 \in 1..n PROVE Written(e, f[i + 1])
      OBVIOUS
    <3>1. flags[i + 1] \in ByHand(e) /\ flags[i + 1] \in Seq(Token)
      BY <1>0
    <3>2. CASE i = 0
      <4>1. f[i + 1] = flags[i + 1]
        BY <2>4, <3>2
      <4>2. Written(e, <<>> \o flags[i + 1])
        BY <1>1, <3>1, WrittenJoins
      <4>3. <<>> \o flags[i + 1] = flags[i + 1]
        BY <3>1, NoEnd
      <4> QED  BY <4>1, <4>2, <4>3
    <3>3. CASE i # 0
      <4>1. i \in 1..n /\ (i + 1) - 1 = i /\ i + 1 # 1
        BY <3>3
      <4>2. f[i + 1] = f[i] \o flags[i + 1]
        BY <2>4, <4>1
      <4>3. f[i] \in NoBinding(e)
        BY <2>6, <4>1 DEF Written
      <4> QED  BY <3>1, <4>2, <4>3, WrittenJoins
    <3> QED  BY <3>2, <3>3
  <2> HIDE DEF K
  <2>7. \A i \in Nat : i \in K
    BY <2>5, <2>6, SetInduction
  <2> QED  BY <1>3, <2>4, <2>7 DEF K
<1> QED  BY <1>2, <1>3
\* What tx adds and drops in front names no chat and holds no prompt.
LEMMA BindingsSayNothing ==
  ASSUME NEW e \in Known3, NEW tree, NEW S, S \subseteq AllSettings, NEW names \in SUBSET (ChatFlags \cup {"-i"})
  PROVE  ValuesIn(BindingSettings(e, tree) \cup Unbound(e, S), names) = ValuesIn(S, names)
<1>1. \A s \in BindingSettings(e, tree) : s.flag \notin ChatFlags \cup {"-i"}
  BY DEF BindingSettings, ChatFlags, Known3
<1>2. \A s \in BindingDrops(e) : s.flag \notin ChatFlags \cup {"-i"}
  BY DEF BindingDrops, IsBinding, ChatFlags
<1>3. {t \in BindingSettings(e, tree) \cup Unbound(e, S) : t.flag \in names} = {t \in S : t.flag \in names}
  BY <1>1, <1>2 DEF Unbound
<1> QED  BY <1>3, Zenon DEF ValuesIn

LEMMA SettingsInAll ==
  ASSUME NEW e \in Known3, NEW b \in Built(e)
  PROVE  Settings(e, b) \subseteq AllSettings /\ Settings(e, b) \subseteq SettingsOf(e)
BY BuiltIs, SettingsAre

\* How a command as written becomes the one that runs: the same chat, the same prompts.
Carried(e, cmd, c, tree) ==
    \E b : /\ Says(e, c, b, ChatsNamed(e, cmd), Prompts(e, cmd))
           /\ Settings(e, cmd) \subseteq SettingsOf(e)
           /\ \/ Settings(e, b) = BindingSettings(e, tree) \cup Unbound(e, Settings(e, cmd))
              \/ e # "agy" /\ Settings(e, b) = Settings(e, cmd)

\* Items and at most one word.
LEMMA PlainCarried ==
  ASSUME NEW e \in Known3, NEW k \in NoBinding(e), NEW w \in Ends, w = <<>> \/ Closed(e, k), NEW tree \in Values
  PROVE  Carried(e, k \o w, Prepared(e, k \o w, tree), tree)
<1> DEFINE f == Bindings(e, tree)
           m == Dropped(e, k)
           b == f \o m
           S == Settings(e, k)
           T == Settings(e, b)
           cmd == k \o w
<1>1. k \in Built(e)
  BY DEF NoBinding
<1>2. Says(e, cmd, k, ValuesIn(S, ChatFlags), PromptsIn(e, S, w))
  BY <1>1, PlainSays, Zenon
<1>3. Settings(e, cmd) = S /\ ChatsNamed(e, cmd) = ValuesIn(S, ChatFlags) /\ Prompts(e, cmd) = PromptsIn(e, S, w)
  BY <1>2 DEF Says, Reads
<1>4. f \in Built(e) /\ Closed(e, f) /\ f \in Seq(Token)
  BY BindingsAre
<1>5. e = "codex" => m = k
  <2> SUFFICES ASSUME e = "codex" PROVE m = k
    OBVIOUS
  <2>1. Unbound(e, S) = S
    BY DEF NoBinding, Unbound
  <2> QED  BY <1>1, <2>1, DroppedIs
<1>6. w = <<>> \/ (Closed(e, k) /\ Closed(e, b))
  <2> SUFFICES ASSUME Closed(e, k) PROVE Closed(e, b)
    OBVIOUS
  <2>0. k \in Seq(Token)
    BY <1>1, BuiltIs
  <2>1. CASE e = "agy"
    <3>1. m \in Built(e)
      BY <1>1, DroppedIs
    <3>2. b \in Built(e)
      BY <1>4, <3>1, BuiltJoins
    <3> QED  BY <2>1, <3>2, AgyCloses
  <2>2. CASE e = "claude"
    <3>1. f = <<>> /\ m = k
      BY <2>2 DEF Bindings, Dropped
    <3>2. b = k
      BY <2>0, <3>1, NoEnd
    <3> QED  BY <3>2
  <2>3. CASE e = "codex"
    <3>1. b = f \o k
      BY <1>5, <2>3
    <3>2. CASE k = <<>>
      BY <1>4, <3>1, <3>2, NoEnd
    <3>3. CASE k # <<>>
      BY <1>1, <1>4, <3>1, <3>3, BothBuilt
    <3> QED  BY <3>2, <3>3
  <2> QED  BY <2>1, <2>2, <2>3 DEF Known3
<1>7. /\ T = BindingSettings(e, tree) \cup Unbound(e, S)
      /\ Says(e, Prepared(e, cmd, tree), b, ValuesIn(T, ChatFlags), PromptsIn(e, T, w))
  BY <1>1, <1>6, PreparedSays, Zenon
<1>8. S \subseteq AllSettings /\ S \subseteq SettingsOf(e)
  BY <1>1, SettingsInAll
<1> HIDE DEF T, b, m, f, cmd
<1>9. ValuesIn(T, ChatFlags) = ValuesIn(S, ChatFlags) /\ ValuesIn(T, {"-i"}) = ValuesIn(S, {"-i"})
  <2> HIDE DEF S
  <2> QED  BY <1>7, <1>8, BindingsSayNothing
<1>10. PromptsIn(e, T, w) = PromptsIn(e, S, w)
  BY <1>9 DEF PromptsIn
<1>11. Carried(e, cmd, Prepared(e, cmd, tree), tree)
  <2>1. Says(e, Prepared(e, cmd, tree), b, ChatsNamed(e, cmd), Prompts(e, cmd))
    BY <1>3, <1>7, <1>9, <1>10
  <2>2. Settings(e, b) = BindingSettings(e, tree) \cup Unbound(e, Settings(e, cmd))
    BY <1>3, <1>7 DEF T
  <2>3. Settings(e, cmd) \subseteq SettingsOf(e)
    BY <1>3, <1>8
  <2> QED  BY <2>1, <2>2, <2>3 DEF Carried
<1> QED  BY <1>11 DEF cmd

\* Items and a shell.
LEMMA ShellCarried ==
  ASSUME NEW e \in Known3, NEW k \in Built(e), NEW tree \in Values
  PROVE  Carried(e, k \o Shell, Prepared(e, k \o Shell, tree), tree)
<1> DEFINE S == Settings(e, k)
           cmd == k \o Shell
<1>1. Says(e, cmd, k, ValuesIn(S, ChatFlags), PromptsIn(e, S, <<>>))
  BY ShellSays
<1>2. Settings(e, cmd) = S /\ ChatsNamed(e, cmd) = ValuesIn(S, ChatFlags) /\ Prompts(e, cmd) = PromptsIn(e, S, <<>>)
  BY <1>1 DEF Says, Reads
<1>3. S \subseteq AllSettings /\ S \subseteq SettingsOf(e)
  BY SettingsInAll
<1>4. CASE e # "agy"
  <2>1. Prepared(e, cmd, tree) = cmd
    <3>1. CASE e = "claude"
      BY <3>1 DEF Prepared
    <3>2. CASE e = "codex"
      <4>1. k \in Seq(Token) /\ NoControl(k)
        BY BuiltIs
      <4>2. Control \in Range(cmd)
        BY <4>1, BeforeShellJoin
      <4> QED  BY <3>2, <4>2 DEF Prepared, CodexPrepared
    <3> QED  BY <1>4, <3>1, <3>2 DEF Known3
  <2> HIDE DEF cmd
  <2>2. Says(e, Prepared(e, cmd, tree), k, ChatsNamed(e, cmd), Prompts(e, cmd))
    BY <1>1, <1>2, <2>1
  <2>3. Carried(e, cmd, Prepared(e, cmd, tree), tree)
    BY <1>2, <1>3, <1>4, <2>2 DEF Carried
  <2> QED  BY <2>3 DEF cmd
<1>5. CASE e = "agy"
  <2> DEFINE b == Bindings(e, tree) \o Dropped(e, k)
             T == Settings(e, b)
  <2>1. Prepared(e, cmd, tree) = b \o Shell
    <3>1. e # "codex"
      BY <1>5
    <3> QED  BY <3>1, PreparedEnds
  <2>2. Bindings(e, tree) \in Built(e) /\ Settings(e, Bindings(e, tree)) = BindingSettings(e, tree)
    BY BindingsAre
  <2>3. Dropped(e, k) \in Built(e) /\ Settings(e, Dropped(e, k)) = Unbound(e, S)
    BY DroppedIs
  <2>4. b \in Built(e) /\ T = BindingSettings(e, tree) \cup Unbound(e, S)
    BY <2>2, <2>3, BuiltJoins
  <2>5. Says(e, b \o Shell, b, ValuesIn(T, ChatFlags), PromptsIn(e, T, <<>>))
    BY <2>4, ShellSays
  <2> HIDE DEF b, T, cmd
  <2>6. ValuesIn(T, ChatFlags) = ValuesIn(S, ChatFlags) /\ ValuesIn(T, {"-i"}) = ValuesIn(S, {"-i"})
    <3> HIDE DEF S
    <3> QED  BY <1>3, <2>4, BindingsSayNothing
  <2>7. PromptsIn(e, T, <<>>) = PromptsIn(e, S, <<>>)
    BY <2>6 DEF PromptsIn
  <2>8. Carried(e, cmd, Prepared(e, cmd, tree), tree)
    <3>1. Says(e, Prepared(e, cmd, tree), b, ChatsNamed(e, cmd), Prompts(e, cmd))
      BY <1>2, <2>1, <2>5, <2>6, <2>7
    <3>2. Settings(e, b) = BindingSettings(e, tree) \cup Unbound(e, Settings(e, cmd))
      BY <1>2, <2>4 DEF T
    <3>3. Settings(e, cmd) \subseteq SettingsOf(e)
      BY <1>2, <1>3
    <3> QED  BY <3>1, <3>2, <3>3 DEF Carried
  <2> QED  BY <2>8 DEF cmd
<1> QED  BY <1>4, <1>5

\* codex's verb, items and at most one word.
LEMMA VerbCarried ==
  ASSUME NEW v \in {"resume", "fork"}, NEW chat \in Values, NEW k \in NoBinding("codex"), NEW w \in Ends,
         w = <<>> \/ Closed("codex", k), NEW tree \in Values
  PROVE  LET cmd == <<Word(v), Word(chat)>> \o (k \o w) IN Carried("codex", cmd, Prepared("codex", cmd, tree), tree)
<1> DEFINE e == "codex"
           h == <<Word(v), Word(chat)>>
           cmd == h \o (k \o w)
           f == Bindings(e, tree)
           S == Settings(e, k)
<1>0. e \in Known3 /\ <<>> \in Built(e) /\ Closed(e, <<>>) /\ k \in Built(e) /\ v \in Values
  BY BuiltGrows, NothingReads DEF Known3, Grows, NoBinding, Values
<1>1. k \in Seq(Token) /\ w \in Seq(Token) /\ h \in Seq(Token)
  BY <1>0, BuiltIs, EndsAre, TokensAre
<1>2. cmd \in Seq(Token)
  BY <1>1, JoinIs
<1>3. Says(e, cmd, k, {chat}, Said(w))
  <2>1. LET c == <<>> \o (<<Word(v), Word(chat)>> \o (k \o w)) IN
         NoControl(c) /\ Says("codex", c, <<>> \o k, {chat}, Said(w))
    BY <1>0, VerbSays, Zenon
  <2>2. <<>> \o cmd = cmd /\ <<>> \o k = k
    BY <1>1, <1>2, NoEnd
  <2> QED  BY <2>1, <2>2
<1>4. Settings(e, cmd) = S /\ ChatsNamed(e, cmd) = {chat} /\ Prompts(e, cmd) = Said(w)
  BY <1>3 DEF Says, Reads
<1>5. Dropped(e, k) = k /\ Unbound(e, S) = S
  <2>1. Unbound(e, S) = S
    BY DEF NoBinding, Unbound
  <2> QED  BY <1>0, <2>1, DroppedIs
<1>6. Prepared(e, cmd, tree) = f \o (h \o (k \o w))
  <2>1. Prepared("codex", <<Word(v), Word(chat)>> \o (k \o w), tree)
           = Bindings("codex", tree) \o (<<Word(v), Word(chat)>> \o (Dropped("codex", k) \o w))
    <3>1. k \in Built("codex")
      BY <1>0
    <3> QED  BY <3>1, PreparedVerb, Zenon
  <2> QED  BY <1>5, <2>1
<1>7. f \in Built(e) /\ Closed(e, f) /\ Settings(e, f) = BindingSettings(e, tree)
  BY <1>0, BindingsAre
<1>8. Says(e, f \o (h \o (k \o w)), f \o k, {chat}, Said(w))
  BY <1>0, <1>7, VerbSays, Zenon
<1>9. Settings(e, f \o k) = BindingSettings(e, tree) \cup Unbound(e, S)
  <2>1. Settings(e, f \o k) = Settings(e, f) \cup Settings(e, k)
    BY <1>0, <1>7, BuiltJoins
  <2> QED  BY <1>5, <1>7, <2>1
<1>10. S \subseteq SettingsOf(e)
  BY <1>0, SettingsInAll
<1>11. Carried(e, cmd, Prepared(e, cmd, tree), tree)
  <2>1. Says(e, Prepared(e, cmd, tree), f \o k, ChatsNamed(e, cmd), Prompts(e, cmd))
    BY <1>4, <1>6, <1>8
  <2>2. Settings(e, f \o k) = BindingSettings(e, tree) \cup Unbound(e, Settings(e, cmd))
    BY <1>4, <1>9
  <2>3. Settings(e, cmd) \subseteq SettingsOf(e)
    BY <1>4, <1>10
  <2> HIDE DEF f, cmd, S, e
  <2> QED  BY <2>1, <2>2, <2>3 DEF Carried
<1> QED  BY <1>11

LEMMA VerbShellCarried ==
  ASSUME NEW v \in {"resume", "fork"}, NEW chat \in Values, NEW k \in Built("codex"), NEW tree \in Values
  PROVE  LET cmd == (<<Word(v), Word(chat)>> \o k) \o Shell IN Carried("codex", cmd, Prepared("codex", cmd, tree), tree)
<1> DEFINE e == "codex"
           h == <<Word(v), Word(chat)>>
           cmd == (h \o k) \o Shell
<1>0. e \in Known3 /\ v \in Values
  BY DEF Known3, Values
<1>1. Says(e, cmd, k, {chat}, {})
  BY VerbShellSays
<1>2. Settings(e, cmd) = Settings(e, k) /\ ChatsNamed(e, cmd) = {chat} /\ Prompts(e, cmd) = {}
  BY <1>1 DEF Says, Reads
<1>3. Prepared(e, cmd, tree) = cmd
  <2>1. k \in Seq(Token) /\ h \in Seq(Token) /\ NoControl(k) /\ NoControl(h)
    <3>1. h \in Seq(Token) /\ Len(h) = 2 /\ h[1] = Word(v) /\ h[2] = Word(chat) /\ Word(v).is = "word" /\ Word(chat).is = "word"
      BY <1>0, TokensAre
    <3>2. \A i \in 1..Len(h) : h[i].is = "word"
      <4>1. \A i \in 1..2 : i = 1 \/ i = 2
        OBVIOUS
      <4> QED  BY <3>1, <4>1
    <3>3. NoControl(h)
      BY <3>1, <3>2, WordsRead
    <3> QED  BY <1>0, <3>1, <3>3, BuiltIs
  <2>2. h \o k \in Seq(Token) /\ NoControl(h \o k)
    <3>1. /\ h \o k \in Seq(Token) /\ Len(h \o k) = Len(h) + Len(k) /\ Len(h) \in Nat /\ Len(k) \in Nat
          /\ \A i \in 1..Len(h) : (h \o k)[i] = h[i]
          /\ \A i \in 1..Len(k) : (h \o k)[Len(h) + i] = k[i]
      BY <2>1, JoinIs
    <3> DEFINE m == Len(h)
               n == Len(k)
    <3> HIDE DEF m, n, h
    <3>2. \A i \in 1..(m + n) : i \in 1..m \/ (i - m \in 1..n /\ m + (i - m) = i)
      BY <3>1 DEF m, n
    <3>3. \A i \in 1..(m + n) : (h \o k)[i].is # "control"
      BY <2>1, <3>1, <3>2 DEF NoControl, m, n
    <3> QED  BY <3>1, <3>3 DEF NoControl, m, n
  <2>3. Control \in Range(cmd)
    BY <2>2, BeforeShellJoin
  <2> QED  BY <2>3 DEF Prepared, CodexPrepared
<1>4. Settings(e, k) \subseteq SettingsOf(e)
  BY <1>0, SettingsInAll
<1> HIDE DEF cmd
<1>5. Carried(e, cmd, Prepared(e, cmd, tree), tree)
  <2>1. Says(e, Prepared(e, cmd, tree), k, ChatsNamed(e, cmd), Prompts(e, cmd))
    BY <1>1, <1>2, <1>3
  <2>2. e # "agy"
    OBVIOUS
  <2> QED  BY <1>2, <1>4, <2>1, <2>2 DEF Carried
<1> QED  BY <1>5 DEF cmd
LEMMA HandCarried ==
  ASSUME ~OddForms, NEW e \in Known3, NEW cmd \in HandWritten(e), NEW tree \in Values
  PROVE  Carried(e, cmd, Prepared(e, cmd, tree), tree)
<1> DEFINE h == <<Word("resume"), Word("c0")>>
<1>1. PICK head \in Heads(e), flags \in FlagLists(e), tail \in Tails : cmd = (head \o FlattenSeq(flags)) \o tail
  BY DEF HandWritten
<1>2. PICK n \in 0..MaxBlocks : flags \in [1..n -> Blocks(e)]
  BY <1>1 DEF FlagLists
<1> DEFINE F == FlattenSeq(flags)
<1>3. n \in Nat
  BY <1>2, LaunchAssumption
<1>4. Written(e, F)
  BY <1>2, <1>3, WrittenIs
<1> HIDE DEF F
<1>5. F \in NoBinding(e) /\ F \in Built(e) /\ F \in Seq(Token)
  <2>1. F \in NoBinding(e) /\ F \in Built(e)
    BY <1>4 DEF Written, NoBinding
  <2> QED  BY <2>1, BuiltIs
<1>6. "p" \in Values \ {"resume", "fork"} /\ "c0" \in Values /\ "resume" \in Values
  BY DEF Values
<1>7. <<Word("p")>> \in Ends /\ <<Word("p")>> \in Seq(Token)
  <2>1. <<Word("p")>> \in Ends
    BY <1>6 DEF Ends
  <2> QED  BY <2>1, EndsAre
<1>8. ASSUME tail # Shell PROVE \E k \in NoBinding(e), w \in Ends : F \o tail = k \o w /\ (w = <<>> \/ Closed(e, k))
  <2>1. tail = <<>> \/ tail = <<Word("p")>>
    BY <1>1, <1>8 DEF Shell, Tails
  <2>2. CASE tail = <<>> \/ Closed(e, F)
    <3>1. tail \in Ends
      BY <1>7, <2>1, NoEnd
    <3> QED  BY <1>5, <2>2, <3>1
  <2>3. CASE tail = <<Word("p")>> /\ ~Closed(e, F)
    <3> DEFINE k == F \o <<Word("p")>>
    <3>1. k \in NoBinding(e)
      BY <1>4, <2>3 DEF Written
    <3>2. k \in Seq(Token)
      BY <1>5, <1>7, JoinIs
    <3>3. F \o tail = k \o <<>>
      BY <2>3, <3>2, NoEnd
    <3> HIDE DEF k
    <3> QED  BY <3>1, <3>3, NoEnd
  <2> QED  BY <2>1, <2>2, <2>3
<1>9. tail \in Seq(Token)
  BY <1>1, <1>7, NoEnd, ShellIs DEF Shell, Tails
<1>10. CASE head = <<>>
  <2>1. cmd = F \o tail
    BY <1>1, <1>5, <1>10, NoEnd DEF F
  <2>2. CASE tail = Shell
    BY <1>5, <2>1, <2>2, ShellCarried
  <2>3. CASE tail # Shell
    <3>1. PICK k \in NoBinding(e), w \in Ends : F \o tail = k \o w /\ (w = <<>> \/ Closed(e, k))
      BY <1>8, <2>3
    <3>2. Carried(e, k \o w, Prepared(e, k \o w, tree), tree)
      BY <3>1, PlainCarried, Zenon
    <3> QED  BY <2>1, <3>1, <3>2
  <2> QED  BY <2>2, <2>3
<1>11. CASE head # <<>>
  <2>0. e = "codex" /\ head = h
    BY <1>1, <1>11 DEF Heads
  <2>1. cmd = (h \o F) \o tail
    BY <1>1, <2>0 DEF F
  <2>2. CASE tail = Shell
    <3>1. F \in Built("codex")
      BY <1>5, <2>0
    <3>2. LET d == (<<Word("resume"), Word("c0")>> \o F) \o Shell IN Carried("codex", d, Prepared("codex", d, tree), tree)
      BY <1>6, <3>1, VerbShellCarried
    <3> QED  BY <2>0, <2>1, <2>2, <3>2
  <2>3. CASE tail # Shell
    <3>1. PICK k \in NoBinding(e), w \in Ends : F \o tail = k \o w /\ (w = <<>> \/ Closed(e, k))
      BY <1>8, <2>3
    <3>2. k \in NoBinding("codex") /\ (w = <<>> \/ Closed("codex", k))
      BY <2>0, <3>1
    <3>3. LET d == <<Word("resume"), Word("c0")>> \o (k \o w) IN Carried("codex", d, Prepared("codex", d, tree), tree)
      BY <1>6, <3>2, VerbCarried
    <3>4. h \in Seq(Token)
      BY <1>6, TokensAre
    <3>5. Associates(h, F, tail)
      BY <1>5, <1>9, <3>4, ConcatAssociates
    <3>6. cmd = h \o (k \o w)
      BY <2>1, <3>1, <3>5 DEF Associates
    <3> QED  BY <2>0, <3>3, <3>6
  <2> QED  BY <2>2, <2>3
<1> QED  BY <1>10, <1>11
----------------------------------------------------------------------------
(* What the settings of a command say.                                      *)

PersonaIn(e, S) == {s \in S : ~IsAccess(e, s) /\ ~IsIdentity(e, s) /\ s.values \cap UpdateCheck = {}}

LEMMA PersonaIs ==
  ASSUME NEW e, NEW c
  PROVE  Persona(e, c) = PersonaIn(e, Settings(e, c)) /\ Access(e, c) = {s \in Settings(e, c) : IsAccess(e, s)}
BY DEF Persona, PersonaIn, Access

TreesIn(S) == {s.values : s \in {t \in S : t.flag \in {"--add-dir", "--log-file"}}}

LEMMA BindingPersona ==
  ASSUME NEW e \in Known3, NEW tree, NEW S, S \subseteq AllSettings
  PROVE  /\ PersonaIn(e, BindingSettings(e, tree) \cup Unbound(e, S)) = PersonaIn(e, S)
         /\ e = "agy" => TreesIn(BindingSettings(e, tree) \cup Unbound(e, S)) = {{tree}}
<1> DEFINE B == BindingSettings(e, tree)
           U == Unbound(e, S)
<1>1. \A s \in B : IsIdentity(e, s) \/ s.values \cap UpdateCheck # {}
  BY DEF BindingSettings, IsIdentity, IdentityValues, UpdateCheck, Known3
<1>2. \A s \in S : s \in U \/ IsIdentity(e, s) \/ s.values \cap UpdateCheck # {}
  BY DEF Unbound, BindingDrops, IsBinding, IsIdentity, IdentityValues, Known3
<1>3. U \subseteq S
  BY DEF Unbound
<1>4. e = "agy" => \A s \in U : s.flag \notin {"--add-dir", "--log-file"}
  BY DEF Unbound, BindingDrops, IsBinding
<1>5. e = "agy" => B = {[flag |-> "--add-dir", values |-> {tree}], [flag |-> "--log-file", values |-> {tree}]}
  BY DEF BindingSettings
<1> HIDE DEF B, U
<1>6. PersonaIn(e, B \cup U) = PersonaIn(e, S)
  BY <1>1, <1>2, <1>3 DEF PersonaIn
<1>7. e = "agy" => TreesIn(B \cup U) = {{tree}}
  <2> SUFFICES ASSUME e = "agy" PROVE TreesIn(B \cup U) = {{tree}}
    OBVIOUS
  <2>1. {t \in B \cup U : t.flag \in {"--add-dir", "--log-file"}} = B
    BY <1>4, <1>5
  <2>2. {s.values : s \in B} = {{tree}}
    <3>1. \A s \in B : s.values = {tree}
      BY <1>5
    <3>2. \E s \in B : TRUE
      BY <1>5
    <3> QED  BY <3>1, <3>2
  <2> QED  BY <2>1, <2>2 DEF TreesIn
<1> QED  BY <1>6, <1>7 DEF B, U

\* The settings that name a chat or hold a prompt.
Extras(e) ==
    CASE e = "claude" -> {"--resume", "--fork-session"} [] e = "codex" -> {} [] e = "agy" -> {"--conversation", "-i"}

\* The settings of a command tx composes from inherited ones.
SaysWhatItMust(e, tree, T, S, X, ro) ==
    /\ PersonaIn(e, T) = PersonaIn(e, S)
    /\ ValuesIn(T, ChatFlags) = ValuesIn(X, ChatFlags)
    /\ e = "agy" => ValuesIn(T, {"-i"}) = ValuesIn(X, {"-i"}) /\ TreesIn(T) = {{tree}}
    /\ e = "codex" => ValuesIn(T, {"-c"}) \cap UpdateCheck = {"check=off"}
    /\ {s \in T : IsAccess(e, s)} = AccessSettings(e, ro)

Inheritable(e, S) == S \subseteq SettingsOf(e) /\ S \cap IdentityDrops(e) = {}
OnlyExtras(e, X, Y) == \A s \in X \cup Y : s.flag \in Extras(e)

LEMMA ComposedSays ==
  ASSUME NEW e \in Known3, NEW tree \in Values, NEW S, Inheritable(e, S),
         NEW X, NEW Y, OnlyExtras(e, X, Y), NEW ro \in BOOLEAN
  PROVE  SaysWhatItMust(e, tree, Composed(e, tree, X \cup S, ro, Y), S, X \cup Y, ro)
<1> DEFINE A == AccessSettings(e, ro)
           B == BindingSettings(e, tree)
           T == Composed(e, tree, X \cup S, ro, Y)
           R == {s \in S : ~IsAccess(e, s) /\ (e # "claude" => ~IsBinding(e, s))}
<1>1. \A s \in S : s \in AllSettings /\ s.flag \in Names(e) /\ ~IsIdentity(e, s)
  BY SettingsAre DEF IdentityDrops, Inheritable
<1>2. \A s \in A : IsAccess(e, s) /\ s \notin BindingDrops(e) /\ s.flag \notin ChatFlags \cup {"-i", "--add-dir", "--log-file", "-c"}
  BY DEF AccessSettings, ReadOnlySettings, WritableSettings, IsAccess, AccessBare, AccessValues, AccessLists,
         BindingDrops, IsBinding, ChatFlags, Known3
<1>3. \A s \in X \cup Y : /\ ~IsAccess(e, s) /\ IsIdentity(e, s) /\ s.flag \notin {"--add-dir", "--log-file", "-c"}
                          /\ e # "claude" => ~IsBinding(e, s)
  BY DEF Extras, OnlyExtras, IsAccess, AccessBare, AccessValues, AccessLists, IsIdentity, IdentityValues, IdentityOptional,
         IdentityBare, IsBinding, Known3
<1>4. \A s \in B : /\ ~IsAccess(e, s) /\ s.flag \notin ChatFlags \cup {"-i"}
                   /\ IsIdentity(e, s) \/ s.values \cap UpdateCheck # {}
  BY DEF BindingSettings, IsAccess, AccessBare, AccessValues, AccessLists, IsIdentity, IdentityValues, UpdateCheck,
         ChatFlags, Known3
<1>5. \A s \in R : s.flag \notin ChatFlags /\ (e = "agy" => s.flag \notin {"-i", "--add-dir", "--log-file"})
  BY <1>1 DEF Names, ChatFlags, IsIdentity, IdentityValues, IdentityOptional, IdentityBare, Known3
<1>6. T = B \cup (R \cup (A \cup (X \cup Y)))
  <2>1. \A s \in S : s \in AccessDrops(e) <=> IsAccess(e, s)
    BY <1>1 DEF AccessDrops
  <2>2. \A s \in S : s \in BindingDrops(e) <=> IsBinding(e, s)
    BY <1>1 DEF BindingDrops
  <2>3. \A s \in X \cup Y : s \notin AccessDrops(e) /\ (e # "claude" => s \notin BindingDrops(e))
    BY <1>3 DEF AccessDrops, BindingDrops
  <2> HIDE DEF A, B
  <2>4. T = B \cup Unbound(e, (((X \cup S) \ AccessDrops(e)) \cup A) \cup Y)
    BY DEF Composed, A, B
  <2> HIDE DEF T
  <2>5. CASE e = "claude"
    BY <2>1, <2>3, <2>4, <2>5 DEF Unbound
  <2>6. CASE e # "claude"
    BY <1>2, <2>1, <2>2, <2>3, <2>4, <2>6 DEF Unbound, A
  <2> QED  BY <2>5, <2>6
<1>7. e = "agy" => B = {[flag |-> "--add-dir", values |-> {tree}], [flag |-> "--log-file", values |-> {tree}]}
  BY DEF BindingSettings
<1>8. e = "codex" => B = {[flag |-> "-c", values |-> {"check=off"}]}
  BY DEF BindingSettings
<1>9. \A s \in S : ~IsAccess(e, s) /\ s.values \cap UpdateCheck = {} => s \in R
  BY <1>1 DEF IsBinding, IsIdentity, IdentityValues, Known3
<1>10. \A s \in R : e = "codex" /\ s.flag = "-c" => s.values \cap UpdateCheck = {}
  BY DEF IsBinding
<1>11. R \subseteq S /\ \A s \in R : ~IsAccess(e, s)
  OBVIOUS
<1> HIDE DEF A, B, R, T
<1>12. PersonaIn(e, T) = PersonaIn(e, S)
  BY <1>2, <1>3, <1>4, <1>6, <1>9, <1>11 DEF PersonaIn
<1>13. ValuesIn(T, ChatFlags) = ValuesIn(X \cup Y, ChatFlags)
  <2>1. {t \in T : t.flag \in ChatFlags} = {t \in X \cup Y : t.flag \in ChatFlags}
    BY <1>2, <1>4, <1>5, <1>6
  <2> QED  BY <2>1, Zenon DEF ValuesIn
<1>14. e = "agy" => ValuesIn(T, {"-i"}) = ValuesIn(X \cup Y, {"-i"}) /\ TreesIn(T) = {{tree}}
  <2> SUFFICES ASSUME e = "agy" PROVE ValuesIn(T, {"-i"}) = ValuesIn(X \cup Y, {"-i"}) /\ TreesIn(T) = {{tree}}
    OBVIOUS
  <2>1. {t \in T : t.flag \in {"-i"}} = {t \in X \cup Y : t.flag \in {"-i"}}
    BY <1>2, <1>4, <1>5, <1>6
  <2>2. {t \in T : t.flag \in {"--add-dir", "--log-file"}} = B
    BY <1>2, <1>3, <1>5, <1>6, <1>7
  <2>3. {s.values : s \in B} = {{tree}}
    <3>1. \A s \in B : s.values = {tree}
      BY <1>7
    <3>2. \E s \in B : TRUE
      BY <1>7
    <3> QED  BY <3>1, <3>2
  <2>4. ValuesIn(T, {"-i"}) = ValuesIn(X \cup Y, {"-i"})
    BY <2>1, Zenon DEF ValuesIn
  <2> QED  BY <2>2, <2>3, <2>4 DEF TreesIn
<1>15. e = "codex" => ValuesIn(T, {"-c"}) \cap UpdateCheck = {"check=off"}
  <2> SUFFICES ASSUME e = "codex" PROVE ValuesIn(T, {"-c"}) \cap UpdateCheck = {"check=off"}
    OBVIOUS
  <2>1. \A s \in T : s.flag = "-c" => s \in R \cup B
    BY <1>2, <1>3, <1>6
  <2>2. \A v \in ValuesIn(T, {"-c"}) : \E s \in T : s.flag = "-c" /\ v \in s.values
    BY DEF ValuesIn
  <2>3. \A v \in ValuesIn(T, {"-c"}) : v \in UpdateCheck => v = "check=off"
    BY <1>8, <1>10, <2>1, <2>2
  <2>4. "check=off" \in ValuesIn(T, {"-c"})
    <3>1. [flag |-> "-c", values |-> {"check=off"}] \in T
      BY <1>6, <1>8
    <3> QED  BY <3>1 DEF ValuesIn
  <2>5. "check=off" \in UpdateCheck
    BY DEF UpdateCheck
  <2> QED  BY <2>3, <2>4, <2>5
<1>16. {s \in T : IsAccess(e, s)} = A
  BY <1>2, <1>3, <1>4, <1>6, <1>11
<1> QED  BY <1>12, <1>13, <1>14, <1>15, <1>16 DEF SaysWhatItMust, T, A
----------------------------------------------------------------------------
(* What the checks of the access read, from the settings.                   *)

LEMMA FlagSettings ==
  ASSUME NEW e, NEW c \in Seq(Token), NoControl(c)
  PROVE  /\ \A i \in 1..Len(c) : c[i].is = "flag" => Setting(e, c, i) \in Settings(e, c)
         /\ \A s \in Settings(e, c) : \E i \in 1..Len(c) : c[i].is = "flag" /\ s = Setting(e, c, i)
<1>1. BeforeShell(c) = c /\ DOMAIN c = 1..Len(c)
  BY BeforeShellIs
<1>2. Settings(e, c) = {Setting(e, c, i) : i \in Positions(c, "flag")}
  BY <1>1 DEF Settings
<1>3. Positions(c, "flag") = {i \in 1..Len(c) : c[i].is = "flag"}
  BY <1>1 DEF Positions
<1> QED  BY <1>2, <1>3

\* The value of a flag that takes one is the word behind it.
TakesOne(e, c, i) ==
    c[i].is = "flag" /\ c[i].inline = None /\ Arity(e, c[i].name) = "one" /\ Setting(e, c, i).values # {}
OneValue(e, c, i) == i < Len(c) /\ i + 1 \in 1..Len(c) /\ Setting(e, c, i).values = {c[i + 1].name}

LEMMA OneOwned ==
  ASSUME NEW e, NEW c \in Seq(Token), NEW i \in 1..Len(c), TakesOne(e, c, i)
  PROVE  OneValue(e, c, i)
<1>0. c[i].is = "flag" /\ c[i].inline = None /\ Arity(e, c[i].name) = "one" /\ Setting(e, c, i).values # {}
  BY DEF TakesOne
<1>1. Setting(e, c, i).values = {c[j].name : j \in Owned(e, c, i)}
  BY <1>0 DEF Setting
<1>2. \A j \in Owned(e, c, i) : j \in 1..Len(c) /\ j = i + 1
  BY <1>0 DEF Owned, Owns, Positions
<1>3. PICK j \in Owned(e, c, i) : TRUE
  BY <1>0, <1>1
<1>4. Owned(e, c, i) = {i + 1}
  BY <1>2, <1>3
<1>5. i + 1 \in 1..Len(c)
  BY <1>2, <1>3
<1>6. i < Len(c) /\ Setting(e, c, i).values = {c[i + 1].name}
  BY <1>1, <1>4, <1>5
<1> QED  BY <1>5, <1>6 DEF OneValue

\* The values of a flag that takes many are the words behind it.
LEMMA ManyOwned ==
  ASSUME NEW e, NEW c \in Seq(Token), NoControl(c), NEW i \in 1..Len(c), c[i].is = "flag", c[i].inline = None,
         Arity(e, c[i].name) = "many"
  PROVE  Setting(e, c, i).values = {c[j].name : j \in (i + 1)..(i + Words(c, i))}
<1>1. Setting(e, c, i).values = {c[j].name : j \in Owned(e, c, i)}
  BY DEF Setting
<1>2. PICK n \in Nat : WordsEnd(c, i, n)
  BY WordsStop
<1>3. Words(c, i) = n
  BY <1>2, WordsIs
<1>4. Len(c) \in Nat /\ DOMAIN c = 1..Len(c)
  OBVIOUS
<1>5. /\ i + n <= Len(c) /\ \A j \in (i + 1)..(i + n) : c[j].is = "word"
      /\ i + n < Len(c) => c[i + n + 1].is # "word"
  BY <1>2 DEF WordsEnd
<1>6. \A j \in (i + 1)..(i + n) : j \in Owned(e, c, i)
  <2> TAKE j \in (i + 1)..(i + n)
  <2>1. j \in 1..Len(c) /\ i < j /\ \A k \in (i + 1)..(j - 1) : k \in (i + 1)..(i + n)
    BY <1>4, <1>5
  <2> QED  BY <1>4, <1>5, <2>1 DEF Owned, Owns, Positions
<1>7. \A j \in Owned(e, c, i) : j \in (i + 1)..(i + n)
  <2> TAKE j \in Owned(e, c, i)
  <2>1. j \in 1..Len(c) /\ c[j].is = "word" /\ i < j /\ \A k \in (i + 1)..(j - 1) : c[k].is # "flag"
    BY <1>4 DEF Owned, Owns, Positions
  <2>2. ASSUME j > i + n PROVE FALSE
    <3>1. i + n < Len(c) /\ i + n + 1 \in 1..Len(c)
      BY <1>4, <2>1, <2>2
    <3>2. c[i + n + 1].is = "flag"
      BY <1>5, <3>1, TokenKinds DEF NoControl
    <3>3. j # i + n + 1
      BY <2>1, <3>2
    <3>4. i + n + 1 \in (i + 1)..(j - 1)
      BY <2>1, <2>2, <3>3
    <3> QED  BY <2>1, <3>2, <3>4
  <2> QED  BY <2>1, <2>2
<1>8. Owned(e, c, i) = (i + 1)..(i + n)
  BY <1>6, <1>7
<1> QED  BY <1>1, <1>3, <1>8

NoInline(c) == \A i \in 1..Len(c) : c[i].inline = None

LEMMA TokenIsFlag ==
  ASSUME NEW t \in Token, t.is = "flag", t.inline = None
  PROVE  t = Flag(t.name)
BY DEF Token, Flag

\* The first of some positions.
LEMMA FirstPosition ==
  ASSUME NEW n \in Nat, NEW at \in SUBSET (1..n), at # {}
  PROVE  Min(at) \in at /\ \A j \in at : Min(at) <= j
<1>1. \E i \in at : \A j \in at : i <= j
  BY LeastExists
<1> QED  BY <1>1 DEF Min

\* A flag all of whose settings have one value.
Uniform(S, name, v) ==
    [flag |-> name, values |-> {v}] \in S /\ \A s \in S : s.flag = name => s.values = {v}

LEMMA UniformPlaces ==
  ASSUME NEW e, NEW c \in Seq(Token), NoControl(c), NoInline(c), NEW name, NEW v, Uniform(Settings(e, c), name, v)
  PROVE  /\ \E i \in 1..Len(c) : c[i] = Flag(name)
         /\ \A i \in 1..Len(c) : c[i] = Flag(name) => /\ Setting(e, c, i).values = {v}
                                                      /\ c[i].is = "flag" /\ c[i].inline = None /\ c[i].name = name
<1>1. PICK i \in 1..Len(c) : c[i].is = "flag" /\ [flag |-> name, values |-> {v}] = Setting(e, c, i)
  BY FlagSettings DEF Uniform
<1>2. c[i] = Flag(c[i].name)
  <2>1. c[i] \in Token /\ c[i].inline = None
    BY DEF NoInline
  <2> QED  BY <1>1, <2>1, TokenIsFlag
<1>3. Setting(e, c, i).flag = c[i].name
  BY DEF Setting
<1>4. c[i].name = name
  BY <1>1, <1>3
<1>5. ASSUME NEW j \in 1..Len(c), c[j] = Flag(name)
      PROVE  Setting(e, c, j).values = {v} /\ c[j].is = "flag" /\ c[j].inline = None /\ c[j].name = name
  <2>1. c[j].is = "flag" /\ c[j].name = name /\ c[j].inline = None
    BY <1>5 DEF Flag
  <2>2. Setting(e, c, j) \in Settings(e, c) /\ Setting(e, c, j).flag = name
    <3>1. Setting(e, c, j) \in Settings(e, c)
      BY <2>1, FlagSettings
    <3> QED  BY <2>1, <3>1 DEF Setting
  <2> QED  BY <2>1, <2>2 DEF Uniform
<1> QED  BY <1>2, <1>4, <1>5

LEMMA FirstValueIs ==
  ASSUME NEW e, NEW c \in Seq(Token), NoControl(c), NoInline(c), NEW name, NEW v, Uniform(Settings(e, c), name, v),
         Arity(e, name) = "one"
  PROVE  FirstValue(c, name) = v
<1> DEFINE at == {i \in 1..(Len(c) - 1) : c[i] = Flag(name)}
<1>1. \A i \in 1..Len(c) : c[i] = Flag(name) => i < Len(c) /\ c[i + 1].name = v
  <2> SUFFICES ASSUME NEW i \in 1..Len(c), c[i] = Flag(name) PROVE i < Len(c) /\ c[i + 1].name = v
    OBVIOUS
  <2>1. Setting(e, c, i).values = {v} /\ c[i].is = "flag" /\ c[i].inline = None /\ c[i].name = name
    BY UniformPlaces
  <2>2. TakesOne(e, c, i)
    BY <2>1 DEF TakesOne
  <2>3. OneValue(e, c, i)
    BY <2>2, OneOwned
  <2> QED  BY <2>1, <2>3 DEF OneValue
<1>2. PICK i \in 1..Len(c) : c[i] = Flag(name)
  BY UniformPlaces
<1>3. i \in at /\ at \in SUBSET (1..Len(c)) /\ Len(c) \in Nat
  BY <1>1, <1>2
<1>4. Min(at) \in at
  BY <1>3, FirstPosition
<1>5. c[Min(at) + 1].name = v
  BY <1>1, <1>4
<1>6. at # {}
  BY <1>3
<1> HIDE DEF at
<1>7. FirstValue(c, name) = IF at = {} THEN None ELSE c[Min(at) + 1].name
  BY Zenon DEF FirstValue, at
<1> QED  BY <1>5, <1>6, <1>7

LEMMA AfterFirstIs ==
  ASSUME NEW e, NEW c \in Seq(Token), NoControl(c), NoInline(c), NEW name, NEW v, Uniform(Settings(e, c), name, v),
         Arity(e, name) = "many"
  PROVE  AfterFirst(c, name) = {v}
<1> DEFINE at == {i \in DOMAIN c : c[i] = Flag(name)}
<1>1. DOMAIN c = 1..Len(c) /\ Len(c) \in Nat
  OBVIOUS
<1>2. at # {} /\ at \in SUBSET (1..Len(c))
  BY <1>1, UniformPlaces
<1>3. Min(at) \in at
  BY <1>1, <1>2, FirstPosition
<1> HIDE DEF at
<1>4. AfterFirst(c, name) = IF at = {} THEN {} ELSE {c[j].name : j \in (Min(at) + 1)..(Min(at) + Words(c, Min(at)))}
  BY Zenon DEF AfterFirst, at
<1> DEFINE i == Min(at)
<1>5. i \in 1..Len(c) /\ c[i] = Flag(name)
  BY <1>1, <1>3 DEF at
<1> HIDE DEF i
<1>6. Setting(e, c, i).values = {v} /\ c[i].is = "flag" /\ c[i].inline = None /\ c[i].name = name
  BY <1>5, UniformPlaces
<1>7. Setting(e, c, i).values = {c[j].name : j \in (i + 1)..(i + Words(c, i))}
  BY <1>5, <1>6, ManyOwned
<1>8. AfterFirst(c, name) = {c[j].name : j \in (i + 1)..(i + Words(c, i))}
  BY <1>2, <1>4 DEF i
<1> QED  BY <1>6, <1>7, <1>8

LEMMA NotReadOnly ==
  ASSUME NEW e, NEW c \in Seq(Token), NoControl(c), [flag |-> "yolo", values |-> {}] \in Settings(e, c)
  PROVE  ~IsReadOnly(e, c)
<1>1. PICK i \in 1..Len(c) : c[i].is = "flag" /\ [flag |-> "yolo", values |-> {}] = Setting(e, c, i)
  BY FlagSettings
<1>2. Setting(e, c, i).flag = c[i].name /\ {c[i].inline} \ {None} \subseteq Setting(e, c, i).values
  BY DEF Setting
<1>3. c[i].name = "yolo" /\ c[i].inline = None
  <2>1. Setting(e, c, i).flag = "yolo" /\ Setting(e, c, i).values = {}
    BY <1>1
  <2> QED  BY <1>2, <2>1
<1>4. c[i] = Flag("yolo")
  <2>1. c[i] \in Token
    OBVIOUS
  <2> QED  BY <1>1, <1>3, <2>1, TokenIsFlag
<1>5. Flag("yolo") \in Range(c)
  BY <1>4 DEF Range
<1> QED  BY <1>5 DEF IsReadOnly
LEMMA NoInlineJoins ==
  ASSUME NEW x \in Seq(Token), NEW y \in Seq(Token), NoInline(x), NoInline(y)
  PROVE  NoInline(x \o y)
<1>1. /\ x \o y \in Seq(Token) /\ Len(x \o y) = Len(x) + Len(y) /\ Len(x) \in Nat /\ Len(y) \in Nat
      /\ \A i \in 1..Len(x) : (x \o y)[i] = x[i]
      /\ \A i \in 1..Len(y) : (x \o y)[Len(x) + i] = y[i]
  BY JoinIs
<1> DEFINE m == Len(x)
           n == Len(y)
<1> HIDE DEF m, n
<1>2. \A i \in 1..(m + n) : i \in 1..m \/ (i - m \in 1..n /\ m + (i - m) = i)
  BY <1>1 DEF m, n
<1>3. \A i \in 1..(m + n) : (x \o y)[i].inline = None
  BY <1>1, <1>2 DEF NoInline, m, n
<1> QED  BY <1>1, <1>3 DEF NoInline, m, n

\* The adapters of claude and of codex compose no --flag=value.
LEMMA NoInlineItems ==
  ASSUME NEW e \in {"claude", "codex"}, NEW it \in Items(e)
  PROVE  /\ it \in Seq(Token) /\ NoInline(it)
         /\ Arity(e, it[1].name) = "one" => SettingOf(it).values # {}
<1>1. it \in Seq(Token) /\ Len(it) >= 1 /\ Fits(e, it) /\ Len(it) \in Nat /\ \A j \in 2..Len(it) : it[j] \in WordTokens
  BY DEF Items
<1>2. it[1].inline = None
  BY <1>1 DEF Fits
<1>3. \A j \in 1..Len(it) : it[j].inline = None
  <2>1. \A j \in 2..Len(it) : it[j].inline = None
    BY <1>1, WordTokensAre
  <2>2. \A j \in 1..Len(it) : j = 1 \/ j \in 2..Len(it)
    BY <1>1
  <2> QED  BY <1>2, <2>1, <2>2
<1>4. ASSUME Arity(e, it[1].name) = "one" PROVE SettingOf(it).values # {}
  <2>1. Len(it) = 2
    BY <1>1, <1>2, <1>4 DEF Fits
  <2>2. it[2].name \in {it[j].name : j \in 2..Len(it)}
    BY <2>1
  <2>3. {it[j].name : j \in 2..Len(it)} \subseteq SettingOf(it).values
    BY DEF SettingOf
  <2> QED  BY <2>2, <2>3
<1> QED  BY <1>1, <1>3, <1>4 DEF NoInline

LEMMA NoInlineBuilt ==
  ASSUME NEW e \in {"claude", "codex"}, NEW b \in Built(e)
  PROVE  NoInline(b)
<1> DEFINE X == {x \in Seq(Token) : NoInline(x)}
<1>1. <<>> \in X
  BY NothingReads DEF NoInline
<1>2. ASSUME NEW it \in Items(e), NEW y \in Built(e), y \in X PROVE it \o y \in X
  <2>1. it \in Seq(Token) /\ NoInline(it)
    BY NoInlineItems
  <2>2. y \in Seq(Token) /\ NoInline(y)
    BY <1>2
  <2>3. NoInline(it \o y) /\ it \o y \in Seq(Token)
    BY <2>1, <2>2, NoInlineJoins, JoinIs
  <2> QED  BY <2>3
<1> HIDE DEF X
<1>3. b \in X
  BY <1>1, <1>2, BuiltInduction
<1> QED  BY <1>3 DEF X

LEMMA NoInlineEnds ==
  ASSUME NEW w \in Ends
  PROVE  NoInline(w)
<1>1. CASE w = <<>>
  BY <1>1 DEF NoInline
<1>2. CASE w # <<>>
  <2>1. PICK v \in Values : w = <<Word(v)>>
    BY <1>2 DEF Ends
  <2>2. Word(v).inline = None
    BY TokensAre
  <2>3. Len(w) = 1 /\ w[1] = Word(v)
    BY <2>1
  <2>4. \A i \in 1..1 : i = 1
    OBVIOUS
  <2> QED  BY <2>2, <2>3, <2>4 DEF NoInline
<1> QED  BY <1>1, <1>2

\* A command that leaves the adapter is written without --flag=value.
LEMMA NoInlinePrepared ==
  ASSUME NEW e \in {"claude", "codex"}, NEW y \in Built(e), NEW ro \in BOOLEAN, NEW tree \in Values,
         NEW text \in Values \ {"resume", "fork"}
  PROVE  NoInline(Prepared(e, Seeded(e, y, ro, TRUE, text), tree))
<1> DEFINE k == ApplyAccess(e, y, ro)
           w == <<Word(text)>>
           b == Bindings(e, tree) \o Dropped(e, k)
<1>0. e \in Known3 /\ e # "agy"
  BY DEF Known3
<1>1. k \in Built(e) /\ Closed(e, k)
  BY <1>0, AppliedIs
<1>2. w \in Ends
  BY DEF Ends
<1>3. Seeded(e, y, ro, TRUE, text) = k \o w
  BY <1>0 DEF Seeded, Seed
<1> HIDE DEF k, w
<1>4. Prepared(e, k \o w, tree) = b \o w
  BY <1>0, <1>1, <1>2, PreparedEnds
<1>5. b \in Built(e)
  <2>1. Bindings(e, tree) \in Built(e)
    BY <1>0, BindingsAre
  <2>2. Dropped(e, k) \in Built(e)
    BY <1>0, <1>1, DroppedIs
  <2> QED  BY <1>0, <2>1, <2>2, BuiltJoins
<1> HIDE DEF b
<1>6. NoInline(b) /\ NoInline(w) /\ b \in Seq(Token) /\ w \in Seq(Token)
  BY <1>0, <1>2, <1>5, NoInlineBuilt, NoInlineEnds, BuiltIs, EndsAre
<1> QED  BY <1>3, <1>4, <1>6, NoInlineJoins

----------------------------------------------------------------------------
\* The access flags of a command are those tx added, and what is not tx's choice of
\* setting sources is not there.
ReadOnlyShown(e, T) ==
    /\ {s \in T : IsAccess(e, s)} = ReadOnlySettings(e)
    /\ e = "claude" => \A s \in T : s.flag = "--setting-sources" => s.values = {"user"}

LEMMA ClaudeShown ==
  ASSUME NEW c \in Seq(Token), NoControl(c), NoInline(c), ReadOnlyShown("claude", Settings("claude", c))
  PROVE  IsClaudeReadOnly(c)
<1> DEFINE e == "claude"
           T == Settings(e, c)
<1>1. \A s \in T : IsAccess(e, s) <=> s \in ReadOnlySettings(e)
  BY DEF ReadOnlyShown
<1>2. \A s \in ReadOnlySettings(e) : s \in T
  BY DEF ReadOnlyShown
<1>3. \A s \in T : s.flag = "--setting-sources" => s.values = {"user"}
  BY DEF ReadOnlyShown
<1>4. \A s : s.flag \in {"--permission-mode", "--allowedTools", "--disallowedTools"} => IsAccess(e, s)
  BY DEF IsAccess, AccessValues, AccessLists
<1>5. /\ \A s \in ReadOnlySettings(e) : /\ s.flag = "--permission-mode" => s.values = {"dontAsk"}
                                        /\ s.flag = "--allowedTools" => s.values = {"Bash"}
                                        /\ s.flag = "--disallowedTools" => s.values = {"Edit"}
      /\ [flag |-> "--permission-mode", values |-> {"dontAsk"}] \in ReadOnlySettings(e)
      /\ [flag |-> "--allowedTools", values |-> {"Bash"}] \in ReadOnlySettings(e)
      /\ [flag |-> "--disallowedTools", values |-> {"Edit"}] \in ReadOnlySettings(e)
      /\ [flag |-> "--setting-sources", values |-> {"user"}] \in ReadOnlySettings(e)
  BY DEF ReadOnlySettings
<1> HIDE DEF T
<1>6. Uniform(T, "--permission-mode", "dontAsk")
  BY <1>1, <1>2, <1>4, <1>5 DEF Uniform
<1>7. Uniform(T, "--allowedTools", "Bash")
  BY <1>1, <1>2, <1>4, <1>5 DEF Uniform
<1>8. Uniform(T, "--disallowedTools", "Edit")
  BY <1>1, <1>2, <1>4, <1>5 DEF Uniform
<1>9. Uniform(T, "--setting-sources", "user")
  BY <1>2, <1>3, <1>5 DEF Uniform
<1>10. Arity(e, "--permission-mode") = "one" /\ Arity(e, "--setting-sources") = "one"
  BY DEF Arity
<1>11. Arity(e, "--allowedTools") = "many" /\ Arity(e, "--disallowedTools") = "many"
  BY DEF Arity
<1>12. FirstValue(c, "--permission-mode") = "dontAsk" /\ FirstValue(c, "--setting-sources") = "user"
  BY <1>6, <1>9, <1>10, FirstValueIs DEF T
<1>13. AfterFirst(c, "--allowedTools") = {"Bash"} /\ AfterFirst(c, "--disallowedTools") = {"Edit"}
  BY <1>7, <1>8, <1>11, AfterFirstIs DEF T
<1> QED  BY <1>12, <1>13 DEF IsClaudeReadOnly

LEMMA CodexShown ==
  ASSUME NEW c \in Seq(Token), NoControl(c), NoInline(c), ReadOnlyShown("codex", Settings("codex", c))
  PROVE  IsCodexReadOnly(c)
<1> DEFINE e == "codex"
           T == Settings(e, c)
<1>1. \A s \in T : IsAccess(e, s) <=> s \in ReadOnlySettings(e)
  BY DEF ReadOnlyShown
<1>2. \A s \in ReadOnlySettings(e) : s \in T
  BY DEF ReadOnlyShown
<1>4. \A s : s.flag \in {"--sandbox", "--ask-for-approval"} => IsAccess(e, s)
  BY DEF IsAccess, AccessValues
<1>5. /\ \A s \in ReadOnlySettings(e) : /\ s.flag = "--sandbox" => s.values = {"full"}
                                        /\ s.flag = "--ask-for-approval" => s.values = {"never"}
      /\ [flag |-> "--sandbox", values |-> {"full"}] \in ReadOnlySettings(e)
      /\ [flag |-> "--ask-for-approval", values |-> {"never"}] \in ReadOnlySettings(e)
  BY DEF ReadOnlySettings
<1> HIDE DEF T
<1>6. Uniform(T, "--sandbox", "full")
  BY <1>1, <1>2, <1>4, <1>5 DEF Uniform
<1>7. Uniform(T, "--ask-for-approval", "never")
  BY <1>1, <1>2, <1>4, <1>5 DEF Uniform
<1>10. Arity(e, "--sandbox") = "one" /\ Arity(e, "--ask-for-approval") = "one"
  BY DEF Arity
<1>12. FirstValue(c, "--sandbox") = "full" /\ FirstValue(c, "--ask-for-approval") = "never"
  BY <1>6, <1>7, <1>10, FirstValueIs DEF T
<1> QED  BY <1>12 DEF IsCodexReadOnly

LEMMA LastPosition ==
  ASSUME NEW n \in Nat, NEW at \in SUBSET (1..n), at # {}
  PROVE  Max(at) \in at
<1>1. \E i \in at : \A j \in at : i >= j
  <2>1. PICK i \in at : \A j \in at : j <= i
    BY GreatestExists
  <2>2. \A j \in at : i >= j
    BY <2>1
  <2> QED  BY <2>2
<1> QED  BY <1>1 DEF Max

LEMMA AgyShown ==
  ASSUME NEW c \in Seq(Token), NoControl(c), ReadOnlyShown("agy", Settings("agy", c))
  PROVE  IsAgyReadOnly(c)
<1> DEFINE e == "agy"
           T == Settings(e, c)
           modes == {i \in DOMAIN c : Known("agy", c[i], {"--mode"})}
<1>0. DOMAIN c = 1..Len(c) /\ Len(c) \in Nat
  OBVIOUS
<1>1. \A s \in T : IsAccess(e, s) <=> s \in ReadOnlySettings(e)
  BY DEF ReadOnlyShown
<1>2. \A s \in ReadOnlySettings(e) : s \in T
  BY DEF ReadOnlyShown
<1>3. \A s : s.flag \in {"--mode", "--sandbox"} => IsAccess(e, s)
  BY DEF IsAccess, AccessValues, AccessBare
<1>4. ReadOnlySettings(e) = {[flag |-> "--mode", values |-> {"plan"}]}
  BY DEF ReadOnlySettings
<1>5. \A s \in T : (s.flag = "--mode" => s.values = {"plan"}) /\ s.flag # "--sandbox"
  BY <1>1, <1>3, <1>4
<1>6. \A i \in 1..Len(c) : c[i].is = "flag" => Setting(e, c, i) \in T /\ Setting(e, c, i).flag = c[i].name
  <2>1. \A i \in 1..Len(c) : c[i].is = "flag" => Setting(e, c, i) \in T
    BY FlagSettings
  <2>2. \A i : Setting(e, c, i).flag = c[i].name
    BY DEF Setting
  <2> QED  BY <2>1, <2>2
<1>7. Flag("--sandbox") \notin Range(c)
  <2> SUFFICES ASSUME NEW i \in 1..Len(c), c[i] = Flag("--sandbox") PROVE FALSE
    BY <1>0 DEF Range
  <2>1. c[i].is = "flag" /\ c[i].name = "--sandbox"
    BY DEF Flag
  <2> HIDE DEF T
  <2> QED  BY <1>5, <1>6, <2>1
<1>8. modes = {i \in 1..Len(c) : c[i].is = "flag" /\ c[i].name = "--mode"}
  BY <1>0 DEF Known
<1>9. modes # {}
  <2> DEFINE s == [flag |-> "--mode", values |-> {"plan"}]
  <2>0. s \in T /\ s.flag = "--mode"
    BY <1>2, <1>4
  <2> HIDE DEF s
  <2>1. PICK i \in 1..Len(c) : c[i].is = "flag" /\ s = Setting(e, c, i)
    BY <2>0, FlagSettings
  <2>2. c[i].name = "--mode"
    BY <1>6, <2>0, <2>1
  <2> QED  BY <1>8, <2>1, <2>2
<1> DEFINE m == Max(modes)
<1> HIDE DEF T, modes
<1>10. m \in modes
  BY <1>0, <1>8, <1>9, LastPosition
<1> HIDE DEF m
<1>11. m \in 1..Len(c) /\ c[m].is = "flag" /\ c[m].name = "--mode"
  BY <1>8, <1>10
<1>12. Setting(e, c, m).values = {"plan"}
  BY <1>5, <1>6, <1>11
<1>13. CASE c[m].inline # None
  <2>1. {c[m].inline} \ {None} \subseteq Setting(e, c, m).values
    BY DEF Setting
  <2>2. c[m].inline = "plan"
    BY <1>12, <1>13, <2>1
  <2> QED  BY <1>7, <1>9, <2>2 DEF IsAgyReadOnly, m, modes
<1>14. CASE c[m].inline = None
  <2>1. Arity(e, "--mode") = "one"
    BY DEF Arity
  <2>2. TakesOne(e, c, m)
    BY <1>11, <1>12, <1>14, <2>1 DEF TakesOne
  <2>3. OneValue(e, c, m)
    BY <1>11, <2>2, OneOwned
  <2>4. m < Len(c) /\ c[m + 1].name = "plan"
    BY <1>12, <2>3 DEF OneValue
  <2> QED  BY <1>7, <1>9, <1>14, <2>4 DEF IsAgyReadOnly, m, modes
<1> QED  BY <1>13, <1>14

LEMMA ReadOnlyIsShown ==
  ASSUME NEW e \in Known3, NEW c \in Seq(Token), NoControl(c), e # "agy" => NoInline(c),
         ReadOnlyShown(e, Settings(e, c))
  PROVE  IsReadOnly(e, c)
<1>1. Flag("yolo") \notin Range(c)
  <2>0. DOMAIN c = 1..Len(c)
    OBVIOUS
  <2> SUFFICES ASSUME NEW i \in 1..Len(c), c[i] = Flag("yolo") PROVE FALSE
    BY <2>0 DEF Range
  <2>1. c[i].is = "flag" /\ c[i].name = "yolo"
    BY DEF Flag
  <2>2. Setting(e, c, i) \in Settings(e, c)
    BY <2>1, FlagSettings
  <2>3. Setting(e, c, i).flag = "yolo"
    BY <2>1 DEF Setting
  <2>4. \A s : s.flag = "yolo" => IsAccess(e, s)
    BY DEF IsAccess, AccessBare, Known3
  <2>5. \A s \in ReadOnlySettings(e) : s.flag # "yolo"
    BY DEF ReadOnlySettings, Known3
  <2>6. Setting(e, c, i) \in ReadOnlySettings(e)
    BY <2>2, <2>3, <2>4 DEF ReadOnlyShown
  <2> QED  BY <2>3, <2>5, <2>6
<1>2. CASE e = "claude"
  BY <1>1, <1>2, ClaudeShown DEF IsReadOnly
<1>3. CASE e = "codex"
  BY <1>1, <1>3, CodexShown DEF IsReadOnly
<1>4. CASE e = "agy"
  BY <1>1, <1>4, AgyShown DEF IsReadOnly
<1> QED  BY <1>2, <1>3, <1>4 DEF Known3
\* A claude session that is read-only has no setting sources but tx's own: a kept
\* choice of others stands in front of them, and the check reads the first.
OnlyTx(e, S) == e = "claude" => \A s \in S : s.flag = "--setting-sources" => s.values = {"user"}

LEMMA SourcesFirst ==
  ASSUME NEW k \in Built("claude"), NEW r \in Seq(Token), FirstValue(k \o r, "--setting-sources") = "user",
         NEW s \in Settings("claude", k), s.flag = "--setting-sources"
  PROVE  \E t \in Settings("claude", k) : t.flag = "--setting-sources" /\ t.values = {"user"}
<1> DEFINE e == "claude"
           n == "--setting-sources"
           c == k \o r
           at == {i \in 1..(Len(c) - 1) : c[i] = Flag(n)}
<1>0. e \in Known3
  BY DEF Known3
<1>1. k \in Seq(Token) /\ NoControl(k) /\ NoInline(k) /\ Settings(e, k) \subseteq SettingsOf(e)
  BY <1>0, BuiltIs, NoInlineBuilt
<1>2. /\ Len(c) = Len(k) + Len(r) /\ Len(k) \in Nat /\ Len(r) \in Nat
      /\ \A i \in 1..Len(k) : c[i] = k[i]
  BY <1>1, JoinIs
<1>3. Arity(e, n) = "one"
  BY DEF Arity
<1>4. \A t \in Settings(e, k) : t.flag = n => t.values # {}
  <2> SUFFICES ASSUME NEW t \in Settings(e, k), t.flag = n PROVE t.values # {}
    OBVIOUS
  <2>1. PICK it \in Items(e) : t = SettingOf(it)
    BY <1>1 DEF SettingsOf
  <2>2. it[1].name = n
    BY <2>1 DEF SettingOf
  <2> QED  BY <1>3, <2>1, <2>2, NoInlineItems
<1> HIDE DEF c
<1>5. ASSUME NEW i \in 1..Len(k), k[i] = Flag(n)
      PROVE  i + 1 \in 1..Len(k) /\ Setting(e, k, i) \in Settings(e, k)
             /\ Setting(e, k, i).flag = n /\ Setting(e, k, i).values = {k[i + 1].name}
  <2>1. k[i].is = "flag" /\ k[i].name = n /\ k[i].inline = None
    BY <1>5 DEF Flag
  <2>2. Setting(e, k, i) \in Settings(e, k)
    BY <1>1, <2>1, FlagSettings
  <2>3. Setting(e, k, i).flag = n
    BY <2>1 DEF Setting
  <2>4. TakesOne(e, k, i)
    BY <1>3, <1>4, <2>1, <2>2, <2>3 DEF TakesOne
  <2>5. OneValue(e, k, i)
    BY <1>1, <2>4, OneOwned
  <2> QED  BY <2>2, <2>3, <2>5 DEF OneValue
<1>6. PICK i \in 1..Len(k) : k[i].is = "flag" /\ s = Setting(e, k, i)
  BY <1>1, FlagSettings
<1>7. k[i] = Flag(n)
  <2>1. k[i] \in Token /\ k[i].inline = None
    BY <1>1 DEF NoInline
  <2>2. k[i].name = n
    BY <1>6 DEF Setting
  <2> QED  BY <1>6, <2>1, <2>2, TokenIsFlag
<1>8. i + 1 \in 1..Len(k)
  BY <1>5, <1>7
<1>9. i \in 1..(Len(c) - 1) /\ c[i] = Flag(n)
  BY <1>2, <1>7, <1>8
<1>10. i \in at /\ at \in SUBSET (1..Len(c)) /\ at # {} /\ Len(c) \in Nat
  BY <1>2, <1>9
<1> DEFINE m == Min(at)
<1>11. FirstValue(c, n) = IF at = {} THEN None ELSE c[Min(at) + 1].name
  BY Zenon DEF FirstValue
<1> HIDE DEF at
<1>12. m \in at /\ m <= i
  BY <1>10, FirstPosition
<1> HIDE DEF m
<1>13. m \in 1..Len(k) /\ c[m] = Flag(n)
  BY <1>12 DEF at
<1>14. k[m] = Flag(n)
  BY <1>2, <1>13
<1>15. m + 1 \in 1..Len(k) /\ Setting(e, k, m) \in Settings(e, k)
       /\ Setting(e, k, m).flag = n /\ Setting(e, k, m).values = {k[m + 1].name}
  BY <1>5, <1>13, <1>14
<1>16. c[m + 1].name = "user"
  BY <1>10, <1>11 DEF m, c
<1>17. k[m + 1].name = "user"
  BY <1>2, <1>15, <1>16
<1> QED  BY <1>15, <1>17

LEMMA SourcesRefused ==
  ASSUME NEW e \in Known3, NEW y \in Built(e), NEW w \in Seq(Token), e = "claude" => IsReadOnly(e, ApplyAccess(e, y, TRUE) \o w)
  PROVE  OnlyTx(e, Settings(e, y) \ AccessDrops(e))
<1> SUFFICES ASSUME e = "claude" PROVE \A s \in Settings(e, y) \ AccessDrops(e) : s.flag # "--setting-sources"
  BY DEF OnlyTx
<1> DEFINE k == StripAccess(e, y)
           A == AccessOf(e, TRUE)
           r == A \o w
<1>1. k \in Built(e) /\ k \in Seq(Token) /\ Settings(e, k) = Settings(e, y) \ AccessDrops(e)
  BY StripsIs
<1>2. ApplyAccess(e, y, TRUE) = k \o A
  BY AppliedIs
<1>3. A \in Seq(Token)
  BY AccessIs DEF AccessWords
<1> HIDE DEF k, A
<1>4. r \in Seq(Token)
  BY <1>3, JoinIs
<1>5. ApplyAccess(e, y, TRUE) \o w = k \o r
  <2>1. Associates(k, A, w)
    BY <1>1, <1>3, ConcatAssociates
  <2> QED  BY <1>2, <2>1 DEF Associates
<1>6. IsClaudeReadOnly(k \o r)
  <2>1. IsReadOnly(e, k \o r)
    BY <1>5
  <2> QED  BY <2>1 DEF IsReadOnly
<1>7. FirstValue(k \o r, "--setting-sources") = "user"
  BY <1>6 DEF IsClaudeReadOnly
<1> HIDE DEF r
<1> SUFFICES ASSUME NEW s \in Settings(e, k), s.flag = "--setting-sources" PROVE FALSE
  BY <1>1
<1>8. PICK t \in Settings(e, k) : t.flag = "--setting-sources" /\ t.values = {"user"}
  BY <1>1, <1>4, <1>7, SourcesFirst
<1>9. t \in AllSettings
  BY <1>1, SettingsInAll
<1>10. IsAccess(e, t)
  BY <1>8 DEF IsAccess
<1>11. t \in AccessDrops(e)
  BY <1>9, <1>10 DEF AccessDrops
<1> QED  BY <1>1, <1>8, <1>11

LEMMA ComposedOnlyTx ==
  ASSUME NEW e \in Known3, NEW tree, NEW S, NEW ro \in BOOLEAN, OnlyTx(e, S \ AccessDrops(e)),
         NEW Y, \A s \in Y : s.flag \in Extras(e)
  PROVE  OnlyTx(e, Composed(e, tree, S, ro, Y))
<1> SUFFICES ASSUME e = "claude" PROVE OnlyTx(e, Composed(e, tree, S, ro, Y))
  BY DEF OnlyTx
<1>1. \A s \in AccessSettings(e, ro) : s.flag = "--setting-sources" => s.values = {"user"}
  BY DEF AccessSettings, ReadOnlySettings, WritableSettings
<1>2. \A s \in Y : s.flag # "--setting-sources"
  BY DEF Extras
<1>3. Composed(e, tree, S, ro, Y) = ((S \ AccessDrops(e)) \cup AccessSettings(e, ro)) \cup Y
  BY DEF Composed, BindingSettings, Unbound
<1>4. \A s \in S \ AccessDrops(e) : s.flag = "--setting-sources" => s.values = {"user"}
  BY DEF OnlyTx
<1> HIDE DEF Composed
<1> QED  BY <1>1, <1>2, <1>3, <1>4 DEF OnlyTx
----------------------------------------------------------------------------
(* The commands of the operations.                                          *)

\* What an operation asks of the command it composes.
Good(e, c, persona, chats, prompts, tree, ro) ==
    /\ c \in Seq(Token) /\ NoControl(c)
    /\ Persona(e, c) = persona /\ ChatsNamed(e, c) = chats /\ Prompts(e, c) = prompts
    /\ Access(e, c) = Settings(e, IF ro THEN ReadOnly(e) ELSE Writable(e))
    /\ ro \/ ~IsReadOnly(e, c)
    /\ e = "agy" => TreesIn(Settings(e, c)) = {{tree}}
    /\ e = "codex" => ValuesOf(e, c, {"-c"}) \cap UpdateCheck = {"check=off"}

\* What the next operation finds in the recorded command.
Base(e, c, persona, ro) ==
    /\ StripIdentity(e, c) \in Built(e)
    /\ Settings(e, StripIdentity(e, c)) \cap IdentityDrops(e) = {}
    /\ PersonaIn(e, Settings(e, StripIdentity(e, c))) = persona
    /\ ro => OnlyTx(e, Settings(e, StripIdentity(e, c)))

LEMMA BaseIs ==
  ASSUME NEW e \in Known3, NEW c, NEW b, NEW chats, NEW prompts, Says(e, c, b, chats, prompts),
         NEW ro \in BOOLEAN, ro => OnlyTx(e, Settings(e, b))
  PROVE  Base(e, c, PersonaIn(e, Settings(e, b)), ro)
<1> DEFINE S == Settings(e, b)
           K == Settings(e, Kept(e, b))
<1>1. b \in Built(e) /\ StripIdentity(e, c) = Kept(e, b)
  BY DEF Says
<1>2. Kept(e, b) \in Built(e) /\ K = S \ IdentityDrops(e)
  BY <1>1, KeptIs
<1>3. S \subseteq AllSettings
  BY <1>1, SettingsInAll
<1>4. \A s \in S : s \in IdentityDrops(e) <=> IsIdentity(e, s)
  BY <1>3 DEF IdentityDrops
<1> HIDE DEF S, K
<1>5. PersonaIn(e, K) = PersonaIn(e, S)
  BY <1>2, <1>4 DEF PersonaIn
<1>6. K \cap IdentityDrops(e) = {}
  BY <1>2
<1>7. ro => OnlyTx(e, K)
  <2>1. ro => OnlyTx(e, S)
    BY DEF S
  <2> QED  BY <1>2, <2>1 DEF OnlyTx
<1> QED  BY <1>1, <1>2, <1>5, <1>6, <1>7 DEF Base, S, K

MadeOf(e, c, T, chats, prompts) == \E b : Settings(e, b) = T /\ Says(e, c, b, chats, prompts)

LEMMA MadeIs ==
  ASSUME NEW e \in Known3, NEW tree \in Values, NEW S, Inheritable(e, S),
         NEW X, NEW Y, OnlyExtras(e, X, Y), NEW ro \in BOOLEAN,
         NEW c, NEW chats, NEW prompts, NoControl(c),
         MadeOf(e, c, Composed(e, tree, X \cup S, ro, Y), chats, prompts),
         ro => OnlyTx(e, (X \cup S) \ AccessDrops(e))
  PROVE  /\ Good(e, c, PersonaIn(e, S), chats, prompts, tree, ro)
         /\ Base(e, c, PersonaIn(e, S), ro)
<1> DEFINE T == Composed(e, tree, X \cup S, ro, Y)
<1>1. SaysWhatItMust(e, tree, T, S, X \cup Y, ro)
  BY ComposedSays
<1>2. PICK b : Settings(e, b) = T /\ Says(e, c, b, chats, prompts)
  BY DEF MadeOf
<1>3. c \in Seq(Token) /\ Settings(e, c) = T /\ ChatsNamed(e, c) = chats /\ Prompts(e, c) = prompts
  BY <1>2 DEF Says, Reads
<1>4. ro => OnlyTx(e, T)
  BY ComposedOnlyTx DEF OnlyExtras
<1> HIDE DEF T
<1>5. Persona(e, c) = PersonaIn(e, S)
  BY <1>1, <1>3, PersonaIs DEF SaysWhatItMust
<1>6. {s \in T : IsAccess(e, s)} = AccessSettings(e, ro)
  BY <1>1 DEF SaysWhatItMust
<1>7. Access(e, c) = Settings(e, IF ro THEN ReadOnly(e) ELSE Writable(e))
  <2>1. Access(e, c) = AccessSettings(e, ro)
    BY <1>3, <1>6, PersonaIs
  <2>2. Settings(e, AccessOf(e, ro)) = AccessSettings(e, ro)
    BY AccessIs DEF AccessWords
  <2> QED  BY <2>1, <2>2 DEF AccessOf
<1>8. ro \/ ~IsReadOnly(e, c)
  <2> SUFFICES ASSUME ~ro PROVE ~IsReadOnly(e, c)
    OBVIOUS
  <2>1. [flag |-> "yolo", values |-> {}] \in AccessSettings(e, ro)
    BY DEF AccessSettings, WritableSettings
  <2>2. [flag |-> "yolo", values |-> {}] \in Settings(e, c)
    BY <1>3, <1>6, <2>1
  <2> QED  BY <1>3, <2>2, NotReadOnly
<1>9. e = "agy" => TreesIn(Settings(e, c)) = {{tree}}
  BY <1>1, <1>3 DEF SaysWhatItMust
<1>10. e = "codex" => ValuesOf(e, c, {"-c"}) \cap UpdateCheck = {"check=off"}
  BY <1>1, <1>3, ValuesAre DEF SaysWhatItMust
<1>11. Base(e, c, PersonaIn(e, T), ro)
  BY <1>2, <1>4, BaseIs
<1>12. PersonaIn(e, T) = PersonaIn(e, S)
  BY <1>1 DEF SaysWhatItMust
<1> QED  BY <1>3, <1>5, <1>7, <1>8, <1>9, <1>10, <1>11, <1>12 DEF Good

LEMMA OneFlagValues ==
  ASSUME NEW X, NEW n, NEW v, NEW names, \A s \in X : s.flag \in names => s.values \in {{}, {v}},
         \E s \in X : s.flag \in names /\ s.values = {v}
  PROVE  ValuesIn(X, names) = {v}
BY DEF ValuesIn

LEMMA NoFlagValues ==
  ASSUME NEW X, NEW names, \A s \in X : s.flag \notin names
  PROVE  ValuesIn(X, names) = {}
BY DEF ValuesIn

\* A command seeded with a prompt: a spawn, a handover, a rollover.
LEMMA SeededIsOwn ==
  ASSUME NEW e \in Known3, NEW y \in Built(e), Settings(e, y) \cap IdentityDrops(e) = {}, NEW ro \in BOOLEAN,
         NEW tree \in Values, NEW seeded \in BOOLEAN, NEW text \in Values \ {"resume", "fork"},
         ro => OnlyTx(e, Settings(e, y) \ AccessDrops(e))
  PROVE  LET c == Prepared(e, Seeded(e, y, ro, seeded, text), tree) IN
         /\ Good(e, c, PersonaIn(e, Settings(e, y)), {}, IF seeded THEN {text} ELSE {}, tree, ro)
         /\ Base(e, c, PersonaIn(e, Settings(e, y)), ro)
<1> DEFINE c == Prepared(e, Seeded(e, y, ro, seeded, text), tree)
           Y == SeedSettings(e, seeded, text)
           S == Settings(e, y)
           T == Composed(e, tree, S, ro, Y)
<1>1. NoControl(c) /\ \E b : Settings(e, b) = T /\ Says(e, c, b, ValuesIn(T, ChatFlags), SeedPrompts(e, T, seeded, text))
  BY SeedSays, Zenon
<1>2. OnlyExtras(e, {}, Y)
  BY DEF SeedSettings, Extras, OnlyExtras
<1>3. Inheritable(e, S)
  BY SettingsInAll DEF Inheritable
<1>11. {} \cup S = S /\ {} \cup Y = Y
  OBVIOUS
<1>4. ro => OnlyTx(e, S \ AccessDrops(e))
  OBVIOUS
<1>5. ValuesIn(Y, ChatFlags) = {}
  <2>1. \A s \in Y : s.flag \notin ChatFlags
    BY DEF SeedSettings, ChatFlags
  <2> HIDE DEF Y
  <2> QED  BY <2>1, NoFlagValues
<1>6. e = "agy" => ValuesIn(Y, {"-i"}) = IF seeded THEN {text} ELSE {}
  <2>1. CASE e = "agy" /\ seeded
    <3>1. Y = {[flag |-> "-i", values |-> {text}]}
      BY <2>1 DEF SeedSettings
    <3> HIDE DEF Y
    <3>2. (\A s \in Y : s.flag = "-i" /\ s.values = {text}) /\ \E s \in Y : s.flag = "-i" /\ s.values = {text}
      BY <3>1
    <3>3. (\A s \in Y : s.flag \in {"-i"} => s.values \in {{}, {text}}) /\ \E s \in Y : s.flag \in {"-i"} /\ s.values = {text}
      BY <3>2
    <3>4. ValuesIn(Y, {"-i"}) = {text}
      BY <3>3, OneFlagValues
    <3> QED  BY <2>1, <3>4
  <2>2. CASE ~seeded
    <3>1. \A s \in Y : s.flag \notin {"-i"}
      BY <2>2 DEF SeedSettings
    <3> HIDE DEF Y
    <3> QED  BY <2>2, <3>1, NoFlagValues
  <2> QED  BY <2>1, <2>2
<1> HIDE DEF c, Y, S
<1>7. SaysWhatItMust(e, tree, T, S, Y, ro)
  <2>1. SaysWhatItMust(e, tree, Composed(e, tree, {} \cup S, ro, Y), S, {} \cup Y, ro)
    BY <1>2, <1>3, ComposedSays, Zenon
  <2> QED  BY <1>11, <2>1
<1> HIDE DEF T
<1>8. ValuesIn(T, ChatFlags) = {} /\ SeedPrompts(e, T, seeded, text) = IF seeded THEN {text} ELSE {}
  BY <1>5, <1>6, <1>7 DEF SaysWhatItMust, SeedPrompts
<1>9. MadeOf(e, c, T, {}, IF seeded THEN {text} ELSE {})
  BY <1>1, <1>8 DEF MadeOf
<1>10. /\ Good(e, c, PersonaIn(e, S), {}, IF seeded THEN {text} ELSE {}, tree, ro)
       /\ Base(e, c, PersonaIn(e, S), ro)
  <2> DEFINE said == IF seeded THEN {text} ELSE {}
  <2>1. MadeOf(e, c, Composed(e, tree, {} \cup S, ro, Y), {}, said)
    BY <1>11, <1>9 DEF T
  <2>2. ro => OnlyTx(e, ({} \cup S) \ AccessDrops(e))
    BY <1>11, <1>4
  <2> HIDE DEF said
  <2>3. Good(e, c, PersonaIn(e, S), {}, said, tree, ro) /\ Base(e, c, PersonaIn(e, S), ro)
    BY <1>1, <1>2, <1>3, <1>4, <2>1, <2>2, MadeIs, Zenon
  <2> QED  BY <2>3 DEF said
<1> QED  BY <1>10 DEF c, S

\* A command that names a chat: a resume, a fork.
LEMMA ContinuedIsOwn ==
  ASSUME NEW e \in Known3, NEW kind \in {"resume", "fork"}, NEW chat \in Values,
         NEW s \in Built(e), Settings(e, s) \cap IdentityDrops(e) = {}, NEW ro \in BOOLEAN, NEW tree \in Values,
         ro => OnlyTx(e, (IdentitySettings(e, kind, chat) \cup Settings(e, s)) \ AccessDrops(e))
  PROVE  LET c == Prepared(e, Continued(e, kind, chat, s, ro), tree) IN
         /\ Good(e, c, PersonaIn(e, Settings(e, s)), {chat}, {}, tree, ro)
         /\ Base(e, c, PersonaIn(e, Settings(e, s)), ro)
<1> DEFINE c == Prepared(e, Continued(e, kind, chat, s, ro), tree)
           X == IdentitySettings(e, kind, chat)
           S == Settings(e, s)
           T == Composed(e, tree, X \cup S, ro, {})
           chats == IF e = "codex" THEN {chat} ELSE ValuesIn(T, ChatFlags)
           prompts == IF e = "agy" THEN ValuesIn(T, {"-i"}) ELSE {}
<1>1. NoControl(c) /\ \E b : Settings(e, b) = T /\ Says(e, c, b, chats, prompts)
  BY ContinueSays, Zenon
<1>2. OnlyExtras(e, X, {})
  <2>1. \A t \in X : t.flag \in Extras(e)
    BY DEF IdentitySettings, Extras, Known3
  <2> QED  BY <2>1 DEF OnlyExtras
<1>3. Inheritable(e, S)
  BY SettingsInAll DEF Inheritable
<1>11. X \cup {} = X
  OBVIOUS
<1>4. ro => OnlyTx(e, (X \cup S) \ AccessDrops(e))
  OBVIOUS
<1>5. e # "codex" => ValuesIn(X, ChatFlags) = {chat}
  <2> SUFFICES ASSUME e # "codex" PROVE ValuesIn(X, ChatFlags) = {chat}
    OBVIOUS
  <2>1. \A t \in X : t.flag \in ChatFlags => t.values \in {{}, {chat}}
    BY DEF IdentitySettings, Known3
  <2>2. \E t \in X : t.flag \in ChatFlags /\ t.values = {chat}
    <3>1. CASE e = "claude"
      <4>1. [flag |-> "--resume", values |-> {chat}] \in X
        BY <3>1 DEF IdentitySettings
      <4> QED  BY <4>1 DEF ChatFlags
    <3>2. CASE e = "agy"
      <4>1. [flag |-> "--conversation", values |-> {chat}] \in X
        BY <3>2 DEF IdentitySettings
      <4> QED  BY <4>1 DEF ChatFlags
    <3> QED  BY <3>1, <3>2 DEF Known3
  <2> HIDE DEF X
  <2> QED  BY <2>1, <2>2, OneFlagValues
<1>6. e = "agy" => ValuesIn(X, {"-i"}) = {}
  <2>1. e = "agy" => \A t \in X : t.flag \notin {"-i"}
    BY DEF IdentitySettings
  <2> HIDE DEF X
  <2> QED  BY <2>1, NoFlagValues
<1> HIDE DEF c, X, S
<1>7. SaysWhatItMust(e, tree, T, S, X, ro)
  <2>1. SaysWhatItMust(e, tree, T, S, X \cup {}, ro)
    BY <1>2, <1>3, ComposedSays, Zenon
  <2> QED  BY <1>11, <2>1
<1> HIDE DEF T
<1>8. chats = {chat} /\ prompts = {}
  BY <1>5, <1>6, <1>7 DEF SaysWhatItMust
<1>9. MadeOf(e, c, T, {chat}, {})
  BY <1>1, <1>8 DEF MadeOf
<1> HIDE DEF chats, prompts
<1>10. Good(e, c, PersonaIn(e, S), {chat}, {}, tree, ro) /\ Base(e, c, PersonaIn(e, S), ro)
  BY <1>1, <1>2, <1>3, <1>4, <1>9, MadeIs, Zenon DEF T
<1> QED  BY <1>10 DEF c, S

----------------------------------------------------------------------------
PersonaWords(e, model, role) ==
    CASE e = "claude" -> ClaudeBuild(model, role) [] e = "codex" -> CodexBuild(role)
      [] e = "agy" -> AgyBuild

\* What build_launch_command gives an agent besides access and prompt.
Innocent(e, S) ==
    \A s \in S : ~IsAccess(e, s) /\ ~IsIdentity(e, s) /\ s.flag # "--setting-sources"

LEMMA InnocentOption ==
  ASSUME NEW e \in Known3, NEW n, NEW V,
         \/ e = "claude" /\ n \in {"--model", "--effort", "--no-chrome", "--append-system-prompt"}
         \/ e = "codex" /\ n \in {"-m", "-c"}
         \/ e = "agy" /\ n = "--model"
  PROVE  Innocent(e, {[flag |-> n, values |-> V]})
BY DEF Innocent, IsAccess, AccessBare, AccessValues, AccessLists, IsIdentity, IdentityValues, IdentityOptional,
       IdentityBare, Known3

Plain(e, y) == y \in Built(e) /\ Innocent(e, Settings(e, y))

LEMMA PlainJoins ==
  ASSUME NEW e \in Known3, NEW x, Plain(e, x), NEW y, Plain(e, y)
  PROVE  Plain(e, x \o y)
<1>1. x \in Built(e) /\ y \in Built(e)
  BY DEF Plain
<1>2. x \o y \in Built(e) /\ Settings(e, x \o y) = Settings(e, x) \cup Settings(e, y)
  BY <1>1, BuiltJoins
<1> QED  BY <1>2 DEF Plain, Innocent

LEMMA PlainNothing ==
  ASSUME NEW e
  PROVE  Plain(e, <<>>)
<1>1. <<>> \in Built(e) /\ Settings(e, <<>>) = {}
  BY BuiltGrows, NothingReads DEF Grows
<1> QED  BY <1>1 DEF Plain, Innocent

LEMMA PlainOption ==
  ASSUME NEW e \in Known3, NEW n, NEW v \in Values,
         \/ e = "claude" /\ n \in {"--model", "--effort", "--append-system-prompt"}
         \/ e = "codex" /\ n \in {"-m", "-c"}
         \/ e = "agy" /\ n = "--model"
  PROVE  Plain(e, Option(n, v))
<1>1. n \in Names(e) /\ Arity(e, n) = "one"
  BY DEF Names, Arity
<1>2. Option(n, v) \in Built(e) /\ Settings(e, Option(n, v)) = {[flag |-> n, values |-> {v}]}
  BY <1>1, OptionBuilt
<1>3. Innocent(e, {[flag |-> n, values |-> {v}]})
  BY InnocentOption
<1> QED  BY <1>2, <1>3 DEF Plain

LEMMA PersonaWordsAre ==
  ASSUME NEW e \in Known3, NEW model \in BOOLEAN, NEW role \in BOOLEAN
  PROVE  Plain(e, PersonaWords(e, model, role))
<1>0. {"m", "high", "role", "effort"} \subseteq Values
  BY DEF Values
<1>1. CASE e = "claude"
  <2>1. Plain(e, IF model THEN Option("--model", "m") ELSE <<>>)
    BY <1>0, <1>1, PlainOption, PlainNothing
  <2>2. Plain(e, Option("--effort", "high"))
    BY <1>0, <1>1, PlainOption
  <2>3. Plain(e, <<Flag("--no-chrome")>>)
    <3>1. "--no-chrome" \in Names(e) /\ Arity(e, "--no-chrome") = "none"
      BY <1>1 DEF Names, Arity
    <3>2. <<Flag("--no-chrome")>> \in Built(e) /\ Settings(e, <<Flag("--no-chrome")>>) = {[flag |-> "--no-chrome", values |-> {}]}
      BY <3>1, BareBuilt
    <3>3. Innocent(e, {[flag |-> "--no-chrome", values |-> {}]})
      BY <1>1, InnocentOption
    <3> QED  BY <3>2, <3>3 DEF Plain
  <2>4. Plain(e, IF role THEN Option("--append-system-prompt", "role") ELSE <<>>)
    BY <1>0, <1>1, PlainOption, PlainNothing
  <2> DEFINE m == IF model THEN Option("--model", "m") ELSE <<>>
             f == Option("--effort", "high")
             g == <<Flag("--no-chrome")>>
             r == IF role THEN Option("--append-system-prompt", "role") ELSE <<>>
  <2>5. PersonaWords(e, model, role) = ((m \o f) \o g) \o r
    BY <1>1, Zenon DEF PersonaWords, ClaudeBuild
  <2> HIDE DEF m, f, g, r
  <2>6. Plain(e, m) /\ Plain(e, f) /\ Plain(e, g) /\ Plain(e, r)
    BY <2>1, <2>2, <2>3, <2>4 DEF m, f, g, r
  <2>7. Plain(e, (m \o f) \o g)
    <3>1. Plain(e, m \o f)
      BY <2>6, PlainJoins
    <3> QED  BY <2>6, <3>1, PlainJoins
  <2>8. Plain(e, ((m \o f) \o g) \o r)
    BY <2>6, <2>7, PlainJoins
  <2> QED  BY <2>5, <2>8
<1>2. CASE e = "codex"
  <2> DEFINE m == Option("-m", "m")
             f == Option("-c", "effort")
             r == IF role THEN Option("-c", "role") ELSE <<>>
  <2>1. PersonaWords(e, model, role) = (m \o f) \o r
    BY <1>2, Zenon DEF PersonaWords, CodexBuild
  <2>2. Plain(e, m) /\ Plain(e, f) /\ Plain(e, r)
    BY <1>0, <1>2, PlainOption, PlainNothing
  <2> HIDE DEF m, f, r
  <2>3. Plain(e, m \o f)
    BY <2>2, PlainJoins
  <2>4. Plain(e, (m \o f) \o r)
    BY <2>2, <2>3, PlainJoins
  <2> QED  BY <2>1, <2>4
<1>3. CASE e = "agy"
  <2>1. PersonaWords(e, model, role) = Option("--model", "m")
    BY <1>3, Zenon DEF PersonaWords, AgyBuild
  <2>2. Plain(e, Option("--model", "m"))
    BY <1>0, <1>3, PlainOption
  <2> QED  BY <2>1, <2>2
<1> QED  BY <1>1, <1>2, <1>3 DEF Known3

\* The settings of a seeded command, before it is bound to a worktree.
LEMMA SeededReads ==
  ASSUME NEW e \in Known3, NEW y \in Built(e), NEW ro \in BOOLEAN, NEW seeded \in BOOLEAN,
         NEW text \in Values \ {"resume", "fork"}
  PROVE  Settings(e, Seeded(e, y, ro, seeded, text)) = Applied(e, y, ro) \cup SeedSettings(e, seeded, text)
<1> DEFINE k == ApplyAccess(e, y, ro)
           c == Seeded(e, y, ro, seeded, text)
           A == Applied(e, y, ro)
<1>1. k \in Built(e) /\ Settings(e, k) = A /\ Closed(e, k)
  BY AppliedIs
<1>2. CASE e = "agy" /\ seeded
  <2>1. "-i" \in Names(e) /\ Arity(e, "-i") # "none"
    BY <1>2 DEF Names, Arity
  <2>2. Option("-i", text) \in Built(e) /\ Settings(e, Option("-i", text)) = {[flag |-> "-i", values |-> {text}]}
    BY <2>1, OptionBuilt
  <2>3. c = k \o Option("-i", text)
    BY <1>2 DEF Seeded, Seed
  <2> HIDE DEF k, c, A
  <2>4. Settings(e, k \o Option("-i", text)) = A \cup {[flag |-> "-i", values |-> {text}]}
    BY <1>1, <2>2, BuiltJoins
  <2> QED  BY <1>2, <2>3, <2>4 DEF SeedSettings, c, A
<1>3. CASE ~(e = "agy" /\ seeded)
  <2> DEFINE w == IF seeded THEN <<Word(text)>> ELSE <<>>
  <2>1. c = k \o w
    BY <1>3 DEF Seeded, Seed
  <2>2. w \in Ends
    BY DEF Ends
  <2> HIDE DEF k, c, A, w
  <2>3. Says(e, k \o w, k, ValuesIn(Settings(e, k), ChatFlags), PromptsIn(e, Settings(e, k), w))
    BY <1>1, <2>2, PlainSays
  <2>4. Settings(e, c) = A
    BY <1>1, <2>1, <2>3 DEF Says, Reads
  <2>5. SeedSettings(e, seeded, text) = {}
    BY <1>3 DEF SeedSettings
  <2> QED  BY <2>4, <2>5 DEF c, A
<1> QED  BY <1>2, <1>3

LEMMA SeededPersona ==
  ASSUME NEW e \in Known3, NEW y \in Built(e), NEW ro \in BOOLEAN, NEW seeded \in BOOLEAN,
         NEW text \in Values \ {"resume", "fork"}
  PROVE  Persona(e, Seeded(e, y, ro, seeded, text)) = PersonaIn(e, Settings(e, y))
<1> DEFINE S == Settings(e, y)
           A == AccessSettings(e, ro)
           Y == SeedSettings(e, seeded, text)
           T == ((S \ AccessDrops(e)) \cup A) \cup Y
<1>1. Settings(e, Seeded(e, y, ro, seeded, text)) = T
  BY SeededReads DEF Applied
<1>2. \A s \in S : s \in AccessDrops(e) <=> IsAccess(e, s)
  BY SettingsInAll DEF AccessDrops
<1>3. \A s \in A : IsAccess(e, s)
  BY DEF AccessSettings, ReadOnlySettings, WritableSettings, IsAccess, AccessBare, AccessValues, AccessLists, Known3
<1>4. \A s \in Y : IsIdentity(e, s)
  BY DEF SeedSettings, IsIdentity, IdentityValues
<1> HIDE DEF S, A, Y
<1>5. PersonaIn(e, T) = PersonaIn(e, S)
  BY <1>2, <1>3, <1>4 DEF PersonaIn
<1> QED  BY <1>1, <1>5, PersonaIs DEF S

LEMMA BuildIsOwn ==
  ASSUME NEW e \in Known3, NEW model \in BOOLEAN, NEW role \in BOOLEAN, NEW prompt \in BOOLEAN, NEW ro \in BOOLEAN,
         NEW tree \in Values
  PROVE  LET cmd == Build(e, model, role, prompt, ro)
             c == Prepared(e, cmd, tree)
         IN  /\ Good(e, c, Persona(e, cmd), {}, IF prompt THEN {"first prompt"} ELSE {}, tree, ro)
             /\ Base(e, c, Persona(e, cmd), ro)
<1> DEFINE y == PersonaWords(e, model, role)
           cmd == Seeded(e, y, ro, prompt, "first prompt")
           c == Prepared(e, cmd, tree)
<1>1. Build(e, model, role, prompt, ro) = cmd
  BY Zenon DEF Build, Seeded, PersonaWords
<1>2. "first prompt" \in Values \ {"resume", "fork"}
  BY DEF Values
<1>3. Plain(e, y)
  BY PersonaWordsAre
<1> HIDE DEF y
<1>4. y \in Built(e) /\ Innocent(e, Settings(e, y))
  BY <1>3 DEF Plain
<1>5. Settings(e, y) \cap IdentityDrops(e) = {}
  BY <1>4 DEF Innocent, IdentityDrops
<1>6. OnlyTx(e, Settings(e, y) \ AccessDrops(e))
  BY <1>4 DEF Innocent, OnlyTx
<1>7. Persona(e, cmd) = PersonaIn(e, Settings(e, y))
  BY <1>2, <1>4, SeededPersona
<1>8. /\ Good(e, c, PersonaIn(e, Settings(e, y)), {}, IF prompt THEN {"first prompt"} ELSE {}, tree, ro)
      /\ Base(e, c, PersonaIn(e, Settings(e, y)), ro)
  BY <1>2, <1>4, <1>5, <1>6, SeededIsOwn, Zenon
<1> HIDE DEF c, cmd
<1>9. /\ Good(e, c, Persona(e, cmd), {}, IF prompt THEN {"first prompt"} ELSE {}, tree, ro)
      /\ Base(e, c, Persona(e, cmd), ro)
  BY <1>7, <1>8
<1> QED  BY <1>1, <1>9 DEF c

LEMMA HandIsOwn ==
  ASSUME ~OddForms, NEW e \in Known3, NEW cmd \in HandWritten(e), NEW tree \in Values
  PROVE  LET c == Prepared(e, cmd, tree) IN
         /\ c \in Seq(Token) /\ Persona(e, c) = Persona(e, cmd) /\ ChatsNamed(e, c) = ChatsNamed(e, cmd)
         /\ Prompts(e, c) = Prompts(e, cmd) /\ (e = "agy" => TreesIn(Settings(e, c)) = {{tree}})
         /\ Base(e, c, Persona(e, cmd), FALSE)
<1> DEFINE c == Prepared(e, cmd, tree)
           S == Settings(e, cmd)
<1>1. Carried(e, cmd, c, tree)
  BY HandCarried
<1> HIDE DEF c
<1>2. PICK b : /\ Says(e, c, b, ChatsNamed(e, cmd), Prompts(e, cmd))
               /\ S \subseteq SettingsOf(e)
               /\ \/ Settings(e, b) = BindingSettings(e, tree) \cup Unbound(e, S)
                  \/ e # "agy" /\ Settings(e, b) = S
  BY <1>1 DEF Carried
<1>3. S \subseteq AllSettings
  BY <1>2, SettingsAre
<1>4. c \in Seq(Token) /\ Settings(e, c) = Settings(e, b) /\ ChatsNamed(e, c) = ChatsNamed(e, cmd) /\ Prompts(e, c) = Prompts(e, cmd)
  BY <1>2 DEF Says, Reads
<1>5. /\ PersonaIn(e, BindingSettings(e, tree) \cup Unbound(e, S)) = PersonaIn(e, S)
      /\ e = "agy" => TreesIn(BindingSettings(e, tree) \cup Unbound(e, S)) = {{tree}}
  BY <1>3, BindingPersona
<1> HIDE DEF S
<1>6. PersonaIn(e, Settings(e, b)) = PersonaIn(e, S) /\ (e = "agy" => TreesIn(Settings(e, b)) = {{tree}})
  BY <1>2, <1>5
<1>7. Persona(e, c) = PersonaIn(e, Settings(e, b)) /\ Persona(e, cmd) = PersonaIn(e, S)
  BY <1>4, PersonaIs DEF S
<1>8. Base(e, c, PersonaIn(e, Settings(e, b)), FALSE)
  BY <1>2, BaseIs
<1> QED  BY <1>4, <1>6, <1>7, <1>8 DEF c
\* A resume or a fork, accepted by spawn_worker.
LEMMA ContinueIsOwn ==
  ASSUME NEW e \in Known3, NEW cmd, NEW persona, NEW was, Base(e, cmd, persona, was),
         NEW kind \in {"resume", "fork"}, NEW chat \in Values, NEW ro \in BOOLEAN, NEW tree \in Values,
         ro => IsReadOnly(e, Prepared(e, ContinueCommand(e, kind, cmd, chat, ro), tree))
  PROVE  LET c == Prepared(e, ContinueCommand(e, kind, cmd, chat, ro), tree) IN
         Good(e, c, persona, {chat}, {}, tree, ro) /\ Base(e, c, persona, ro)
<1> DEFINE s == StripIdentity(e, cmd)
           d == Continued(e, kind, chat, s, ro)
           c == Prepared(e, d, tree)
           I == IdentitySettings(e, kind, chat)
<1>1. ContinueCommand(e, kind, cmd, chat, ro) = d
  BY DEF ContinueCommand, Continued
<1>2. s \in Built(e) /\ Settings(e, s) \cap IdentityDrops(e) = {} /\ PersonaIn(e, Settings(e, s)) = persona
  BY DEF Base
<1>3. ro => OnlyTx(e, (I \cup Settings(e, s)) \ AccessDrops(e))
  <2> SUFFICES ASSUME ro PROVE OnlyTx(e, (I \cup Settings(e, s)) \ AccessDrops(e))
    OBVIOUS
  <2>1. CASE e # "claude"
    BY <2>1 DEF OnlyTx
  <2>2. CASE e = "claude"
    <3> DEFINE y == Identity(e, kind, chat) \o s
    <3>1. Identity(e, kind, chat) \in Built(e) /\ Settings(e, Identity(e, kind, chat)) = I
      BY <2>2, IdentityIs
    <3>2. y \in Built(e) /\ Settings(e, y) = I \cup Settings(e, s)
      BY <1>2, <3>1, BuiltJoins
    <3>3. Prepared(e, d, tree) = ApplyAccess(e, y, ro)
      BY <2>2 DEF Prepared, Continued
    <3>4. IsReadOnly(e, ApplyAccess(e, y, TRUE))
      BY <1>1, <3>3
    <3> HIDE DEF y
    <3>5. ApplyAccess(e, y, TRUE) \o <<>> = ApplyAccess(e, y, TRUE) /\ <<>> \in Seq(Token)
      BY <3>2, AppliedIs, NoEnd
    <3>6. OnlyTx(e, Settings(e, y) \ AccessDrops(e))
      BY <3>2, <3>4, <3>5, SourcesRefused
    <3> QED  BY <3>2, <3>6
  <2> QED  BY <2>1, <2>2
<1> HIDE DEF s
<1>4. Good(e, c, PersonaIn(e, Settings(e, s)), {chat}, {}, tree, ro) /\ Base(e, c, PersonaIn(e, Settings(e, s)), ro)
  BY <1>2, <1>3, ContinuedIsOwn, Zenon
<1> HIDE DEF d
<1>5. Good(e, c, persona, {chat}, {}, tree, ro) /\ Base(e, c, persona, ro)
  BY <1>2, <1>4
<1> QED  BY <1>1, <1>5

\* A handover, accepted by spawn_worker.
LEMMA HandoverIsOwn ==
  ASSUME NEW e \in Known3, NEW cmd, NEW persona, NEW was, Base(e, cmd, persona, was),
         NEW text \in Values \ {"resume", "fork"}, NEW ro \in BOOLEAN, NEW tree \in Values,
         ro => IsReadOnly(e, Prepared(e, SeedCommand(e, cmd, text, ro), tree))
  PROVE  LET c == Prepared(e, SeedCommand(e, cmd, text, ro), tree) IN
         Good(e, c, persona, {}, {text}, tree, ro) /\ Base(e, c, persona, ro)
<1> DEFINE s == StripIdentity(e, cmd)
           d == Seeded(e, s, ro, TRUE, text)
           c == Prepared(e, d, tree)
<1>1. SeedCommand(e, cmd, text, ro) = d
  BY DEF SeedCommand, Seeded
<1>2. s \in Built(e) /\ Settings(e, s) \cap IdentityDrops(e) = {} /\ PersonaIn(e, Settings(e, s)) = persona
  BY DEF Base
<1>3. ro => OnlyTx(e, Settings(e, s) \ AccessDrops(e))
  <2> SUFFICES ASSUME ro PROVE OnlyTx(e, Settings(e, s) \ AccessDrops(e))
    OBVIOUS
  <2>1. CASE e # "claude"
    BY <2>1 DEF OnlyTx
  <2>2. CASE e = "claude"
    <3>1. c = ApplyAccess(e, s, ro) \o <<Word(text)>>
      BY <2>2 DEF Prepared, Seeded, Seed
    <3>2. IsReadOnly(e, ApplyAccess(e, s, TRUE) \o <<Word(text)>>)
      BY <1>1, <3>1
    <3>3. <<Word(text)>> \in Seq(Token)
      BY TokensAre
    <3> HIDE DEF s
    <3> QED  BY <1>2, <3>2, <3>3, SourcesRefused
  <2> QED  BY <2>1, <2>2
<1> HIDE DEF s
<1>4. LET b == Prepared(e, Seeded(e, s, ro, TRUE, text), tree) IN
      /\ Good(e, b, PersonaIn(e, Settings(e, s)), {}, IF TRUE THEN {text} ELSE {}, tree, ro)
      /\ Base(e, b, PersonaIn(e, Settings(e, s)), ro)
  BY <1>2, <1>3, SeededIsOwn, Zenon
<1> HIDE DEF d
<1>5. Good(e, c, persona, {}, {text}, tree, ro) /\ Base(e, c, persona, ro)
  BY <1>2, <1>4 DEF d
<1> QED  BY <1>1, <1>5

\* A rollover, which nothing checks: the access it writes is the one it asks for.
LEMMA RolloverIsOwn ==
  ASSUME NEW e \in Known3, NEW cmd, NEW persona, NEW ro \in BOOLEAN, Base(e, cmd, persona, ro),
         NEW text \in Values \ {"resume", "fork"}, NEW tree \in Values
  PROVE  LET c == Prepared(e, SeedCommand(e, cmd, text, ro), tree) IN
         Good(e, c, persona, {}, {text}, tree, ro) /\ (ro => IsReadOnly(e, c))
<1> DEFINE s == StripIdentity(e, cmd)
           d == Seeded(e, s, ro, TRUE, text)
           c == Prepared(e, d, tree)
           Y == SeedSettings(e, TRUE, text)
           T == Composed(e, tree, Settings(e, s), ro, Y)
<1>1. SeedCommand(e, cmd, text, ro) = d
  BY DEF SeedCommand, Seeded
<1>2. s \in Built(e) /\ Settings(e, s) \cap IdentityDrops(e) = {} /\ PersonaIn(e, Settings(e, s)) = persona
  BY DEF Base
<1>3. ro => OnlyTx(e, Settings(e, s) \ AccessDrops(e))
  BY DEF Base, OnlyTx
<1> HIDE DEF s
<1>4. LET b == Prepared(e, Seeded(e, s, ro, TRUE, text), tree) IN
      /\ Good(e, b, PersonaIn(e, Settings(e, s)), {}, IF TRUE THEN {text} ELSE {}, tree, ro)
      /\ Base(e, b, PersonaIn(e, Settings(e, s)), ro)
  BY <1>2, <1>3, SeededIsOwn, Zenon
<1>5. NoControl(c) /\ \E b : Settings(e, b) = T /\ Says(e, c, b, ValuesIn(T, ChatFlags), SeedPrompts(e, T, TRUE, text))
  BY <1>2, SeedSays, Zenon
<1>6. e # "agy" => NoInline(c)
  BY <1>2, NoInlinePrepared DEF Known3
<1>7. ro => OnlyTx(e, T)
  <2>1. \A t \in Y : t.flag \in Extras(e)
    BY DEF SeedSettings, Extras
  <2> HIDE DEF Y
  <2> QED  BY <1>3, <2>1, ComposedOnlyTx
<1> HIDE DEF d, T
<1>8. Good(e, c, persona, {}, {text}, tree, ro)
  BY <1>2, <1>4 DEF d
<1> HIDE DEF c
<1>9. c \in Seq(Token) /\ Settings(e, c) = T
  BY <1>5 DEF Says, Reads
<1>10. ASSUME ro PROVE IsReadOnly(e, c)
  <2>1. Access(e, c) = Settings(e, ReadOnly(e))
    BY <1>8, <1>10 DEF Good
  <2>2. Settings(e, ReadOnly(e)) = ReadOnlySettings(e)
    BY ReadOnlyIs DEF AccessWords, AccessOf, AccessSettings
  <2>3. {t \in Settings(e, c) : IsAccess(e, t)} = ReadOnlySettings(e)
    BY <2>1, <2>2, PersonaIs
  <2>4. e = "claude" => \A t \in Settings(e, c) : t.flag = "--setting-sources" => t.values = {"user"}
    BY <1>7, <1>9, <1>10 DEF OnlyTx
  <2>5. ReadOnlyShown(e, Settings(e, c))
    BY <2>3, <2>4 DEF ReadOnlyShown
  <2> QED  BY <1>5, <1>6, <1>9, <2>5, ReadOnlyIsShown
<1>11. Good(e, c, persona, {}, {text}, tree, ro) /\ (ro => IsReadOnly(e, c))
  BY <1>8, <1>10
<1> QED  BY <1>1, <1>11 DEF c

----------------------------------------------------------------------------
(* The chain.                                                               *)


Sessions ==
    [engine : Engines \cup {None}, cmd : Seq(Token), ran : Seq(Token), ro : BOOLEAN, tree : TreeNames \cup {None},
     chat : ChatNames \cup {None}, home : TreeNames \cup {None}]

LaunchTypes ==
    /\ session \in Sessions /\ links \in 0..(MaxLinks + 1)
    /\ scripts \subseteq ChatNames \X (TreeNames \cup {"global"})
    /\ want.derived \in BOOLEAN /\ (want.derived => NoControl(session.ran))

\* The recorded command carries the persona, and no chat or prompt.
Settled ==
    session.engine # None =>
      /\ session.chat \in ChatNames /\ session.tree \in TreeNames /\ session.home \in TreeNames
      /\ Base(session.engine, session.cmd, want.persona, session.ro)

LaunchInv == LaunchTypes /\ Settled /\ CommandIsItsOwn

LEMMA NamesAreValues ==
  /\ ChatNames \subseteq Values /\ TreeNames \subseteq Values
  /\ \A n \in 0..MaxLinks : ChatName(n) \in ChatNames /\ TreeName(n) \in TreeNames
  /\ 0 \in 0..MaxLinks /\ 1..MaxLinks \subseteq 0..MaxLinks
<1>1. MaxLinks \in Nat
  BY LaunchAssumption
<1>2. ChatNames \subseteq Values /\ TreeNames \subseteq Values
  BY DEF Values
<1>3. \A n \in 0..MaxLinks : ChatName(n) \in ChatNames /\ TreeName(n) \in TreeNames
  BY DEF ChatNames, TreeNames
<1> QED  BY <1>1, <1>2, <1>3

LEMMA EnginesAreKnown ==
  Engines \subseteq Known3 /\ None \notin Engines
BY LaunchAssumption DEF Known3

\* A command that is as its operation asked.
AsAsked ==
    /\ session.engine # None /\ session.ro \in BOOLEAN
    /\ Good(session.engine, session.ran, want.persona, want.chats, want.prompts, session.tree, session.ro)
    /\ session.ro => IsReadOnly(session.engine, session.ran)
    /\ HistoryFound

LEMMA AskedIsOwn ==
  AsAsked => CommandIsItsOwn
<1> SUFFICES ASSUME AsAsked PROVE CommandIsItsOwn
  OBVIOUS
<1> DEFINE e == session.engine
           c == session.ran
<1>1. Good(e, c, want.persona, want.chats, want.prompts, session.tree, session.ro)
  BY DEF AsAsked
<1>2. PersonaInherited /\ OwnChatAndPrompt
  BY <1>1 DEF Good, PersonaInherited, OwnChatAndPrompt
<1>3. AccessAsRecorded
  <2>1. IsReadOnly(e, c) \in BOOLEAN
    BY DEF IsReadOnly
  <2>2. session.ro \in BOOLEAN /\ (session.ro => IsReadOnly(e, c)) /\ (session.ro \/ ~IsReadOnly(e, c))
    BY <1>1 DEF AsAsked, Good
  <2>3. IsReadOnly(e, c) = session.ro
    BY <2>1, <2>2
  <2>4. Access(e, c) = Settings(e, IF session.ro THEN ReadOnly(e) ELSE Writable(e))
    BY <1>1 DEF Good
  <2> QED  BY <2>3, <2>4 DEF AccessAsRecorded
<1>4. BoundToOneTree
  BY <1>1 DEF Good, TreesIn, BoundToOneTree
<1> QED  BY <1>2, <1>3, <1>4 DEF AsAsked, CommandIsItsOwn

LEMMA TypesAreInvariant ==
  LaunchInv => LaunchTypeOK
<1> SUFFICES ASSUME LaunchInv PROVE LaunchTypeOK
  OBVIOUS
<1>1. session \in Sessions /\ links \in 0..(MaxLinks + 1) /\ scripts \subseteq ChatNames \X (TreeNames \cup {"global"})
      /\ want.derived \in BOOLEAN /\ (want.derived => NoControl(session.ran))
  BY DEF LaunchInv, LaunchTypes
<1>2. session.engine \in Engines \cup {None} /\ session.ro \in BOOLEAN /\ session.ran \in Seq(Token)
      /\ session.tree \in TreeNames \cup {None} /\ session.home \in TreeNames \cup {None}
      /\ session.chat \in ChatNames \cup {None}
  BY <1>1 DEF Sessions
<1>3. \A t \in Range(session.ran) : t.is \in (IF want.derived THEN {"flag", "word"} ELSE {"flag", "word", "control"})
  <2>1. DOMAIN session.ran = 1..Len(session.ran)
    BY <1>2
  <2>2. \A i \in 1..Len(session.ran) : session.ran[i] \in Token
    BY <1>2
  <2> QED  BY <1>1, <2>1, <2>2, TokenKinds DEF Range, NoControl
<1>4. links \in 0..MaxLinks + 1
  BY <1>1
<1> QED  BY <1>1, <1>2, <1>3, <1>4 DEF LaunchTypeOK, ChatNames, TreeNames
LEMMA InitHolds ==
  LaunchInit => LaunchInv
<1> SUFFICES ASSUME LaunchInit PROVE LaunchInv
  OBVIOUS
<1>1. session = NoSession /\ want = NoWant /\ scripts = {} /\ links = 0
  BY DEF LaunchInit
<1>2. session \in Sessions
  <2>1. <<>> \in Seq(Token)
    OBVIOUS
  <2> QED  BY <1>1, <2>1 DEF NoSession, Sessions
<1>3. LaunchTypes
  <2>1. 0 \in 0..(MaxLinks + 1)
    BY LaunchAssumption
  <2> QED  BY <1>1, <1>2, <2>1 DEF LaunchTypes, NoWant
<1>4. session.engine = None /\ ~want.derived /\ ~want.history
  BY <1>1 DEF NoSession, NoWant
<1>5. CommandIsItsOwn
  <2>1. None # "agy" /\ None # "codex"
    BY LaunchAssumption
  <2> QED  BY <1>4, <2>1 DEF CommandIsItsOwn, PersonaInherited, OwnChatAndPrompt, AccessAsRecorded, BoundToOneTree, HistoryFound
<1> QED  BY <1>3, <1>4, <1>5 DEF LaunchInv, Settled

\* What the first session of a chain is.
LEMMA FirstIs ==
  ASSUME NEW e \in Engines, NEW cmd, NEW ro \in BOOLEAN, First(e, cmd, ro),
         LET c == Prepared(e, cmd, TreeName(0)) IN c \in Seq(Token)
  PROVE  LET c == Prepared(e, cmd, TreeName(0)) IN
         /\ session'.engine = e /\ session'.cmd = c /\ session'.ran = c /\ session'.ro = ro
         /\ session'.tree = TreeName(0) /\ session'.chat = ChatName(0) /\ session'.home = TreeName(0)
         /\ session' \in Sessions /\ (ro => IsReadOnly(e, c)) /\ links' = 1 /\ scripts' = scripts
<1> DEFINE c == Prepared(e, cmd, TreeName(0))
<1>1. session' = [engine |-> e, cmd |-> c, ran |-> c, ro |-> ro, tree |-> TreeName(0), chat |-> ChatName(0),
                  home |-> TreeName(0)]
  BY DEF First
<1>2. links' = 1 /\ scripts' = scripts /\ (ro => IsReadOnly(e, c))
  BY DEF First
<1>3. ChatName(0) \in ChatNames /\ TreeName(0) \in TreeNames
  BY NamesAreValues
<1>4. c \in Seq(Token)
  OBVIOUS
<1> HIDE DEF c
<1>5. session' \in Sessions
  BY <1>1, <1>3, <1>4 DEF Sessions
<1>6. /\ session'.engine = e /\ session'.cmd = c /\ session'.ran = c /\ session'.ro = ro
      /\ session'.tree = TreeName(0) /\ session'.chat = ChatName(0) /\ session'.home = TreeName(0)
  BY <1>1
<1> QED  BY <1>2, <1>5, <1>6 DEF c

LEMMA SpawnBuiltHolds ==
  ASSUME LaunchInv, NEW e \in Engines, NEW model \in BOOLEAN, NEW role \in BOOLEAN, NEW prompt \in BOOLEAN,
         NEW ro \in BOOLEAN, SpawnBuilt(e, model, role, prompt, ro)
  PROVE  LaunchInv'
<1> DEFINE cmd == Build(e, model, role, prompt, ro)
           c == Prepared(e, cmd, TreeName(0))
           prompts == IF prompt THEN {"first prompt"} ELSE {}
<1>0. e \in Known3 /\ e # None /\ TreeName(0) \in Values /\ ChatName(0) \in ChatNames /\ TreeName(0) \in TreeNames
  BY EnginesAreKnown, NamesAreValues
<1>1. First(e, cmd, ro) /\ want' = [NoWant EXCEPT !.persona = Persona(e, cmd), !.derived = TRUE, !.prompts = prompts]
  BY DEF SpawnBuilt
<1>2. Good(e, c, Persona(e, cmd), {}, prompts, TreeName(0), ro) /\ Base(e, c, Persona(e, cmd), ro)
  BY <1>0, BuildIsOwn, Zenon
<1>3. c \in Seq(Token) /\ NoControl(c)
  BY <1>2 DEF Good
<1> HIDE DEF cmd, prompts
<1>4. /\ session'.engine = e /\ session'.cmd = c /\ session'.ran = c /\ session'.ro = ro
      /\ session'.tree = TreeName(0) /\ session'.chat = ChatName(0) /\ session'.home = TreeName(0)
      /\ session' \in Sessions /\ (ro => IsReadOnly(e, c)) /\ links' = 1 /\ scripts' = scripts
  BY <1>1, <1>3, FirstIs, Zenon
<1> HIDE DEF c
<1>5. want'.persona = Persona(e, cmd) /\ want'.chats = {} /\ want'.prompts = prompts /\ want'.derived = TRUE
      /\ want'.history = FALSE
  BY <1>1 DEF NoWant
<1>6. LaunchTypes'
  <2>1. 1 \in 0..(MaxLinks + 1)
    BY LaunchAssumption
  <2> QED  BY <1>3, <1>4, <1>5, <2>1 DEF LaunchTypes, LaunchInv
<1>7. Settled'
  BY <1>0, <1>2, <1>4, <1>5 DEF Settled
<1>8. AsAsked'
  BY <1>0, <1>2, <1>4, <1>5 DEF AsAsked, HistoryFound
<1>9. CommandIsItsOwn'
  BY <1>8, AskedIsOwn, PTL
<1> QED  BY <1>6, <1>7, <1>9 DEF LaunchInv

LEMMA SpawnByHandHolds ==
  ASSUME ~OddForms, LaunchInv, NEW e \in Engines, NEW cmd \in HandWritten(e), SpawnByHand(e, cmd)
  PROVE  LaunchInv'
<1> DEFINE c == Prepared(e, cmd, TreeName(0))
<1>0. e \in Known3 /\ e # None /\ TreeName(0) \in Values /\ ChatName(0) \in ChatNames /\ TreeName(0) \in TreeNames
  BY EnginesAreKnown, NamesAreValues
<1>1. First(e, cmd, FALSE) /\ want' = [NoWant EXCEPT !.persona = Persona(e, cmd), !.chats = ChatsNamed(e, cmd),
                                         !.prompts = Prompts(e, cmd)]
  BY DEF SpawnByHand
<1>2. /\ c \in Seq(Token) /\ Persona(e, c) = Persona(e, cmd) /\ ChatsNamed(e, c) = ChatsNamed(e, cmd)
      /\ Prompts(e, c) = Prompts(e, cmd) /\ (e = "agy" => TreesIn(Settings(e, c)) = {{TreeName(0)}})
      /\ Base(e, c, Persona(e, cmd), FALSE)
  BY <1>0, HandIsOwn, Zenon
<1>4. /\ session'.engine = e /\ session'.cmd = c /\ session'.ran = c /\ session'.ro = FALSE
      /\ session'.tree = TreeName(0) /\ session'.chat = ChatName(0) /\ session'.home = TreeName(0)
      /\ session' \in Sessions /\ links' = 1 /\ scripts' = scripts
  BY <1>1, <1>2, FirstIs, Zenon
<1> HIDE DEF c
<1>5. want'.persona = Persona(e, cmd) /\ want'.chats = ChatsNamed(e, cmd) /\ want'.prompts = Prompts(e, cmd)
      /\ want'.derived = FALSE /\ want'.history = FALSE
  BY <1>1 DEF NoWant
<1>6. LaunchTypes'
  <2>1. 1 \in 0..(MaxLinks + 1)
    BY LaunchAssumption
  <2> QED  BY <1>4, <1>5, <2>1 DEF LaunchTypes, LaunchInv
<1>7. Settled'
  BY <1>0, <1>2, <1>4, <1>5 DEF Settled
<1>8. PersonaInherited' /\ OwnChatAndPrompt'
  BY <1>2, <1>4, <1>5 DEF PersonaInherited, OwnChatAndPrompt
<1>9. AccessAsRecorded' /\ HistoryFound'
  BY <1>5 DEF AccessAsRecorded, HistoryFound
<1>10. BoundToOneTree'
  BY <1>2, <1>4, <1>5 DEF BoundToOneTree, TreesIn
<1> QED  BY <1>6, <1>7, <1>8, <1>9, <1>10 DEF LaunchInv, CommandIsItsOwn

LEMMA AgentWritesHolds ==
  ASSUME LaunchInv, AgentWritesScript
  PROVE  LaunchInv'
<1>1. /\ session.engine # None /\ scripts' = scripts \cup {<<session.chat, Place(session.tree)>>}
      /\ session' = session /\ want' = want /\ links' = links
  BY DEF AgentWritesScript
<1>2. <<session.chat, Place(session.tree)>> \in ChatNames \X (TreeNames \cup {"global"})
  BY <1>1 DEF LaunchInv, Settled, Place
<1>3. LaunchTypes'
  BY <1>1, <1>2 DEF LaunchInv, LaunchTypes
<1>4. Settled'
  BY <1>1 DEF LaunchInv, Settled
<1>5. PersonaInherited' /\ OwnChatAndPrompt' /\ AccessAsRecorded' /\ BoundToOneTree'
  BY <1>1 DEF LaunchInv, CommandIsItsOwn, PersonaInherited, OwnChatAndPrompt, AccessAsRecorded, BoundToOneTree
<1>6. HistoryFound'
  BY <1>1 DEF LaunchInv, CommandIsItsOwn, HistoryFound, Place
<1> QED  BY <1>3, <1>4, <1>5, <1>6 DEF LaunchInv, CommandIsItsOwn
\* What a worker's session is.
LEMMA WorkerIs ==
  ASSUME session \in Sessions, NEW cmd, NEW ro \in BOOLEAN, NEW tree \in TreeNames, NEW chat \in ChatNames,
         SpawnWorker(cmd, ro, tree, chat), LET c == Prepared(session.engine, cmd, tree) IN c \in Seq(Token)
  PROVE  LET c == Prepared(session.engine, cmd, tree) IN
         /\ session'.engine = session.engine /\ session'.cmd = c /\ session'.ran = c /\ session'.ro = ro
         /\ session'.tree = tree /\ session'.chat = chat /\ session'.home = tree /\ session' \in Sessions
<1> DEFINE c == Prepared(session.engine, cmd, tree)
<1>1. session' = [session EXCEPT !.cmd = c, !.ran = c, !.ro = ro, !.tree = tree, !.chat = chat, !.home = tree]
  BY DEF SpawnWorker
<1>2. c \in Seq(Token)
  OBVIOUS
<1> HIDE DEF c
<1>3. /\ session'.engine = session.engine /\ session'.cmd = c /\ session'.ran = c /\ session'.ro = ro
      /\ session'.tree = tree /\ session'.chat = chat /\ session'.home = tree /\ session' \in Sessions
  BY <1>1, <1>2 DEF Sessions
<1> QED  BY <1>3 DEF c

\* Where a chain may go on.
LEMMA MayLinkIs ==
  ASSUME LaunchInv, MayLink
  PROVE  /\ session \in Sessions /\ session.engine \in Known3 /\ session.engine # None /\ session.ro \in BOOLEAN
         /\ session.chat \in ChatNames /\ session.chat \in Values /\ session.tree \in TreeNames /\ session.tree \in Values
         /\ session.home \in TreeNames /\ session.cmd \in Seq(Token)
         /\ ChatName(links) \in ChatNames /\ ChatName(links) \in Values
         /\ TreeName(links) \in TreeNames /\ TreeName(links) \in Values /\ links + 1 \in 0..(MaxLinks + 1)
         /\ Base(session.engine, session.cmd, want.persona, session.ro)
         /\ scripts \subseteq ChatNames \X (TreeNames \cup {"global"})
<1>1. session.engine # None /\ links \in 1..MaxLinks /\ session \in Sessions
      /\ scripts \subseteq ChatNames \X (TreeNames \cup {"global"})
  BY DEF LaunchInv, LaunchTypes, MayLink
<1>2. session.engine \in Engines /\ session.ro \in BOOLEAN /\ session.cmd \in Seq(Token)
  BY <1>1 DEF Sessions
<1>3. /\ session.chat \in ChatNames /\ session.tree \in TreeNames /\ session.home \in TreeNames
      /\ Base(session.engine, session.cmd, want.persona, session.ro)
  BY <1>1 DEF LaunchInv, Settled
<1>4. links \in 0..MaxLinks /\ links + 1 \in 0..(MaxLinks + 1)
  BY <1>1, LaunchAssumption
<1>5. ChatName(links) \in ChatNames /\ TreeName(links) \in TreeNames
  BY <1>4, NamesAreValues
<1> QED  BY <1>1, <1>2, <1>3, <1>4, <1>5, NamesAreValues, EnginesAreKnown

\* A step that leaves a session as its operation asked.
Asks(e, c, persona, chats, prompts, tree, ro) ==
    /\ Good(e, c, persona, chats, prompts, tree, ro) /\ (ro => IsReadOnly(e, c)) /\ e # None /\ ro \in BOOLEAN
    /\ Base(e, session'.cmd, persona, ro) /\ session' \in Sessions
    /\ session'.engine = e /\ session'.ran = c /\ session'.ro = ro /\ session'.tree = tree
    /\ session'.chat \in ChatNames /\ session'.tree \in TreeNames /\ session'.home \in TreeNames
    /\ want'.persona = persona /\ want'.chats = chats /\ want'.prompts = prompts /\ want'.derived = TRUE
    /\ links' \in 0..(MaxLinks + 1) /\ scripts' \subseteq ChatNames \X (TreeNames \cup {"global"}) /\ HistoryFound'

LEMMA AskedHolds ==
  ASSUME NEW e, NEW c, NEW persona, NEW chats, NEW prompts, NEW tree, NEW ro,
         Asks(e, c, persona, chats, prompts, tree, ro)
  PROVE  LaunchInv'
<1>1. LaunchTypes'
  BY DEF LaunchTypes, Good, Asks
<1>2. Settled'
  BY DEF Settled, Asks
<1>3. AsAsked'
  BY DEF AsAsked, Asks
<1>4. CommandIsItsOwn'
  BY <1>3, AskedIsOwn, PTL
<1> QED  BY <1>1, <1>2, <1>4 DEF LaunchInv

LEMMA HandoverHolds ==
  ASSUME LaunchInv, NEW ro \in BOOLEAN, Handover(ro)
  PROVE  LaunchInv'
<1> DEFINE e == session.engine
           tree == TreeName(links)
           cmd == SeedCommand(e, session.cmd, "brief", ro)
           c == Prepared(e, cmd, tree)
<1>1. /\ MayLink /\ links' = links + 1 /\ SpawnWorker(cmd, ro, tree, ChatName(links))
      /\ want' = [Derived EXCEPT !.prompts = {"brief"}] /\ scripts' = scripts
  BY DEF Handover
<1>2. /\ session \in Sessions /\ e \in Known3 /\ e # None
      /\ ChatName(links) \in ChatNames /\ tree \in TreeNames /\ tree \in Values /\ links + 1 \in 0..(MaxLinks + 1)
      /\ Base(e, session.cmd, want.persona, session.ro) /\ scripts \subseteq ChatNames \X (TreeNames \cup {"global"})
  BY <1>1, MayLinkIs
<1>3. ro => IsReadOnly(e, c)
  BY <1>1 DEF SpawnWorker
<1>4. "brief" \in Values \ {"resume", "fork"}
  BY DEF Values
<1>5. Good(e, c, want.persona, {}, {"brief"}, tree, ro) /\ Base(e, c, want.persona, ro)
  BY <1>2, <1>3, <1>4, HandoverIsOwn, Zenon
<1>6. c \in Seq(Token)
  BY <1>5 DEF Good
<1> HIDE DEF cmd
<1>7. /\ session'.engine = e /\ session'.cmd = c /\ session'.ran = c /\ session'.ro = ro
      /\ session'.tree = tree /\ session'.chat = ChatName(links) /\ session'.home = tree /\ session' \in Sessions
  BY <1>1, <1>2, <1>6, WorkerIs, Zenon
<1>8. /\ want'.persona = want.persona /\ want'.chats = {} /\ want'.prompts = {"brief"} /\ want'.derived = TRUE
      /\ want'.history = FALSE
  BY <1>1 DEF Derived
<1>9. HistoryFound'
  BY <1>8 DEF HistoryFound
<1> HIDE DEF c, tree, e
<1>20. Asks(e, c, want.persona, {}, {"brief"}, tree, ro)
  BY <1>1, <1>2, <1>3, <1>5, <1>7, <1>8, <1>9 DEF Asks
<1> QED  BY <1>20, AskedHolds

LEMMA RolloverHolds ==
  ASSUME LaunchInv, Rollover
  PROVE  LaunchInv'
<1> DEFINE e == session.engine
           tree == session.tree
           ro == session.ro
           c == Prepared(e, SeedCommand(e, session.cmd, "note", ro), tree)
<1>1. /\ MayLink /\ links' = links + 1
      /\ session' = [session EXCEPT !.chat = ChatName(links), !.home = tree, !.ran = c]
      /\ want' = [Derived EXCEPT !.prompts = {"note"}] /\ scripts' = scripts
  BY DEF Rollover
<1>2. /\ session \in Sessions /\ e \in Known3 /\ e # None /\ ro \in BOOLEAN
      /\ ChatName(links) \in ChatNames /\ tree \in TreeNames /\ tree \in Values /\ links + 1 \in 0..(MaxLinks + 1)
      /\ Base(e, session.cmd, want.persona, ro) /\ scripts \subseteq ChatNames \X (TreeNames \cup {"global"})
  BY <1>1, MayLinkIs
<1>4. "note" \in Values \ {"resume", "fork"}
  BY DEF Values
<1>5. Good(e, c, want.persona, {}, {"note"}, tree, ro) /\ (ro => IsReadOnly(e, c))
  BY <1>2, <1>4, RolloverIsOwn, Zenon
<1>6. c \in Seq(Token)
  BY <1>5 DEF Good
<1> HIDE DEF c
<1>7. /\ session'.engine = e /\ session'.cmd = session.cmd /\ session'.ran = c /\ session'.ro = ro
      /\ session'.tree = tree /\ session'.chat = ChatName(links) /\ session'.home = tree /\ session' \in Sessions
  BY <1>1, <1>2, <1>6 DEF Sessions
<1>8. /\ want'.persona = want.persona /\ want'.chats = {} /\ want'.prompts = {"note"} /\ want'.derived = TRUE
      /\ want'.history = FALSE
  BY <1>1 DEF Derived
<1>9. HistoryFound'
  BY <1>8 DEF HistoryFound
<1> HIDE DEF tree, e, ro
<1>20. Asks(e, c, want.persona, {}, {"note"}, tree, ro)
  BY <1>1, <1>2, <1>5, <1>7, <1>8, <1>9 DEF Asks
<1> QED  BY <1>20, AskedHolds

LEMMA ResumeHolds ==
  ASSUME LaunchInv, NEW n \in 0..MaxLinks, Resume(TreeName(n))
  PROVE  LaunchInv'
<1> DEFINE e == session.engine
           tree == TreeName(n)
           ro == session.ro
           chat == session.chat
           cmd == ContinueCommand(e, "resume", session.cmd, chat, ro)
           c == Prepared(e, cmd, tree)
<1>1. /\ MayLink /\ links' = links + 1 /\ SpawnWorker(cmd, ro, tree, chat) /\ scripts' = Copied(tree)
      /\ want' = [Derived EXCEPT !.chats = {chat}, !.history = OnDisk]
  BY DEF Resume
<1>2. /\ session \in Sessions /\ e \in Known3 /\ e # None /\ ro \in BOOLEAN /\ chat \in ChatNames /\ chat \in Values
      /\ links + 1 \in 0..(MaxLinks + 1)
      /\ Base(e, session.cmd, want.persona, ro) /\ scripts \subseteq ChatNames \X (TreeNames \cup {"global"})
  BY <1>1, MayLinkIs
<1>3. ro => IsReadOnly(e, c)
  BY <1>1 DEF SpawnWorker
<1>4. tree \in TreeNames /\ tree \in Values
  BY NamesAreValues
<1>5. Good(e, c, want.persona, {chat}, {}, tree, ro) /\ Base(e, c, want.persona, ro)
  BY <1>2, <1>3, <1>4, ContinueIsOwn, Zenon
<1>6. c \in Seq(Token)
  BY <1>5 DEF Good
<1> HIDE DEF cmd
<1>7. /\ session'.engine = e /\ session'.cmd = c /\ session'.ran = c /\ session'.ro = ro
      /\ session'.tree = tree /\ session'.chat = chat /\ session'.home = tree /\ session' \in Sessions
  BY <1>1, <1>2, <1>4, <1>6, WorkerIs, Zenon
<1>8. /\ want'.persona = want.persona /\ want'.chats = {chat} /\ want'.prompts = {} /\ want'.derived = TRUE
      /\ want'.history = OnDisk
  BY <1>1 DEF Derived
<1> HIDE DEF c, tree
<1>9. HistoryFound'
  <2>1. scripts' = IF OnDisk THEN scripts \cup {<<chat, Place(tree)>>} ELSE scripts
    BY <1>1 DEF Copied
  <2>2. Place(session.tree)' = Place(tree)
    BY <1>7 DEF Place
  <2>3. OnDisk => \E h \in {chat} : <<h, Place(tree)>> \in scripts'
    BY <2>1
  <2> HIDE DEF chat
  <2> QED  BY <1>8, <2>2, <2>3 DEF HistoryFound
<1>10. scripts' \subseteq ChatNames \X (TreeNames \cup {"global"})
  <2>1. <<chat, Place(tree)>> \in ChatNames \X (TreeNames \cup {"global"})
    BY <1>2, <1>4 DEF Place
  <2> QED  BY <1>1, <1>2, <2>1 DEF Copied
<1> HIDE DEF e, ro, chat
<1>20. Asks(e, c, want.persona, {chat}, {}, tree, ro)
  BY <1>1, <1>2, <1>3, <1>4, <1>5, <1>7, <1>8, <1>9, <1>10 DEF Asks
<1> QED  BY <1>20, AskedHolds

LEMMA ForkHolds ==
  ASSUME LaunchInv, NEW ro \in BOOLEAN, Fork(ro)
  PROVE  LaunchInv'
<1> DEFINE e == session.engine
           tree == TreeName(links)
           minted == ChatName(links)
           named == IF e = "agy" THEN minted ELSE session.chat
           cmd == ContinueCommand(e, "fork", session.cmd, named, ro)
           c == Prepared(e, cmd, tree)
<1>1. /\ MayLink /\ links' = links + 1 /\ (e = "agy" => OnDisk) /\ SpawnWorker(cmd, ro, tree, minted)
      /\ scripts' = (IF e = "agy" THEN AgyCopy(minted) ELSE Copied(tree))
      /\ want' = [Derived EXCEPT !.chats = {named}, !.history = OnDisk]
  BY DEF Fork
<1>2. /\ session \in Sessions /\ e \in Known3 /\ e # None /\ session.chat \in ChatNames /\ session.chat \in Values
      /\ minted \in ChatNames /\ minted \in Values /\ tree \in TreeNames /\ tree \in Values
      /\ links + 1 \in 0..(MaxLinks + 1)
      /\ Base(e, session.cmd, want.persona, session.ro) /\ scripts \subseteq ChatNames \X (TreeNames \cup {"global"})
  BY <1>1, MayLinkIs
<1>3. ro => IsReadOnly(e, c)
  BY <1>1 DEF SpawnWorker
<1>4. named \in Values
  BY <1>2
<1>5. Good(e, c, want.persona, {named}, {}, tree, ro) /\ Base(e, c, want.persona, ro)
  <2> HIDE DEF named
  <2> QED  BY <1>2, <1>3, <1>4, ContinueIsOwn, Zenon
<1>6. c \in Seq(Token)
  BY <1>5 DEF Good
<1> HIDE DEF cmd
<1>7. /\ session'.engine = e /\ session'.cmd = c /\ session'.ran = c /\ session'.ro = ro
      /\ session'.tree = tree /\ session'.chat = minted /\ session'.home = tree /\ session' \in Sessions
  BY <1>1, <1>2, <1>6, WorkerIs, Zenon
<1>8. /\ want'.persona = want.persona /\ want'.chats = {named} /\ want'.prompts = {} /\ want'.derived = TRUE
      /\ want'.history = OnDisk
  BY <1>1 DEF Derived
<1> HIDE DEF c, tree, minted
<1>9. HistoryFound'
  <2>1. CASE e = "agy"
    <3>1. scripts' = scripts \cup {<<minted, "global">>} /\ named = minted
      BY <1>1, <2>1 DEF AgyCopy
    <3>2. Place(session.tree)' = "global"
      BY <1>7, <2>1 DEF Place
    <3> QED  BY <1>8, <3>1, <3>2 DEF HistoryFound
  <2>2. CASE e # "agy"
    <3>1. scripts' = (IF OnDisk THEN scripts \cup {<<session.chat, Place(tree)>>} ELSE scripts) /\ named = session.chat
      BY <1>1, <2>2 DEF Copied
    <3>2. Place(session.tree)' = Place(tree)
      BY <1>7 DEF Place
    <3>3. OnDisk => \E h \in {named} : <<h, Place(tree)>> \in scripts'
      BY <3>1
    <3> HIDE DEF named
    <3> QED  BY <1>8, <3>2, <3>3 DEF HistoryFound
  <2> QED  BY <2>1, <2>2
<1>10. scripts' \subseteq ChatNames \X (TreeNames \cup {"global"})
  <2>1. <<session.chat, Place(tree)>> \in ChatNames \X (TreeNames \cup {"global"})
        /\ <<minted, "global">> \in ChatNames \X (TreeNames \cup {"global"})
    BY <1>2 DEF Place
  <2> QED  BY <1>1, <1>2, <2>1 DEF Copied, AgyCopy
<1> HIDE DEF e, named
<1>20. Asks(e, c, want.persona, {named}, {}, tree, ro)
  BY <1>1, <1>2, <1>3, <1>5, <1>7, <1>8, <1>9, <1>10 DEF Asks
<1> QED  BY <1>20, AskedHolds

LEMMA NothingHolds ==
  ASSUME LaunchInv, UNCHANGED lcVars
  PROVE  LaunchInv'
<1>1. session' = session /\ want' = want /\ links' = links /\ scripts' = scripts
  BY DEF lcVars
<1>2. LaunchTypes'
  BY <1>1 DEF LaunchInv, LaunchTypes
<1>3. Settled'
  BY <1>1 DEF LaunchInv, Settled
<1>4. PersonaInherited' /\ OwnChatAndPrompt' /\ AccessAsRecorded' /\ BoundToOneTree' /\ HistoryFound'
  BY <1>1 DEF LaunchInv, CommandIsItsOwn, PersonaInherited, OwnChatAndPrompt, AccessAsRecorded, BoundToOneTree,
              HistoryFound, Place
<1> QED  BY <1>2, <1>3, <1>4 DEF LaunchInv, CommandIsItsOwn

LEMMA StepHolds ==
  ASSUME ~OddForms, LaunchInv, [LaunchNext]_lcVars
  PROVE  LaunchInv'
<1>1. ASSUME NEW e \in Engines, NEW model \in BOOLEAN, NEW role \in BOOLEAN, NEW prompt \in BOOLEAN, NEW ro \in BOOLEAN,
             SpawnBuilt(e, model, role, prompt, ro)
      PROVE  LaunchInv'
  BY <1>1, SpawnBuiltHolds
<1>2. ASSUME NEW e \in Engines, NEW cmd \in HandWritten(e), SpawnByHand(e, cmd) PROVE LaunchInv'
  BY <1>2, SpawnByHandHolds
<1>3. CASE AgentWritesScript
  BY <1>3, AgentWritesHolds
<1>4. CASE Rollover
  BY <1>4, RolloverHolds
<1>5. ASSUME NEW ro \in BOOLEAN, Fork(ro) PROVE LaunchInv'
  BY <1>5, ForkHolds
<1>6. ASSUME NEW ro \in BOOLEAN, Handover(ro) PROVE LaunchInv'
  BY <1>6, HandoverHolds
<1>7. ASSUME NEW n \in 0..MaxLinks, Resume(TreeName(n)) PROVE LaunchInv'
  BY <1>7, ResumeHolds
<1>8. CASE UNCHANGED lcVars
  BY <1>8, NothingHolds
<1> QED  BY <1>1, <1>2, <1>3, <1>4, <1>5, <1>6, <1>7, <1>8 DEF LaunchNext

\* However long a chain of forks, resumes, handovers and rollovers, the command at its end
\* gives the agent the persona of the chain and the chat, the prompt, the access, the
\* worktree and the history of its own operation (engines/*.py), for every engine and
\* for flags of any number in a command written by hand, if claude's and codex's have
\* no --flag=value.
THEOREM ChainCommandIsItsOwn ==
  ASSUME ~OddForms
  PROVE  LaunchSpec => []CommandIsItsOwn
<1>1. LaunchInit => LaunchInv
  BY InitHolds
<1>2. LaunchInv /\ [LaunchNext]_lcVars => LaunchInv'
  BY StepHolds
<1>3. LaunchInv => CommandIsItsOwn
  BY DEF LaunchInv
<1> QED  BY <1>1, <1>2, <1>3, PTL DEF LaunchSpec

\* The session, the transcripts and the tokens of a command are of their types.
THEOREM ChainTypes ==
  ASSUME ~OddForms
  PROVE  LaunchSpec => []LaunchTypeOK
<1>1. LaunchInit => LaunchInv
  BY InitHolds
<1>2. LaunchInv /\ [LaunchNext]_lcVars => LaunchInv'
  BY StepHolds
<1> QED  BY <1>1, <1>2, TypesAreInvariant, PTL DEF LaunchSpec

----------------------------------------------------------------------------
(***************************************************************************)
(* WorkspaceGrants, where one launch at a time is between its read and its  *)
(* write of a shared file, and none dies writing.                           *)
(***************************************************************************)

GrantEnvs == {None} \cup ((SUBSET Skills) \ {{}})
PrepareSteps == {"rules", "link", "exclude", "hide", "write", "trust", "save", "start"}
GrantLaunch == [pc: {"idle"} \cup PrepareSteps, engine: {"claude", "agy"}, fresh: BOOLEAN,
                grant: SUBSET Skills, todo: SUBSET Skills, env: GrantEnvs,
                line: {None, "skills", "agents"}, saw: SUBSET (Lines \cup Checkouts), calm: BOOLEAN]
GrantRun == [engine: {None, "claude", "agy"}, grant: SUBSET Skills, env: GrantEnvs]

GrantTypes ==
    /\ rolefile \in [RoleNames \X Layers -> (SUBSET Skills) \cup {None}]
    /\ \A n \in RoleNames : rolefile[<<n, "shipped">>] \in SUBSET Skills
    /\ store \in [Skills -> {"shipped", "user", "gone"}]
    /\ linked \in [Checkouts -> [Skills -> {None, "shipped", "user"}]]
    /\ exclude \subseteq Lines /\ rules \subseteq Checkouts /\ trusted \subseteq Checkouts
    /\ launch \in [Checkouts -> GrantLaunch] /\ running \in [Checkouts -> GrantRun]

\* Nobody else edits a shared file, and who is about to write saw what is in it.
SoleEditor ==
    /\ \A t, u \in Checkouts : launch[t].pc \in {"hide", "write"} /\ launch[u].pc \in {"hide", "write"} => t = u
    /\ \A t, u \in Checkouts : launch[t].pc = "save" /\ launch[u].pc = "save" => t = u
    /\ \A t \in Checkouts : /\ launch[t].pc = "hide" => launch[t].saw = exclude
                            /\ launch[t].pc = "save" => launch[t].saw = trusted

\* The line is in the file, or is about to be in it again.
Survives(x) ==
    /\ Writing \/ x \in exclude
    /\ \A t \in Checkouts : launch[t].pc = "write" => x \in launch[t].saw

\* Of a launch: where it stands, and which lines it has been seen to be there.
StepFits(l) ==
    /\ l.todo \subseteq l.grant /\ (l.pc = "rules" => l.todo = l.grant)
    /\ l.pc \in {"exclude", "hide", "write"} =>
         \/ l.line = "skills" /\ l.grant # {}
         \/ l.line = "agents" /\ l.engine = "agy"
    /\ l.pc \in {"hide", "write"} => l.saw \subseteq Lines
    /\ l.pc \in {"trust", "save"} => l.engine = "agy"
    /\ l.pc \notin {"idle", "rules", "link"} => l.todo = {}
Through(l) == l.pc \in {"trust", "save", "start"}
HasSkillsLine(l) ==
    l.grant # {} /\ (Through(l) \/ (l.pc \in {"exclude", "hide", "write"} /\ l.line = "agents"))
HasAgentsLine(l) == l.engine = "agy" /\ Through(l)

LaunchSound ==
    /\ \A t \in Checkouts : StepFits(launch[t])
    /\ \A t \in Checkouts : HasSkillsLine(launch[t]) => Survives("skills")
    /\ \A t \in Checkouts : HasAgentsLine(launch[t]) => Survives("agents")
    /\ \A t \in Checkouts : launch[t].pc \in PrepareSteps \ {"rules"} /\ launch[t].engine = "agy" => t \in rules
    /\ \A t \in Checkouts : launch[t].pc = "start" /\ launch[t].engine = "agy" => t \in trusted
    /\ \A t \in Checkouts : launch[t].pc # "idle" /\ launch[t].fresh => running[t] = NoRun

RunSound ==
    /\ Survives("mine")
    /\ \A t \in Checkouts : running[t] = NoRun \/ running[t].engine \in {"claude", "agy"}
    /\ \A t \in Checkouts : running[t].grant # {} => Survives("skills")
    /\ \A t \in Checkouts : running[t].engine = "agy" => Survives("agents") /\ t \in trusted /\ t \in rules

\* Every link of a grant that is through points to where its skill is.
LinksSound ==
    \A t \in Checkouts : launch[t].pc \in PrepareSteps \ {"rules"} /\ launch[t].calm =>
      \A k \in launch[t].grant \ launch[t].todo : linked[t][k] = store[k]

GrantInv == GrantTypes /\ SoleEditor /\ LaunchSound /\ RunSound /\ LinksSound

----------------------------------------------------------------------------
LEMMA GrantFacts ==
  /\ NoLaunch \in GrantLaunch /\ NoLaunch.pc = "idle" /\ StepFits(NoLaunch)
  /\ NoRun \in GrantRun /\ NoRun.engine = None /\ NoRun.grant = {}
  /\ None \notin {"claude", "agy"}
BY GrantAssumption DEF NoLaunch, NoRun, GrantLaunch, GrantRun, GrantEnvs, StepFits

LEMMA InitGrantInv == GrantInit => GrantInv
<1> SUFFICES ASSUME GrantInit PROVE GrantInv
  OBVIOUS
<1>1. /\ launch \in [Checkouts -> GrantLaunch] /\ running \in [Checkouts -> GrantRun]
      /\ \A t \in Checkouts : launch[t] = NoLaunch /\ running[t] = NoRun
  BY GrantFacts DEF GrantInit
<1>2. PICK common \in Skills, own \in Skills : rolefile = [f \in RoleNames \X Layers |->
           CASE f = <<"COMMON", "shipped">> -> {common} [] f = <<"R", "shipped">> -> {own} [] OTHER -> None]
  BY DEF GrantInit
<1>3. /\ rolefile \in [RoleNames \X Layers -> (SUBSET Skills) \cup {None}]
      /\ \A n \in RoleNames : rolefile[<<n, "shipped">>] \in SUBSET Skills
  <2>1. \A f \in RoleNames \X Layers :
          (CASE f = <<"COMMON", "shipped">> -> {common} [] f = <<"R", "shipped">> -> {own} [] OTHER -> None)
            \in (SUBSET Skills) \cup {None}
    OBVIOUS
  <2>2. rolefile \in [RoleNames \X Layers -> (SUBSET Skills) \cup {None}]
    BY <1>2, <2>1
  <2>3. <<"COMMON", "shipped">> \in RoleNames \X Layers /\ <<"R", "shipped">> \in RoleNames \X Layers
    BY DEF RoleNames, Layers
  <2>4. rolefile[<<"COMMON", "shipped">>] = {common} /\ rolefile[<<"R", "shipped">>] = {own}
    BY <1>2, <2>3
  <2> QED  BY <2>2, <2>4 DEF RoleNames
<1>4. GrantTypes
  BY <1>1, <1>3 DEF GrantTypes, GrantInit, Lines
<1>5. \A x : Survives(x) <=> x \in exclude
  BY <1>1, GrantFacts DEF Survives, Writing
<1>6. Survives("mine")
  BY <1>5 DEF GrantInit
<1> QED
  BY <1>1, <1>4, <1>5, <1>6, GrantFacts
  DEF GrantInv, SoleEditor, LaunchSound, RunSound, LinksSound, PrepareSteps, Through, HasSkillsLine, HasAgentsLine

(* What is granted is a set of skills.                                      *)
LEMMA GrantedType ==
  ASSUME GrantTypes, NEW names \in SUBSET RoleNames
  PROVE  Granted(names) \in SUBSET Skills
<1>1. names \cup {"COMMON"} \subseteq RoleNames
  BY DEF RoleNames
<1>2. ASSUME NEW n \in RoleNames PROVE \A f \in RoleFiles(n) : rolefile[f] \in SUBSET Skills
  <2>1. /\ <<n, "user">> \in RoleNames \X Layers /\ <<n, "local">> \in RoleNames \X Layers
    BY DEF Layers
  <2> QED  BY <1>2, <2>1 DEF RoleFiles, GrantTypes
<1>3. \A f \in UNION {RoleFiles(n) : n \in names \cup {"COMMON"}} : rolefile[f] \in SUBSET Skills
  BY <1>1, <1>2
<1> QED  BY <1>3 DEF Granted

(* A step of the launch in t that leaves the exclude file alone, from l to  *)
(* what it is then.                                                         *)
LEMMA ExcludeKept ==
  ASSUME GrantInv, exclude' = exclude, NEW t \in Checkouts, NEW l \in GrantLaunch,
         launch' = [launch EXCEPT ![t] = l], launch[t].pc # "write", l.pc # "write"
  PROVE  \A x : Survives(x) => Survives(x)'
<1>1. \A u \in Checkouts : launch'[u] = IF u = t THEN l ELSE launch[u]
  BY DEF GrantInv, GrantTypes
<1> QED  BY <1>1 DEF Survives, Writing

LEMMA StartsInv ==
  ASSUME GrantInv, NEW t \in Checkouts, NEW engine \in {"claude", "agy"}, NEW env \in GrantEnvs,
         NEW fresh \in BOOLEAN, fresh => running[t] = NoRun, Starts(t, engine, env, fresh)
  PROVE  GrantInv'
<1> DEFINE l == launch'[t]
<1>1. Materialised(env) \in SUBSET Skills
  BY GrantedType DEF GrantInv, Materialised, GrantEnvs
<1>2. launch' = [launch EXCEPT ![t] = l]
  BY DEF Starts, GrantInv, GrantTypes
<1>3. /\ l \in GrantLaunch /\ l.pc = (IF engine = "agy" THEN "rules" ELSE "link") /\ l.engine = engine
      /\ l.grant = Materialised(env) /\ l.todo = Materialised(env) /\ l.fresh = fresh
  <2>1. l = [pc |-> IF engine = "agy" THEN "rules" ELSE "link", engine |-> engine, fresh |-> fresh,
             grant |-> Materialised(env), todo |-> Materialised(env), env |-> env, line |-> None,
             saw |-> {}, calm |-> TRUE]
    BY DEF Starts, GrantInv, GrantTypes, NoLaunch
  <2> HIDE DEF l
  <2> QED  BY <1>1, <2>1 DEF GrantLaunch, PrepareSteps
<1> HIDE DEF l
<1>4. \A u \in Checkouts : launch'[u] = IF u = t THEN l ELSE launch[u]
  BY <1>2 DEF GrantInv, GrantTypes
<1>5. UNCHANGED <<rolefile, store, linked, rules, exclude, trusted, running>> /\ launch[t].pc = "idle"
  BY DEF Starts
<1>6. \A x : Survives(x) => Survives(x)'
  BY <1>2, <1>3, <1>5, ExcludeKept
<1>7. GrantTypes'
  BY <1>2, <1>3, <1>5 DEF GrantInv, GrantTypes
<1>8. SoleEditor'
  BY <1>3, <1>4, <1>5 DEF GrantInv, SoleEditor
<1>9. LaunchSound'
  BY <1>3, <1>4, <1>5, <1>6 DEF GrantInv, LaunchSound, StepFits, Through, HasSkillsLine, HasAgentsLine, PrepareSteps
<1>10. RunSound'
  BY <1>5, <1>6 DEF GrantInv, RunSound
<1>11. LinksSound'
  BY <1>3, <1>4, <1>5 DEF GrantInv, LinksSound, PrepareSteps
<1> QED  BY <1>7, <1>8, <1>9, <1>10, <1>11 DEF GrantInv

LEMMA SpawnsInv ==
  ASSUME GrantInv, NEW t \in Checkouts, NEW engine \in {"claude", "agy"}, NEW names \in SUBSET RoleNames,
         SpawnIn(t, engine, names) \/ SpawnByCommand(t, engine) \/ LaunchAgain(t)
  PROVE  GrantInv'
<1>1. CASE SpawnIn(t, engine, names)
  <2> DEFINE env == IF Granted(names) = {} THEN None ELSE Granted(names)
  <2>1. env \in GrantEnvs
    BY GrantedType DEF GrantInv, GrantEnvs
  <2> HIDE DEF env
  <2>2. Starts(t, engine, env, TRUE) /\ running[t] = NoRun
    BY <1>1 DEF SpawnIn, env
  <2> QED  BY <2>1, <2>2, StartsInv
<1>2. CASE SpawnByCommand(t, engine)
  <2>1. Starts(t, engine, None, TRUE) /\ running[t] = NoRun /\ None \in GrantEnvs
    BY <1>2 DEF SpawnByCommand, GrantEnvs
  <2> QED  BY <2>1, StartsInv
<1>3. CASE LaunchAgain(t)
  <2>1. running[t] \in GrantRun /\ running[t] # NoRun /\ Starts(t, running[t].engine, running[t].env, FALSE)
    BY <1>3 DEF LaunchAgain, GrantInv, GrantTypes
  <2>2. running[t].engine \in {None, "claude", "agy"} /\ running[t].env \in GrantEnvs
    BY <2>1 DEF GrantRun
  <2>3. CASE running[t].engine \in {"claude", "agy"}
    BY <2>1, <2>2, <2>3, StartsInv
  <2>4. CASE running[t].engine = None
    BY <2>1, <2>4, GrantFacts DEF GrantInv, RunSound
  <2> QED  BY <2>2, <2>3, <2>4
<1> QED  BY <1>1, <1>2, <1>3

LEMMA UserInv ==
  ASSUME GrantInv,
         \/ \E name \in RoleNames, layer \in Layers, skills \in (SUBSET Skills) \cup {None} :
              EditRole(name, layer, skills)
         \/ \E k \in Skills, where \in {"shipped", "user", "gone"} : MoveSkill(k, where)
  PROVE  GrantInv'
<1>1. CASE \E name \in RoleNames, layer \in Layers, skills \in (SUBSET Skills) \cup {None} :
              EditRole(name, layer, skills)
  <2>1. PICK name \in RoleNames, layer \in Layers, skills \in (SUBSET Skills) \cup {None} :
              EditRole(name, layer, skills)
    BY <1>1
  <2>2. UNCHANGED <<store, linked, rules, exclude, trusted, launch, running>>
    BY <2>1 DEF EditRole
  <2>3. GrantTypes'
    <3>1. rolefile' = [rolefile EXCEPT ![<<name, layer>>] = skills] /\ layer # "shipped"
      BY <2>1 DEF EditRole
    <3>2. \A n \in RoleNames : <<n, "shipped">> \in RoleNames \X Layers /\ <<n, "shipped">> # <<name, layer>>
      BY <3>1 DEF Layers
    <3> QED  BY <2>2, <3>1, <3>2 DEF GrantInv, GrantTypes
  <2>4. \A x : Survives(x) => Survives(x)'
    BY <2>2 DEF Survives, Writing
  <2> QED
    BY <2>2, <2>3, <2>4 DEF GrantInv, SoleEditor, LaunchSound, RunSound, LinksSound
<1>2. CASE \E k \in Skills, where \in {"shipped", "user", "gone"} : MoveSkill(k, where)
  <2>1. PICK k \in Skills, where \in {"shipped", "user", "gone"} : MoveSkill(k, where)
    BY <1>2
  <2>2. /\ UNCHANGED <<rolefile, linked, rules, exclude, trusted, running>>
        /\ store' = [store EXCEPT ![k] = where]
        /\ launch' = [t \in Checkouts |-> [launch[t] EXCEPT !.calm = launch[t].pc = "idle"]]
    BY <2>1 DEF MoveSkill
  <2>3. \A t \in Checkouts :
          /\ launch'[t] \in GrantLaunch /\ (launch'[t].calm => launch[t].pc = "idle")
          /\ launch'[t].pc = launch[t].pc /\ launch'[t].engine = launch[t].engine
          /\ launch'[t].fresh = launch[t].fresh /\ launch'[t].grant = launch[t].grant
          /\ launch'[t].todo = launch[t].todo /\ launch'[t].line = launch[t].line
          /\ launch'[t].saw = launch[t].saw
    <3> TAKE t \in Checkouts
    <3>1. \E idle \in BOOLEAN : idle <=> launch[t].pc = "idle"
      <4>1. CASE launch[t].pc = "idle"
        BY <4>1
      <4>2. CASE launch[t].pc # "idle"
        BY <4>2
      <4> QED  BY <4>1, <4>2
    <3> PICK idle \in BOOLEAN : idle <=> launch[t].pc = "idle"
      BY <3>1
    <3>2. launch'[t] = [launch[t] EXCEPT !.calm = idle]
      <4>1. launch'[t] = [launch[t] EXCEPT !.calm = launch[t].pc = "idle"]
        BY <2>2, Zenon
      <4>2. (launch[t].pc = "idle") = idle
        <5>1. CASE idle
          BY <5>1
        <5>2. CASE ~idle
          BY <5>2
        <5> QED  BY <5>1, <5>2
      <4> QED  BY <4>1, <4>2, Zenon
    <3>3. launch[t] \in GrantLaunch
      BY DEF GrantInv, GrantTypes
    <3>4. /\ launch'[t] \in GrantLaunch /\ launch'[t].calm = idle
          /\ launch'[t].pc = launch[t].pc /\ launch'[t].engine = launch[t].engine
          /\ launch'[t].fresh = launch[t].fresh /\ launch'[t].grant = launch[t].grant
          /\ launch'[t].todo = launch[t].todo /\ launch'[t].line = launch[t].line
          /\ launch'[t].saw = launch[t].saw
      BY <3>2, <3>3 DEF GrantLaunch
    <3> QED  BY <3>4
  <2>4. GrantTypes'
    BY <2>2, <2>3 DEF GrantInv, GrantTypes
  <2>5. \A x : Survives(x) => Survives(x)'
    <3>1. exclude' = exclude
      BY <2>2
    <3>2. Writing <=> Writing'
      BY <2>3 DEF Writing
    <3> QED  BY <2>3, <3>1, <3>2 DEF Survives
  <2>10. UNCHANGED <<exclude, trusted, rules, running>>
    BY <2>2
  <2>6. SoleEditor' /\ RunSound'
    BY <2>3, <2>5, <2>10 DEF GrantInv, SoleEditor, RunSound
  <2>7. LaunchSound'
    BY <2>3, <2>5, <2>10 DEF GrantInv, LaunchSound, StepFits, Through, HasSkillsLine, HasAgentsLine
  <2>8. LinksSound'
    BY <2>3 DEF LinksSound, PrepareSteps
  <2> QED  BY <2>4, <2>6, <2>7, <2>8 DEF GrantInv
<1> QED  BY <1>1, <1>2

(* A step that changes nothing but how far the launch in t is, and stays    *)
(* clear of the writing of the shared files.                                *)
LEMMA StepInv ==
  ASSUME GrantInv, NEW t \in Checkouts, NEW l \in GrantLaunch, launch' = [launch EXCEPT ![t] = l],
         UNCHANGED <<rolefile, store, exclude, running>>,
         trusted' = trusted \/ (launch[t].pc = "save" /\ trusted' = WithTrust(t)),
         rules' \subseteq Checkouts, \A u \in Checkouts \ {t} : u \in rules => u \in rules',
         running[t].engine = "agy" => t \in rules',
         linked' \in [Checkouts -> [Skills -> {None, "shipped", "user"}]],
         \A u \in Checkouts \ {t} : linked'[u] = linked[u],
         launch[t].pc # "write", l.pc # "write",
         l.pc = "hide" => l.saw = exclude /\ \A u \in Checkouts : launch[u].pc \notin {"hide", "write"},
         l.pc = "save" => l.saw = trusted /\ trusted' = trusted /\ \A u \in Checkouts : launch[u].pc # "save",
         StepFits(l), HasSkillsLine(l) => Survives("skills"), HasAgentsLine(l) => Survives("agents"),
         l.pc \in PrepareSteps \ {"rules"} /\ l.engine = "agy" => t \in rules',
         l.pc = "start" /\ l.engine = "agy" => t \in trusted',
         l.pc # "idle" /\ l.fresh => running[t] = NoRun,
         l.pc \in PrepareSteps \ {"rules"} /\ l.calm => \A k \in l.grant \ l.todo : linked'[t][k] = store[k]
  PROVE  GrantInv'
<1>1. \A u \in Checkouts : launch'[u] = IF u = t THEN l ELSE launch[u]
  BY DEF GrantInv, GrantTypes
<1>2. \A x : Survives(x) => Survives(x)'
  BY ExcludeKept
<1>3. trusted \subseteq trusted' /\ trusted' \subseteq Checkouts
  BY DEF GrantInv, GrantTypes, SoleEditor, WithTrust
<1>4. GrantTypes'
  BY <1>3 DEF GrantInv, GrantTypes
<1>5. SoleEditor'
  <2>1. \A u \in Checkouts : launch'[u].pc = "save" => launch'[u].saw = trusted'
    BY <1>1 DEF GrantInv, SoleEditor
  <2> QED  BY <1>1, <2>1 DEF GrantInv, SoleEditor
<1>6. LaunchSound'
  BY <1>1, <1>2, <1>3 DEF GrantInv, LaunchSound
<1>7. RunSound'
  BY <1>2, <1>3 DEF GrantInv, RunSound
<1>8. LinksSound'
  BY <1>1 DEF GrantInv, LinksSound
<1> QED  BY <1>4, <1>5, <1>6, <1>7, <1>8 DEF GrantInv

(* What the invariant says of the launch in t.                              *)
LEMMA OfLaunch ==
  ASSUME GrantInv, NEW t \in Checkouts
  PROVE  /\ launch[t] \in GrantLaunch /\ StepFits(launch[t])
         /\ HasSkillsLine(launch[t]) => Survives("skills")
         /\ HasAgentsLine(launch[t]) => Survives("agents")
         /\ launch[t].pc \in PrepareSteps \ {"rules"} /\ launch[t].engine = "agy" => t \in rules
         /\ launch[t].pc # "idle" /\ launch[t].fresh => running[t] = NoRun
         /\ running[t].engine = "agy" => t \in rules
         /\ launch[t].pc \in PrepareSteps \ {"rules"} /\ launch[t].calm =>
              \A k \in launch[t].grant \ launch[t].todo : linked[t][k] = store[k]
         /\ rules \subseteq Checkouts /\ linked \in [Checkouts -> [Skills -> {None, "shipped", "user"}]]
BY DEF GrantInv, GrantTypes, LaunchSound, RunSound, LinksSound

LEMMA WriteRulesInv ==
  ASSUME GrantInv, NEW t \in Checkouts, WriteRules(t)
  PROVE  GrantInv'
<1> DEFINE l == [launch[t] EXCEPT !.pc = "link"]
<1>1. launch[t] \in GrantLaunch /\ StepFits(launch[t]) /\ launch[t].pc = "rules"
  BY OfLaunch DEF WriteRules
<1>2. /\ l \in GrantLaunch /\ l.pc = "link" /\ l.todo = launch[t].todo /\ l.grant = launch[t].grant
      /\ l.engine = launch[t].engine /\ l.fresh = launch[t].fresh /\ l.calm = launch[t].calm
  BY <1>1 DEF GrantLaunch, PrepareSteps
<1>3. launch' = [launch EXCEPT ![t] = l]
  BY DEF WriteRules, Steps
<1> HIDE DEF l
<1>4. StepFits(l) /\ ~HasSkillsLine(l) /\ ~HasAgentsLine(l)
  BY <1>1, <1>2 DEF StepFits, HasSkillsLine, HasAgentsLine, Through
<1>5. l.grant \ l.todo = {}
  <2>1. launch[t].todo = launch[t].grant
    BY <1>1 DEF StepFits
  <2> QED  BY <1>2, <2>1
<1> QED
  BY <1>1, <1>2, <1>3, <1>4, <1>5, OfLaunch, StepInv DEF WriteRules, PrepareSteps

LEMMA LinkSkillInv ==
  ASSUME GrantInv, NEW t \in Checkouts, NEW k \in Skills, LinkSkill(t, k)
  PROVE  GrantInv'
<1>1. /\ launch[t] \in GrantLaunch /\ StepFits(launch[t]) /\ launch[t].pc = "link" /\ k \in launch[t].todo
      /\ UNCHANGED <<rolefile, store, exclude, trusted, running>>
  BY OfLaunch DEF LinkSkill
<1>2. CASE store[k] = "gone"
  <2>1. /\ launch' = [launch EXCEPT ![t] = NoLaunch]
        /\ linked' = IF launch[t].fresh THEN [linked EXCEPT ![t] = [j \in Skills |-> None]] ELSE linked
        /\ rules' = IF launch[t].fresh THEN rules \ {t} ELSE rules
    BY <1>2 DEF LinkSkill
  <2>2. launch[t].fresh => running[t].engine # "agy"
    BY <1>1, OfLaunch, GrantFacts
  <2>3. linked' \in [Checkouts -> [Skills -> {None, "shipped", "user"}]] /\ \A u \in Checkouts \ {t} : linked'[u] = linked[u]
    BY <2>1, OfLaunch
  <2>4. ~HasSkillsLine(NoLaunch) /\ ~HasAgentsLine(NoLaunch)
    BY GrantFacts DEF HasSkillsLine, HasAgentsLine, Through
  <2> QED
    BY <1>1, <2>1, <2>2, <2>3, <2>4, OfLaunch, GrantFacts, StepInv DEF PrepareSteps
<1>3. CASE store[k] # "gone"
  <2> DEFINE l == [launch[t] EXCEPT !.todo = @ \ {k}]
  <2>1. /\ launch' = [launch EXCEPT ![t] = l]
        /\ linked' = IF IsCurrent(t, k) THEN linked ELSE [linked EXCEPT ![t][k] = store[k]]
        /\ rules' = rules
    BY <1>3 DEF LinkSkill
  <2>2. /\ l \in GrantLaunch /\ l.pc = "link" /\ l.todo = launch[t].todo \ {k} /\ l.grant = launch[t].grant
        /\ l.engine = launch[t].engine /\ l.fresh = launch[t].fresh /\ l.calm = launch[t].calm
    BY <1>1 DEF GrantLaunch
  <2> HIDE DEF l
  <2>3. store[k] \in {"shipped", "user"}
    BY <1>3 DEF GrantInv, GrantTypes
  <2>4. /\ linked' \in [Checkouts -> [Skills -> {None, "shipped", "user"}]]
        /\ \A u \in Checkouts \ {t} : linked'[u] = linked[u]
        /\ linked'[t][k] = store[k] /\ \A j \in Skills \ {k} : linked'[t][j] = linked[t][j]
    BY <2>1, <2>3, OfLaunch DEF IsCurrent
  <2>5. StepFits(l) /\ ~HasSkillsLine(l) /\ ~HasAgentsLine(l)
    BY <1>1, <2>2 DEF StepFits, HasSkillsLine, HasAgentsLine, Through
  <2>6. launch[t].calm => \A j \in l.grant \ l.todo : linked'[t][j] = store[j]
    <3>1. launch[t].grant \subseteq Skills
      BY <1>1 DEF GrantLaunch
    <3>2. launch[t].calm => \A j \in launch[t].grant \ launch[t].todo : linked[t][j] = store[j]
      BY <1>1, OfLaunch DEF PrepareSteps
    <3> QED  BY <2>2, <2>4, <3>1, <3>2
  <2>7. launch[t].engine = "agy" => t \in rules
    BY <1>1, OfLaunch DEF PrepareSteps
  <2> QED
    BY <1>1, <2>1, <2>2, <2>4, <2>5, <2>6, <2>7, OfLaunch, StepInv
<1> QED  BY <1>2, <1>3

(* A step that links nothing, of a launch past the rules that takes it from *)
(* one stage to another.                                                    *)
LEMMA StageInv ==
  ASSUME GrantInv, NEW t \in Checkouts, NEW l \in GrantLaunch, launch' = [launch EXCEPT ![t] = l],
         launch[t].pc \in PrepareSteps \ {"rules", "write"}, l.pc \in PrepareSteps \ {"rules", "link", "write"},
         UNCHANGED <<rolefile, store, exclude, running, rules, linked>>,
         trusted' = trusted \/ (launch[t].pc = "save" /\ trusted' = WithTrust(t)),
         l.todo = launch[t].todo, l.grant = launch[t].grant, l.engine = launch[t].engine,
         l.fresh = launch[t].fresh, l.calm = launch[t].calm,
         l.pc = "hide" => l.saw = exclude /\ \A u \in Checkouts : launch[u].pc \notin {"hide", "write"},
         l.pc = "save" => l.saw = trusted /\ trusted' = trusted /\ \A u \in Checkouts : launch[u].pc # "save",
         StepFits(l), HasSkillsLine(l) => Survives("skills"), HasAgentsLine(l) => Survives("agents"),
         l.pc = "start" /\ l.engine = "agy" => t \in trusted'
  PROVE  GrantInv'
<1>1. launch[t].engine = "agy" => t \in rules
  BY OfLaunch
<1>2. launch[t].fresh => running[t] = NoRun
  BY OfLaunch DEF PrepareSteps
<1>3. launch[t].calm => \A k \in launch[t].grant \ launch[t].todo : linked[t][k] = store[k]
  BY OfLaunch
<1> QED  BY <1>1, <1>2, <1>3, OfLaunch, StepInv DEF PrepareSteps

LEMMA AfterLinksInv ==
  ASSUME GrantInv, NEW t \in Checkouts, AfterLinks(t)
  PROVE  GrantInv'
<1> DEFINE l == [launch[t] EXCEPT
         !.pc = IF launch[t].grant # {} \/ launch[t].engine = "agy" THEN "exclude" ELSE "start",
         !.line = IF launch[t].grant # {} THEN "skills" ELSE "agents"]
<1>1. /\ launch[t] \in GrantLaunch /\ StepFits(launch[t]) /\ launch[t].pc = "link" /\ launch[t].todo = {}
      /\ UNCHANGED <<rolefile, store, exclude, trusted, running, rules, linked>>
  BY OfLaunch DEF AfterLinks
<1>2. /\ l \in GrantLaunch
      /\ l.pc = (IF launch[t].grant # {} \/ launch[t].engine = "agy" THEN "exclude" ELSE "start")
      /\ l.line = (IF launch[t].grant # {} THEN "skills" ELSE "agents")
      /\ l.todo = launch[t].todo /\ l.grant = launch[t].grant
      /\ l.engine = launch[t].engine /\ l.fresh = launch[t].fresh /\ l.calm = launch[t].calm
  BY <1>1 DEF GrantLaunch, PrepareSteps
<1>3. launch' = [launch EXCEPT ![t] = l]
  <2>1. launch' = [launch EXCEPT
         ![t].pc = IF launch[t].grant # {} \/ launch[t].engine = "agy" THEN "exclude" ELSE "start",
         ![t].line = IF launch[t].grant # {} THEN "skills" ELSE "agents"]
    BY DEF AfterLinks
  <2> QED  BY <2>1 DEF GrantInv, GrantTypes
<1> HIDE DEF l
<1>4. StepFits(l) /\ ~HasSkillsLine(l) /\ ~HasAgentsLine(l)
  BY <1>1, <1>2 DEF StepFits, HasSkillsLine, HasAgentsLine, Through
<1>5. l.pc = "start" => l.engine # "agy"
  BY <1>2
<1> QED
  BY <1>1, <1>2, <1>3, <1>4, <1>5, StageInv DEF PrepareSteps

LEMMA AfterExcludeFacts ==
  ASSUME NEW t \in Checkouts, launch[t] \in GrantLaunch, StepFits(launch[t]),
         launch[t].pc \in {"exclude", "hide", "write"}
  PROVE  /\ AfterExclude(t) \in GrantLaunch /\ StepFits(AfterExclude(t))
         /\ AfterExclude(t).pc \in {"start", "exclude", "trust"}
         /\ AfterExclude(t).pc = "start" => launch[t].engine # "agy"
         /\ AfterExclude(t).todo = launch[t].todo /\ AfterExclude(t).grant = launch[t].grant
         /\ AfterExclude(t).engine = launch[t].engine /\ AfterExclude(t).fresh = launch[t].fresh
         /\ AfterExclude(t).calm = launch[t].calm
         /\ HasSkillsLine(AfterExclude(t)) => launch[t].line = "skills" \/ HasSkillsLine(launch[t])
         /\ HasAgentsLine(AfterExclude(t)) => launch[t].line = "agents"
<1>1. launch[t].engine \in {"claude", "agy"} /\ launch[t].todo = {}
  BY DEF GrantLaunch, StepFits
<1>2. CASE launch[t].engine = "claude"
  <2>1. AfterExclude(t) = [launch[t] EXCEPT !.saw = {}, !.line = None, !.pc = "start"]
    BY <1>2 DEF AfterExclude
  <2>2. /\ AfterExclude(t) \in GrantLaunch /\ AfterExclude(t).pc = "start"
        /\ AfterExclude(t).todo = launch[t].todo /\ AfterExclude(t).grant = launch[t].grant
        /\ AfterExclude(t).engine = launch[t].engine /\ AfterExclude(t).fresh = launch[t].fresh
        /\ AfterExclude(t).calm = launch[t].calm
    BY <2>1 DEF GrantLaunch, PrepareSteps
  <2>3. launch[t].line = "skills"
    BY <1>2 DEF StepFits
  <2> QED  BY <1>1, <1>2, <2>2, <2>3 DEF StepFits, HasSkillsLine, HasAgentsLine, Through
<1>3. CASE launch[t].engine = "agy" /\ launch[t].line = "skills"
  <2>1. AfterExclude(t) = [launch[t] EXCEPT !.saw = {}, !.line = "agents", !.pc = "exclude"]
    BY <1>3 DEF AfterExclude
  <2>2. /\ AfterExclude(t) \in GrantLaunch /\ AfterExclude(t).pc = "exclude" /\ AfterExclude(t).line = "agents"
        /\ AfterExclude(t).todo = launch[t].todo /\ AfterExclude(t).grant = launch[t].grant
        /\ AfterExclude(t).engine = launch[t].engine /\ AfterExclude(t).fresh = launch[t].fresh
        /\ AfterExclude(t).calm = launch[t].calm
    BY <2>1 DEF GrantLaunch, PrepareSteps
  <2> QED  BY <1>1, <1>3, <2>2 DEF StepFits, HasSkillsLine, HasAgentsLine, Through
<1>4. CASE launch[t].engine = "agy" /\ launch[t].line # "skills"
  <2>1. AfterExclude(t) = [launch[t] EXCEPT !.saw = {}, !.line = None, !.pc = "trust"]
    BY <1>4 DEF AfterExclude
  <2>2. /\ AfterExclude(t) \in GrantLaunch /\ AfterExclude(t).pc = "trust"
        /\ AfterExclude(t).todo = launch[t].todo /\ AfterExclude(t).grant = launch[t].grant
        /\ AfterExclude(t).engine = launch[t].engine /\ AfterExclude(t).fresh = launch[t].fresh
        /\ AfterExclude(t).calm = launch[t].calm
    BY <2>1 DEF GrantLaunch, PrepareSteps
  <2>3. launch[t].line = "agents"
    BY <1>4 DEF StepFits
  <2> QED  BY <1>1, <1>4, <2>2, <2>3 DEF StepFits, HasSkillsLine, HasAgentsLine, Through
<1> QED  BY <1>1, <1>2, <1>3, <1>4

LEMMA ReadExcludeInv ==
  ASSUME OneAtATime, GrantInv, NEW t \in Checkouts, ReadExclude(t)
  PROVE  GrantInv'
<1>1. /\ launch[t] \in GrantLaunch /\ StepFits(launch[t]) /\ launch[t].pc = "exclude"
      /\ UNCHANGED <<rolefile, store, exclude, trusted, running, rules, linked>>
      /\ \A u \in Checkouts : launch[u].pc \notin {"hide", "write"}
  BY OfLaunch DEF ReadExclude, NobodyIn
<1>2. CASE launch[t].line \in exclude
  <2>1. launch' = [launch EXCEPT ![t] = AfterExclude(t)]
    BY <1>2 DEF ReadExclude
  <2>2. Survives(launch[t].line)
    BY <1>1, <1>2 DEF Survives
  <2>3. /\ HasSkillsLine(AfterExclude(t)) => Survives("skills")
        /\ HasAgentsLine(AfterExclude(t)) => Survives("agents")
    BY <1>1, <2>2, OfLaunch, AfterExcludeFacts
  <2>4. AfterExclude(t).pc = "start" => AfterExclude(t).engine # "agy"
    BY <1>1, AfterExcludeFacts
  <2> QED  BY <1>1, <2>1, <2>3, <2>4, StageInv, AfterExcludeFacts DEF PrepareSteps
<1>3. CASE launch[t].line \notin exclude
  <2> DEFINE l == [launch[t] EXCEPT !.pc = "hide", !.saw = exclude]
  <2>1. launch' = [launch EXCEPT ![t] = l]
    BY <1>3 DEF ReadExclude
  <2>2. exclude \subseteq Lines
    BY DEF GrantInv, GrantTypes
  <2>3. /\ l \in GrantLaunch /\ l.pc = "hide" /\ l.saw = exclude /\ l.line = launch[t].line
        /\ l.todo = launch[t].todo /\ l.grant = launch[t].grant
        /\ l.engine = launch[t].engine /\ l.fresh = launch[t].fresh /\ l.calm = launch[t].calm
    BY <1>1, <2>2 DEF GrantLaunch, PrepareSteps
  <2> HIDE DEF l
  <2>4. StepFits(l) /\ (HasSkillsLine(l) => HasSkillsLine(launch[t])) /\ ~HasAgentsLine(l)
    BY <1>1, <2>2, <2>3 DEF StepFits, HasSkillsLine, HasAgentsLine, Through
  <2> QED  BY <1>1, <2>1, <2>3, <2>4, StageInv, OfLaunch DEF PrepareSteps
<1> QED  BY <1>2, <1>3

(* The writer of the exclude file: from l to what it is then.               *)
LEMMA TruncateExcludeInv ==
  ASSUME GrantInv, NEW t \in Checkouts, TruncateExclude(t)
  PROVE  GrantInv'
<1> DEFINE l == [launch[t] EXCEPT !.pc = "write"]
<1>1. /\ launch[t] \in GrantLaunch /\ StepFits(launch[t]) /\ launch[t].pc = "hide" /\ exclude' = {}
      /\ UNCHANGED <<rolefile, store, trusted, running, rules, linked>>
  BY OfLaunch DEF TruncateExclude
<1>2. /\ l \in GrantLaunch /\ l.pc = "write" /\ l.saw = launch[t].saw /\ l.line = launch[t].line
      /\ l.todo = launch[t].todo /\ l.grant = launch[t].grant
      /\ l.engine = launch[t].engine /\ l.fresh = launch[t].fresh /\ l.calm = launch[t].calm
  BY <1>1 DEF GrantLaunch, PrepareSteps
<1>3. launch' = [launch EXCEPT ![t] = l]
  BY DEF TruncateExclude, Steps
<1> HIDE DEF l
<1>4. \A u \in Checkouts : launch'[u] = IF u = t THEN l ELSE launch[u]
  BY <1>3 DEF GrantInv, GrantTypes
<1>5. launch[t].saw = exclude /\ \A u \in Checkouts \ {t} : launch[u].pc \notin {"hide", "write"}
  BY <1>1 DEF GrantInv, SoleEditor
<1>6. \A x : Survives(x) => Survives(x)'
  BY <1>1, <1>2, <1>4, <1>5 DEF Survives, Writing
<1>7. StepFits(l) /\ (HasSkillsLine(l) => HasSkillsLine(launch[t])) /\ ~HasAgentsLine(l)
  BY <1>1, <1>2 DEF StepFits, HasSkillsLine, HasAgentsLine, Through
<1>8. GrantTypes'
  BY <1>1, <1>2, <1>3 DEF GrantInv, GrantTypes
<1>9. SoleEditor'
  BY <1>1, <1>2, <1>4, <1>5 DEF GrantInv, SoleEditor
<1>10. LaunchSound'
  BY <1>1, <1>2, <1>4, <1>6, <1>7 DEF GrantInv, LaunchSound, PrepareSteps
<1>11. RunSound'
  BY <1>1, <1>6 DEF GrantInv, RunSound
<1>12. LinksSound'
  BY <1>1, <1>2, <1>4 DEF GrantInv, LinksSound, PrepareSteps
<1> QED  BY <1>8, <1>9, <1>10, <1>11, <1>12 DEF GrantInv

LEMMA WriteExcludeInv ==
  ASSUME GrantInv, NEW t \in Checkouts, WriteExclude(t)
  PROVE  GrantInv'
<1> DEFINE l == AfterExclude(t)
<1>1. /\ launch[t] \in GrantLaunch /\ StepFits(launch[t]) /\ launch[t].pc = "write"
      /\ exclude' = launch[t].saw \cup {launch[t].line}
      /\ UNCHANGED <<rolefile, store, trusted, running, rules, linked>>
  BY OfLaunch DEF WriteExclude, WithLine
<1>2. /\ l \in GrantLaunch /\ StepFits(l) /\ l.pc \in {"start", "exclude", "trust"}
      /\ l.pc = "start" => launch[t].engine # "agy"
      /\ l.todo = launch[t].todo /\ l.grant = launch[t].grant
      /\ l.engine = launch[t].engine /\ l.fresh = launch[t].fresh /\ l.calm = launch[t].calm
      /\ HasSkillsLine(l) => launch[t].line = "skills" \/ HasSkillsLine(launch[t])
      /\ HasAgentsLine(l) => launch[t].line = "agents"
  BY <1>1, AfterExcludeFacts
<1>3. launch' = [launch EXCEPT ![t] = l]
  BY DEF WriteExclude
<1> HIDE DEF l
<1>4. \A u \in Checkouts : launch'[u] = IF u = t THEN l ELSE launch[u]
  BY <1>3 DEF GrantInv, GrantTypes
<1>5. \A u \in Checkouts \ {t} : launch[u].pc \notin {"hide", "write"}
  BY <1>1 DEF GrantInv, SoleEditor
<1>6. /\ \A x : Survives(x) => Survives(x)'
      /\ \A x : x = launch[t].line => Survives(x)'
  BY <1>1, <1>2, <1>4, <1>5 DEF Survives, Writing
<1>7. /\ HasSkillsLine(l) => Survives("skills")'
      /\ HasAgentsLine(l) => Survives("agents")'
  <2>1. launch[t].line = "skills" => Survives("skills")'
    BY <1>6
  <2>2. launch[t].line = "agents" => Survives("agents")'
    BY <1>6
  <2> QED  BY <1>2, <1>6, <2>1, <2>2, OfLaunch
<1>8. GrantTypes'
  <2>1. launch[t].saw \cup {launch[t].line} \subseteq Lines
    BY <1>1 DEF StepFits, Lines
  <2> QED  BY <1>1, <1>2, <1>3, <2>1 DEF GrantInv, GrantTypes
<1>9. SoleEditor'
  BY <1>1, <1>2, <1>4, <1>5 DEF GrantInv, SoleEditor
<1>10. LaunchSound'
  BY <1>1, <1>2, <1>4, <1>6, <1>7 DEF GrantInv, LaunchSound, PrepareSteps
<1>11. RunSound'
  BY <1>1, <1>6 DEF GrantInv, RunSound
<1>12. LinksSound'
  BY <1>1, <1>2, <1>4 DEF GrantInv, LinksSound, PrepareSteps
<1> QED  BY <1>8, <1>9, <1>10, <1>11, <1>12 DEF GrantInv

LEMMA ReadTrustInv ==
  ASSUME OneAtATime, GrantInv, NEW t \in Checkouts, ReadTrust(t)
  PROVE  GrantInv'
<1> DEFINE l == [launch[t] EXCEPT !.pc = IF t \in trusted THEN "start" ELSE "save",
                                  !.saw = IF t \in trusted THEN {} ELSE trusted]
<1>1. /\ launch[t] \in GrantLaunch /\ StepFits(launch[t]) /\ launch[t].pc = "trust"
      /\ UNCHANGED <<rolefile, store, exclude, trusted, running, rules, linked>>
      /\ \A u \in Checkouts : launch[u].pc # "save"
  BY OfLaunch DEF ReadTrust, NobodyIn
<1>2. trusted \subseteq Checkouts
  BY DEF GrantInv, GrantTypes
<1>3. /\ l \in GrantLaunch /\ l.pc = (IF t \in trusted THEN "start" ELSE "save")
      /\ l.saw = (IF t \in trusted THEN {} ELSE trusted) /\ l.line = launch[t].line
      /\ l.todo = launch[t].todo /\ l.grant = launch[t].grant
      /\ l.engine = launch[t].engine /\ l.fresh = launch[t].fresh /\ l.calm = launch[t].calm
  BY <1>1, <1>2 DEF GrantLaunch, PrepareSteps
<1>4. launch' = [launch EXCEPT ![t] = l]
  <2>1. launch' = [launch EXCEPT ![t].pc = IF t \in trusted THEN "start" ELSE "save",
                                 ![t].saw = IF t \in trusted THEN {} ELSE trusted]
    BY DEF ReadTrust
  <2> QED  BY <2>1 DEF GrantInv, GrantTypes
<1> HIDE DEF l
<1>5. /\ StepFits(l) /\ (HasSkillsLine(l) => HasSkillsLine(launch[t]))
      /\ (HasAgentsLine(l) => HasAgentsLine(launch[t]))
  BY <1>1, <1>3 DEF StepFits, HasSkillsLine, HasAgentsLine, Through
<1> QED  BY <1>1, <1>3, <1>4, <1>5, OfLaunch, StageInv DEF PrepareSteps

LEMMA SaveTrustInv ==
  ASSUME GrantInv, NEW t \in Checkouts, SaveTrust(t)
  PROVE  GrantInv'
<1> DEFINE l == [launch[t] EXCEPT !.pc = "start", !.saw = {}]
<1>1. /\ launch[t] \in GrantLaunch /\ StepFits(launch[t]) /\ launch[t].pc = "save"
      /\ UNCHANGED <<rolefile, store, exclude, running, rules, linked>> /\ trusted' = WithTrust(t)
  BY OfLaunch DEF SaveTrust
<1>2. /\ l \in GrantLaunch /\ l.pc = "start" /\ l.line = launch[t].line
      /\ l.todo = launch[t].todo /\ l.grant = launch[t].grant
      /\ l.engine = launch[t].engine /\ l.fresh = launch[t].fresh /\ l.calm = launch[t].calm
  BY <1>1 DEF GrantLaunch, PrepareSteps
<1>3. launch' = [launch EXCEPT ![t] = l]
  <2>1. launch' = [launch EXCEPT ![t].pc = "start", ![t].saw = {}]
    BY DEF SaveTrust
  <2> QED  BY <2>1 DEF GrantInv, GrantTypes
<1> HIDE DEF l
<1>4. /\ StepFits(l) /\ (HasSkillsLine(l) => HasSkillsLine(launch[t]))
      /\ (HasAgentsLine(l) => HasAgentsLine(launch[t])) /\ t \in trusted'
  BY <1>1, <1>2 DEF StepFits, HasSkillsLine, HasAgentsLine, Through, WithTrust
<1> QED  BY <1>1, <1>2, <1>3, <1>4, OfLaunch, StageInv DEF PrepareSteps

LEMMA LaunchDiesInv ==
  ASSUME OneAtATime, GrantInv, NEW t \in Checkouts, LaunchDies(t)
  PROVE  GrantInv'
<1>1. /\ launch' = [launch EXCEPT ![t] = NoLaunch] /\ launch[t].pc # "write"
      /\ UNCHANGED <<rolefile, store, linked, rules, exclude, trusted, running>>
  BY DEF LaunchDies
<1>2. ~HasSkillsLine(NoLaunch) /\ ~HasAgentsLine(NoLaunch)
  BY GrantFacts DEF HasSkillsLine, HasAgentsLine, Through
<1> QED  BY <1>1, <1>2, OfLaunch, GrantFacts, StepInv DEF PrepareSteps

LEMMA StartAgentInv ==
  ASSUME GrantInv, NEW t \in Checkouts, StartAgent(t)
  PROVE  GrantInv'
<1> DEFINE r == [engine |-> launch[t].engine, grant |-> launch[t].grant, env |-> launch[t].env]
<1>1. /\ launch[t] \in GrantLaunch /\ launch[t].pc = "start" /\ launch' = [launch EXCEPT ![t] = NoLaunch]
      /\ running' = [running EXCEPT ![t] = r]
      /\ UNCHANGED <<rolefile, store, linked, rules, exclude, trusted>>
  BY OfLaunch DEF StartAgent
<1>2. /\ r \in GrantRun /\ r.engine = launch[t].engine /\ r.grant = launch[t].grant
      /\ launch[t].engine \in {"claude", "agy"}
  BY <1>1 DEF GrantLaunch, GrantRun
<1> HIDE DEF r
<1>3. \A u \in Checkouts : /\ launch'[u] = IF u = t THEN NoLaunch ELSE launch[u]
                           /\ running'[u] = IF u = t THEN r ELSE running[u]
  BY <1>1 DEF GrantInv, GrantTypes
<1>4. \A x : Survives(x) => Survives(x)'
  BY <1>1, GrantFacts, ExcludeKept
<1>5. /\ launch[t].grant # {} => Survives("skills")
      /\ launch[t].engine = "agy" => Survives("agents") /\ t \in rules /\ t \in trusted
  <2>1. launch[t].engine = "agy" => t \in trusted
    BY <1>1 DEF GrantInv, LaunchSound
  <2> QED  BY <1>1, <2>1, OfLaunch DEF HasSkillsLine, HasAgentsLine, Through, PrepareSteps
<1>6. GrantTypes'
  BY <1>1, <1>2, GrantFacts DEF GrantInv, GrantTypes
<1>7. SoleEditor'
  BY <1>1, <1>3, GrantFacts DEF GrantInv, SoleEditor
<1>8. LaunchSound'
  BY <1>1, <1>3, <1>4, GrantFacts
  DEF GrantInv, LaunchSound, PrepareSteps, Through, HasSkillsLine, HasAgentsLine
<1>9. RunSound'
  BY <1>1, <1>2, <1>3, <1>4, <1>5 DEF GrantInv, RunSound
<1>10. LinksSound'
  BY <1>1, <1>3, GrantFacts DEF GrantInv, LinksSound, PrepareSteps
<1> QED  BY <1>6, <1>7, <1>8, <1>9, <1>10 DEF GrantInv

LEMMA GrantNextInv == OneAtATime /\ GrantInv /\ [GrantNext]_gVars => GrantInv'
<1> SUFFICES ASSUME OneAtATime, GrantInv, [GrantNext]_gVars PROVE GrantInv'
  OBVIOUS
<1>1. CASE UNCHANGED gVars
  BY <1>1 DEF gVars, GrantInv, GrantTypes, SoleEditor, LaunchSound, RunSound, LinksSound, Survives, Writing
<1>2. CASE \/ \E name \in RoleNames, layer \in Layers, skills \in (SUBSET Skills) \cup {None} :
              EditRole(name, layer, skills)
           \/ \E k \in Skills, where \in {"shipped", "user", "gone"} : MoveSkill(k, where)
  BY <1>2, UserInv
<1>3. ASSUME NEW t \in Checkouts,
             \/ \E engine \in {"claude", "agy"}, names \in SUBSET RoleNames : SpawnIn(t, engine, names)
             \/ \E engine \in {"claude", "agy"} : SpawnByCommand(t, engine)
             \/ LaunchAgain(t)
      PROVE  GrantInv'
  <2>1. {} \in SUBSET RoleNames /\ "agy" \in {"claude", "agy"}
    OBVIOUS
  <2> QED  BY <1>3, <2>1, SpawnsInv
<1>4. ASSUME NEW t \in Checkouts,
             \/ WriteRules(t) \/ AfterLinks(t) \/ ReadExclude(t) \/ TruncateExclude(t)
             \/ WriteExclude(t) \/ ReadTrust(t) \/ SaveTrust(t) \/ StartAgent(t) \/ LaunchDies(t)
             \/ \E k \in Skills : LinkSkill(t, k)
      PROVE  GrantInv'
  BY <1>4, WriteRulesInv, AfterLinksInv, ReadExcludeInv, TruncateExcludeInv, WriteExcludeInv,
     ReadTrustInv, SaveTrustInv, StartAgentInv, LaunchDiesInv, LinkSkillInv
<1> QED  BY <1>1, <1>2, <1>3, <1>4 DEF GrantNext

(* The inductive invariant implies the property and the types.              *)
LEMMA GrantInvImplies == GrantInv => CheckoutIsPrepared /\ GrantTypeOK
<1> SUFFICES ASSUME GrantInv PROVE CheckoutIsPrepared /\ GrantTypeOK
  OBVIOUS
<1>1. HiddenFromGit /\ OthersLinesSurvive
  BY DEF GrantInv, RunSound, Survives, HiddenFromGit, OthersLinesSurvive
<1>2. LinksAreCurrent
  <2> SUFFICES ASSUME NEW t \in Checkouts, launch[t].pc = "start", launch[t].calm,
                      NEW k \in launch[t].grant
               PROVE  linked[t][k] = store[k]
    BY DEF LinksAreCurrent
  <2>1. launch[t].todo = {}
    BY OfLaunch DEF StepFits
  <2> QED  BY <2>1, OfLaunch DEF PrepareSteps
<1>3. GrantTypeOK
  <2> SUFFICES ASSUME NEW t \in Checkouts
               PROVE  /\ launch[t].pc \in {"idle"} \cup PrepareSteps
                      /\ launch[t].todo \subseteq launch[t].grant
                      /\ running[t].grant \subseteq Skills
                      /\ {launch[t].env, running[t].env} \subseteq GrantEnvs
    BY DEF GrantInv, GrantTypes, GrantTypeOK, PrepareSteps, GrantEnvs
  <2>1. launch[t] \in GrantLaunch /\ running[t] \in GrantRun /\ StepFits(launch[t])
    BY OfLaunch DEF GrantInv, GrantTypes
  <2> QED  BY <2>1 DEF GrantLaunch, GrantRun, StepFits
<1> QED  BY <1>1, <1>2, <1>3 DEF CheckoutIsPrepared

\* With one launch at a time between the read and the write of a shared file, what a
\* launch puts into its checkout is hidden from git, nobody's lines are lost, and every
\* link is current, whatever the user edits and wherever launches die (skills.py:60-127).
THEOREM CheckoutsArePrepared == ASSUME OneAtATime PROVE GrantSpec => []CheckoutIsPrepared
<1>1. OneAtATime /\ GrantInv /\ [GrantNext]_gVars => GrantInv'
  BY GrantNextInv
<1> QED
  BY <1>1, InitGrantInv, GrantInvImplies, PTL DEF GrantSpec

----------------------------------------------------------------------------
(***************************************************************************)
(* ReadOnlySandbox, where workers are resumed in the worktrees of tx.       *)
(***************************************************************************)

\* The names the paths are made of.
PathNames == {"repo", ".git", "tx", "worktrees", "key", "w1", "w2", "w3", "nested", "work", "other", "top", "mine"}

\* What a sandbox was made of: the paths that were to be denied.
Protected(known) == {TxRoot, GitDirectory} \cup known

BoxInv ==
    /\ registered \subseteq {Checkout} \cup TxTrees \cup UserTrees /\ Checkout \in registered
    /\ DOMAIN sandbox = ReadOnlyWorkers
    /\ \A w \in ReadOnlyWorkers : sandbox[w] # None =>
         /\ sandbox[w].known \subseteq TxTrees \cup UserTrees \cup {Checkout}
         /\ sandbox[w].boundaries = MinimalBoundaries(Protected(sandbox[w].known))
         /\ sandbox[w].tree \in registered

----------------------------------------------------------------------------
(* Prefixes of paths.                                                       *)

LEMMA PrefixByElement ==
  ASSUME NEW s \in Seq(PathNames), NEW t \in Seq(PathNames)
  PROVE  IsPrefix(s, t) <=> Len(s) <= Len(t) /\ \A i \in 1..Len(s) : s[i] = t[i]
<1>1. CASE Len(s) <= Len(t)
  <2>1. /\ SubSeq(s, 1, Len(s)) = [i \in 1..Len(s) |-> s[i]]
        /\ SubSeq(t, 1, Len(s)) = [i \in 1..Len(s) |-> t[i]]
    BY <1>1
  <2> QED  BY <1>1, <2>1 DEF IsPrefix
<1>2. CASE ~(Len(s) <= Len(t))
  BY <1>2 DEF IsPrefix
<1> QED  BY <1>1, <1>2

LEMMA PrefixIsTransitive ==
  ASSUME NEW s \in Seq(PathNames), NEW t \in Seq(PathNames), NEW u \in Seq(PathNames),
         IsPrefix(s, t), IsPrefix(t, u)
  PROVE  IsPrefix(s, u)
BY PrefixByElement

LEMMA PrefixesOfOneLength ==
  ASSUME NEW s \in Seq(PathNames), NEW t \in Seq(PathNames), IsPrefix(s, t), Len(s) = Len(t)
  PROVE  s = t
BY PrefixByElement

LEMMA PathFacts ==
  /\ \A p \in TxTrees : p \in Seq(PathNames) /\ Len(p) = 4 /\ ParentOf(p) = TxRoot /\ IsPrefix(TxRoot, p)
  /\ \A p \in {Checkout, GitDirectory, TxRoot} \cup UserTrees : p \in Seq(PathNames) /\ Len(p) \in 1..4
<1>1. \A p \in {Checkout, GitDirectory, TxRoot} \cup UserTrees : p \in Seq(PathNames) /\ Len(p) \in 1..4
  <2>1. Checkout \in Seq(PathNames) /\ Len(Checkout) = 1
    BY DEF Checkout, PathNames
  <2>2. GitDirectory \in Seq(PathNames) /\ Len(GitDirectory) = 2
    BY DEF GitDirectory, PathNames
  <2>3. TxRoot \in Seq(PathNames) /\ Len(TxRoot) = 3
    BY DEF TxRoot, PathNames
  <2>4. ASSUME NEW p \in UserTrees PROVE p \in Seq(PathNames) /\ Len(p) \in 1..4
    <3>1. <<"repo", "nested">> \in Seq(PathNames) /\ Len(<<"repo", "nested">>) \in 1..4
      BY DEF PathNames
    <3>2. <<"work", "other">> \in Seq(PathNames) /\ Len(<<"work", "other">>) \in 1..4
      BY DEF PathNames
    <3>3. <<"top">> \in Seq(PathNames) /\ Len(<<"top">>) \in 1..4
      BY DEF PathNames
    <3>4. <<"tx", "mine">> \in Seq(PathNames) /\ Len(<<"tx", "mine">>) \in 1..4
      BY DEF PathNames
    <3>5. p = <<"repo", "nested">> \/ p = <<"work", "other">> \/ p = <<"top">> \/ p = <<"tx", "mine">>
      BY DEF UserTrees
    <3> QED  BY <3>1, <3>2, <3>3, <3>4, <3>5, Zenon
  <2> QED  BY <2>1, <2>2, <2>3, <2>4
<1>2. ASSUME NEW p \in TxTrees
      PROVE  p \in Seq(PathNames) /\ Len(p) = 4 /\ ParentOf(p) = TxRoot /\ IsPrefix(TxRoot, p)
  <2>1. PICK n \in 1..MaxTxTrees : p = Append(TxRoot, <<"w1", "w2", "w3">>[n])
    BY DEF TxTrees
  <2>2. n \in 1..3
    BY SandboxAssumption
  <2>3. <<"w1", "w2", "w3">>[n] \in PathNames
    <3>1. CASE n = 1
      BY <3>1 DEF PathNames
    <3>2. CASE n = 2
      BY <3>2 DEF PathNames
    <3>3. CASE n = 3
      BY <3>3 DEF PathNames
    <3> QED  BY <2>2, <3>1, <3>2, <3>3
  <2> DEFINE x == <<"w1", "w2", "w3">>[n]
  <2>7. x \in PathNames /\ p = Append(TxRoot, x)
    BY <2>1, <2>3
  <2> HIDE DEF x
  <2>8. TxRoot \in Seq(PathNames) /\ Len(TxRoot) = 3
    BY DEF TxRoot, PathNames
  <2>4. x \in PathNames /\ p = Append(TxRoot, x) /\ TxRoot \in Seq(PathNames) /\ Len(TxRoot) = 3
    BY <2>7, <2>8
  <2>5. p \in Seq(PathNames) /\ Len(p) = 4 /\ \A i \in 1..3 : p[i] = TxRoot[i]
    <3>1. /\ Append(TxRoot, x) \in Seq(PathNames) /\ Len(Append(TxRoot, x)) = Len(TxRoot) + 1
          /\ \A i \in 1..Len(TxRoot) : Append(TxRoot, x)[i] = TxRoot[i]
      <4>1. TxRoot \in Seq(PathNames) /\ x \in PathNames
        BY <2>4
      <4> QED  BY <4>1, AppendProperties
    <3>2. Len(TxRoot) + 1 = 4 /\ 1..Len(TxRoot) = 1..3
      BY <2>4
    <3> QED  BY <2>4, <3>1, <3>2, Zenon
  <2>6. ParentOf(p) = TxRoot
    <3>1. ParentOf(p) = [i \in 1..3 |-> p[i]]
      BY <2>5 DEF ParentOf, Front
    <3>2. TxRoot = [i \in 1..3 |-> TxRoot[i]]
      BY <2>4
    <3> QED  BY <2>5, <3>1, <3>2
  <2>9. IsPrefix(TxRoot, p)
    <3>1. Len(TxRoot) <= Len(p) /\ \A i \in 1..Len(TxRoot) : TxRoot[i] = p[i]
      BY <2>4, <2>5
    <3> QED  BY <2>4, <2>5, <3>1, PrefixByElement
  <2> QED  BY <2>5, <2>6, <2>9
<1> QED  BY <1>1, <1>2

\* Whatever was to be denied is denied by a boundary: by its shortest prefix.
LEMMA MinimalCovers ==
  ASSUME NEW paths, \A p \in paths : p \in Seq(PathNames) /\ Len(p) \in 1..4, NEW p \in paths
  PROVE  \E b \in MinimalBoundaries(paths) : IsPrefix(b, p)
<1> DEFINE Short(n) == \E q \in paths : IsPrefix(q, p) /\ Len(q) = n
<1>1. ASSUME NEW n \in 1..4, Short(n), \A m \in 1..4 : m < n => ~Short(m)
      PROVE  \E b \in MinimalBoundaries(paths) : IsPrefix(b, p)
  <2>1. PICK b \in paths : IsPrefix(b, p) /\ Len(b) = n
    BY <1>1
  <2>2. ASSUME NEW q \in paths, IsPrefix(q, b) PROVE q = b
    <3>1. IsPrefix(q, p)
      BY <2>1, <2>2, PrefixIsTransitive
    <3>2. Len(q) <= n /\ Len(q) \in 1..4
      BY <2>1, <2>2, PrefixByElement
    <3>3. Len(q) = n
      BY <1>1, <3>1, <3>2
    <3> QED  BY <2>1, <2>2, <3>3, PrefixesOfOneLength
  <2> QED  BY <2>1, <2>2 DEF MinimalBoundaries
<1>2. Short(Len(p)) /\ Len(p) \in 1..4
  BY PrefixByElement
<1> HIDE DEF Short
<1>3. \E n \in 1..4 : Short(n) /\ \A m \in 1..4 : m < n => ~Short(m)
  <2>1. CASE Short(1)
    BY <2>1
  <2>2. CASE ~Short(1) /\ Short(2)
    BY <2>2
  <2>3. CASE ~Short(1) /\ ~Short(2) /\ Short(3)
    BY <2>3
  <2>4. CASE ~Short(1) /\ ~Short(2) /\ ~Short(3) /\ Short(4)
    BY <2>4
  <2>5. Short(1) \/ Short(2) \/ Short(3) \/ Short(4)
    <3>1. Len(p) = 1 \/ Len(p) = 2 \/ Len(p) = 3 \/ Len(p) = 4
      BY <1>2
    <3> QED  BY <1>2, <3>1, Zenon
  <2> QED  BY <2>1, <2>2, <2>3, <2>4, <2>5
<1> QED  BY <1>1, <1>3

LEMMA BoundFacts ==
  ASSUME NEW known \in SUBSET (TxTrees \cup UserTrees \cup {Checkout})
  PROVE  \A p \in Protected(known) : p \in Seq(PathNames) /\ Len(p) \in 1..4
BY PathFacts DEF Protected

----------------------------------------------------------------------------
LEMMA WrappedBox ==
  ASSUME NEW w \in ReadOnlyWorkers, NEW tree \in TxTrees, DOMAIN sandbox = ReadOnlyWorkers,
         NEW given, registered \subseteq given, Wrapped(w, tree, given)
  PROVE  sandbox' = [sandbox EXCEPT ![w] =
           [tree |-> tree, known |-> given, boundaries |-> MinimalBoundaries(Protected(given))]]
<1>1. OwnedPaths(tree) \cup given = Protected(given)
  BY PathFacts DEF OwnedPaths, Protected
<1> QED  BY <1>1 DEF Wrapped

LEMMA BoxNextInv == ~ResumesElsewhere /\ BoxInv /\ [BoxNext]_boxVars => BoxInv'
<1> SUFFICES ASSUME ~ResumesElsewhere, BoxInv, [BoxNext]_boxVars PROVE BoxInv'
  OBVIOUS
<1>1. CASE UNCHANGED boxVars
  BY <1>1 DEF boxVars, BoxInv
<1>2. ASSUME NEW w \in ReadOnlyWorkers, NEW tree \in TxTrees, NEW given, given = registered',
             Wrapped(w, tree, given), registered \subseteq registered', tree \in registered',
             registered' \subseteq {Checkout} \cup TxTrees \cup UserTrees
      PROVE  BoxInv'
  <2>1. sandbox' = [sandbox EXCEPT ![w] =
           [tree |-> tree, known |-> given, boundaries |-> MinimalBoundaries(Protected(given))]]
    BY <1>2, WrappedBox DEF BoxInv
  <2> QED  BY <1>2, <2>1 DEF BoxInv
<1>3. ASSUME NEW w \in ReadOnlyWorkers, NEW tree \in TxTrees, SpawnReadOnly(w, tree)
      PROVE  BoxInv'
  BY <1>2, <1>3 DEF SpawnReadOnly, BoxInv
<1>4. ASSUME NEW w \in ReadOnlyWorkers, NEW tree \in TxTrees \cup UserTrees, ResumeReadOnly(w, tree)
      PROVE  BoxInv'
  <2>1. tree \in TxTrees /\ registered' = registered /\ tree \in registered /\ Wrapped(w, tree, registered)
    BY <1>4 DEF ResumeReadOnly
  <2> QED  BY <1>2, <2>1 DEF BoxInv
<1>5. ASSUME NEW w \in ReadOnlyWorkers, KillReader(w) PROVE BoxInv'
  BY <1>5 DEF KillReader, BoxInv
<1>6. ASSUME NEW tree \in TxTrees \cup UserTrees, TreeAppears(tree) PROVE BoxInv'
  BY <1>6 DEF TreeAppears, BoxInv
<1>7. ASSUME NEW tree \in TxTrees \cup UserTrees, TreeGoes(tree) PROVE BoxInv'
  BY <1>7 DEF TreeGoes, BoxInv
<1> QED  BY <1>1, <1>3, <1>4, <1>5, <1>6, <1>7 DEF BoxNext

LEMMA BoxInvImplies == BoxInv => SandboxFits /\ BoxTypeOK
<1> SUFFICES ASSUME BoxInv, NEW w \in ReadOnlyWorkers, sandbox[w] # None
             PROVE  /\ \A path \in sandbox[w].known \cup TxTrees \cup {GitDirectory} :
                         Denies(sandbox[w].boundaries, path)
                    /\ \A path \in Paths : Denies(sandbox[w].boundaries, path) =>
                         \E owned \in sandbox[w].known \cup {TxRoot, GitDirectory} : IsPrefix(owned, path)
                    /\ \A b, c \in sandbox[w].boundaries : b # <<>> /\ (IsPrefix(b, c) => b = c)
  BY DEF SandboxFits, RepositoryDenied, NothingElseDenied, BoxTypeOK, BoxInv
<1> DEFINE paths == Protected(sandbox[w].known)
<1>1. /\ sandbox[w].known \in SUBSET (TxTrees \cup UserTrees \cup {Checkout})
      /\ sandbox[w].boundaries = MinimalBoundaries(paths)
  BY DEF BoxInv
<1>2. \A p \in paths : p \in Seq(PathNames) /\ Len(p) \in 1..4
  BY <1>1, BoundFacts
<1>3. /\ sandbox[w].known \subseteq paths /\ TxRoot \in paths /\ GitDirectory \in paths
      /\ paths \subseteq sandbox[w].known \cup {TxRoot, GitDirectory}
  BY DEF Protected
<1> HIDE DEF paths
<1>4. \A p \in paths : \E b \in sandbox[w].boundaries : IsPrefix(b, p)
  BY <1>1, <1>2, MinimalCovers
<1>5. ASSUME NEW path \in TxTrees PROVE Denies(sandbox[w].boundaries, path)
  <2>1. PICK b \in sandbox[w].boundaries : IsPrefix(b, TxRoot)
    BY <1>3, <1>4
  <2>2. b \in Seq(PathNames)
    BY <1>1, <1>2, <2>1 DEF MinimalBoundaries
  <2> QED  BY <1>2, <1>3, <2>1, <2>2, PathFacts, PrefixIsTransitive DEF Denies
<1>6. \A b, c \in sandbox[w].boundaries : b # <<>> /\ (IsPrefix(b, c) => b = c)
  <2> SUFFICES ASSUME NEW b \in sandbox[w].boundaries, NEW c \in sandbox[w].boundaries
               PROVE  b # <<>> /\ (IsPrefix(b, c) => b = c)
    OBVIOUS
  <2>1. b \in paths /\ c \in paths /\ (IsPrefix(b, c) => b = c)
    BY <1>1 DEF MinimalBoundaries
  <2>2. Len(b) # 0
    <3>1. Len(b) \in 1..4
      BY <1>2, <2>1, Zenon
    <3> QED  BY <3>1
  <2>3. b # <<>>
    BY <2>2
  <2> QED  BY <2>1, <2>3
<1>7. sandbox[w].boundaries \subseteq paths
  BY <1>1 DEF MinimalBoundaries
<1> QED  BY <1>3, <1>4, <1>5, <1>6, <1>7 DEF Denies

\* A read-only worker, spawned or resumed in a worktree of tx, can write to no checkout
\* of its repository nor to its Git directory, and everywhere else, whichever worktrees
\* come and go while it runs (read_only.py:30-60).
THEOREM SandboxesFit == ASSUME ~ResumesElsewhere PROVE BoxSpec => []SandboxFits
<1>1. BoxInit => BoxInv
  BY DEF BoxInit, BoxInv
<1>2. BoxInv /\ [BoxNext]_boxVars => BoxInv'
  BY BoxNextInv
<1> QED  BY <1>1, <1>2, BoxInvImplies, PTL DEF BoxSpec

----------------------------------------------------------------------------
(***************************************************************************)
(* The mirror of a chat is never spliced from two versions of its           *)
(* transcript, for any number of ingests, blocks, versions and deaths: only *)
(* the holder of the lock writes the copy, and what it appends is of the    *)
(* version the copy is of.                                                  *)
(***************************************************************************)

\* The stages in which an ingest has the lock.
Mirroring == {"stat", "check", "open", "copy", "sidecars", "unlock"}

\* The lock is with the one ingest that mirrors, and with none when none does.
OneMirror ==
    /\ \A i \in Ingests : ing[i].pc \in Mirroring => ingLock = i
    /\ LockNotLeaked

\* What is about to be appended to is a copy of the transcript as it is; what is
\* being appended to is one of the version that is open.
SameVersion ==
    \A i \in Ingests :
      /\ ing[i].pc \in {"open", "copy"} => copy \in Seq(1..MaxVersions)
      /\ ing[i].pc = "open" => \A n \in DOMAIN copy : copy[n] = Current
      /\ ing[i].pc = "copy" => \A n \in DOMAIN copy : copy[n] = ing[i].fd

HistInv == HistTypeOK /\ OneMirror /\ SameVersion /\ NeverSpliced

----------------------------------------------------------------------------
LEMMA InitHistInv == HistInit => HistInv
<1> SUFFICES ASSUME HistInit PROVE HistInv
  OBVIOUS
<1> USE HistoryAssumption DEF HistInit
<1>1. files \in Seq(0..MaxLength) /\ Len(files) = 1
  OBVIOUS
<1>2. \A i \in Ingests : ing[i] = Idle
  OBVIOUS
<1>3. Idle \in [pc: Stages, wait: BOOLEAN, want: (1..MaxVersions) \X (0..MaxLength),
                wantFiles: SUBSET Sidecars, size: 0..MaxLength, fd: 1..MaxVersions,
                file: Sidecars \cup {None}]
  BY DEF Idle, Stages
<1>4. HistTypeOK
  BY <1>1, <1>3 DEF HistTypeOK
<1>5. OneMirror /\ SameVersion
  BY <1>2 DEF OneMirror, LockNotLeaked, SameVersion, Idle, Mirroring
<1> QED  BY <1>4, <1>5 DEF HistInv, NeverSpliced

\* The agent and its transcript.
LEMMA AgentKeepsInv ==
  ASSUME SafeRewrites, HistInv, Grow \/ Rewrite \/ \E f \in Sidecars : WriteSidecar(f)
  PROVE  HistInv'
<1> USE HistoryAssumption DEF HistInv, HistTypeOK, Current, Size
<1>1. CASE Grow
  <2>1. /\ files' \in Seq(0..MaxLength) /\ Len(files') = Len(files)
        /\ UNCHANGED <<writer, made, copy, kept, ingLock, ing>>
    BY <1>1 DEF Grow
  <2> QED  BY <2>1 DEF OneMirror, LockNotLeaked, SameVersion, NeverSpliced
<1>2. CASE Rewrite
  <2>1. /\ files' \in Seq(0..MaxLength) /\ Len(files') \in 1..MaxVersions
        /\ \A i \in Ingests : ing[i].pc # "open"
        /\ UNCHANGED <<writer, made, copy, kept, ingLock, ing>>
    BY <1>2 DEF Rewrite, At
  <2> QED  BY <2>1 DEF OneMirror, LockNotLeaked, SameVersion, NeverSpliced
<1>3. CASE \E f \in Sidecars : WriteSidecar(f)
  <2>1. /\ made' \subseteq Sidecars
        /\ UNCHANGED <<writer, files, copy, kept, ingLock, ing>>
    BY <1>3 DEF WriteSidecar
  <2> QED  BY <2>1 DEF OneMirror, LockNotLeaked, SameVersion, NeverSpliced
<1> QED  BY <1>1, <1>2, <1>3

\* The type of an ingest, and how a step of i leaves the others alone.
IngestType == [pc: Stages, wait: BOOLEAN, want: (1..MaxVersions) \X (0..MaxLength),
               wantFiles: SUBSET Sidecars, size: 0..MaxLength, fd: 1..MaxVersions,
               file: Sidecars \cup {None}]

\* A step that changes the state of one ingest, the lock and the sidecars, and leaves
\* the copy, keeps the invariant when the lock follows the stage.
LEMMA QuietStepKeepsInv ==
  ASSUME HistInv, NEW i \in Ingests, NEW st \in IngestType,
         ing' = [ing EXCEPT ![i] = st], UNCHANGED <<files, made, copy>>,
         writer' \in {"on", "over"},
         kept' \in [Sidecars -> {"absent", "part", "whole"}],
         st.pc \in Mirroring => ingLock' = i,
         st.pc \notin Mirroring => ingLock' = IF ingLock = i THEN None ELSE ingLock,
         ingLock' # ingLock => ingLock = None \/ ingLock = i,
         st.pc = "open" => /\ copy \in Seq(1..MaxVersions)
                           /\ \A n \in DOMAIN copy : copy[n] = Current,
         st.pc = "copy" => /\ copy \in Seq(1..MaxVersions)
                           /\ \A n \in DOMAIN copy : copy[n] = st.fd
  PROVE  HistInv'
<1> USE HistoryAssumption DEF HistInv, HistTypeOK
<1>1. \A j \in Ingests : ing'[j] = IF j = i THEN st ELSE ing[j]
  OBVIOUS
<1>2. HistTypeOK'
  BY DEF IngestType
<1>3. OneMirror'
  BY <1>1 DEF OneMirror, LockNotLeaked, Mirroring
<1>4. SameVersion'
  BY <1>1 DEF SameVersion, Current
<1> QED  BY <1>2, <1>3, <1>4 DEF NeverSpliced

LEMMA IngestKeepsInv ==
  ASSUME HistInv, NEW i \in Ingests,
         \/ \E wait, last \in BOOLEAN : Begin(i, wait, last)
         \/ IngestStep(i) \/ IngestDies(i)
  PROVE  HistInv'
<1> USE HistoryAssumption DEF At, Goto
<1>a. /\ ing[i] \in IngestType /\ Idle \in IngestType
      /\ ing \in [Ingests -> IngestType]
      /\ files \in Seq(0..MaxLength) /\ Current \in 1..MaxVersions /\ Size \in 0..MaxLength
      /\ copy # None => copy \in Seq(1..MaxVersions)
      /\ writer \in {"on", "over"} /\ kept \in [Sidecars -> {"absent", "part", "whole"}]
      /\ ing[i].pc \in Mirroring => ingLock = i
      /\ ingLock = i => ing[i].pc \in Mirroring
  BY DEF HistInv, HistTypeOK, IngestType, Idle, Stages, Current, Size, OneMirror, LockNotLeaked,
         Mirroring
<1>b. 0 \in 0..MaxLength /\ 1 \in 1..MaxVersions
  OBVIOUS
<1>1. ASSUME NEW wait \in BOOLEAN, NEW last \in BOOLEAN, Begin(i, wait, last)
      PROVE  HistInv'
  <2> DEFINE st == [Idle EXCEPT !.pc = "locate", !.wait = wait,
                      !.want = IF wait THEN <<Current, Size>> ELSE @,
                      !.wantFiles = IF wait THEN made ELSE @]
  <2>1. made \subseteq Sidecars
    BY DEF HistInv, HistTypeOK
  <2>2. st \in IngestType /\ st.pc = "locate"
    BY <1>a, <2>1 DEF IngestType, Idle, Stages
  <2>3. writer' \in {"on", "over"} /\ ing[i].pc = "idle"
    BY <1>1, <1>a DEF Begin
  <2>4. /\ ing' = [ing EXCEPT ![i] = st] /\ UNCHANGED <<files, made, copy, kept, ingLock>>
    BY <1>1 DEF Begin
  <2> HIDE DEF st
  <2> QED  BY <1>a, <2>2, <2>3, <2>4, QuietStepKeepsInv DEF Mirroring
<1>2. CASE Locate(i)
  <2> DEFINE st == IF Size = 0 /\ Current = 1 THEN Idle ELSE [ing[i] EXCEPT !.pc = "lock"]
  <2>1. st \in IngestType /\ st.pc \in {"idle", "lock"}
    BY <1>a DEF IngestType, Idle, Stages
  <2>2. ing' = [ing EXCEPT ![i] = st]
    BY <1>2, <1>a DEF Locate, Finished
  <2>3. ing[i].pc = "locate" /\ UNCHANGED <<writer, files, made, copy, kept, ingLock>>
    BY <1>2 DEF Locate
  <2> HIDE DEF st
  <2> QED  BY <1>a, <2>1, <2>2, <2>3, QuietStepKeepsInv DEF Mirroring
<1>3. CASE TakeLock(i)
  <2>1. PICK pc \in {"stat", "stamp"} :
          /\ ing' = [ing EXCEPT ![i] = [ing[i] EXCEPT !.pc = pc]]
          /\ IF pc = "stat" THEN ingLock = None /\ ingLock' = i ELSE UNCHANGED ingLock
    BY <1>3, <1>a DEF TakeLock
  <2>2. ing[i].pc = "lock" /\ UNCHANGED <<writer, files, made, copy, kept>>
    BY <1>3 DEF TakeLock
  <2> DEFINE st == [ing[i] EXCEPT !.pc = pc]
  <2>3. st \in IngestType /\ st.pc = pc
    BY <1>a DEF IngestType, Stages
  <2> HIDE DEF st
  <2>4. ing' = [ing EXCEPT ![i] = st]
    BY <2>1 DEF st
  <2> QED  BY <1>a, <2>1, <2>2, <2>3, <2>4, QuietStepKeepsInv DEF Mirroring
<1>4. CASE Stat(i)
  <2> DEFINE st == [ing[i] EXCEPT !.size = Size, !.pc = "check"]
  <2>1. st \in IngestType /\ st.pc = "check"
    BY <1>a DEF IngestType, Stages
  <2>2. ing' = [ing EXCEPT ![i] = st]
    BY <1>4, <1>a DEF Stat
  <2>3. ing[i].pc = "stat" /\ UNCHANGED <<writer, files, made, copy, kept, ingLock>>
    BY <1>4 DEF Stat
  <2> HIDE DEF st
  <2> QED  BY <1>a, <2>1, <2>2, <2>3, QuietStepKeepsInv DEF Mirroring
<1>5. CASE Compare(i)
  <2>0. ing[i].pc = "check" /\ UNCHANGED <<writer, files, made, kept, ingLock>>
    BY <1>5 DEF Compare
  <2>1. CASE copy # None /\ Len(copy) <= ing[i].size /\ CopyIsPrefix
    <3> DEFINE st == [ing[i] EXCEPT !.size = 0,
                        !.pc = IF Len(copy) = ing[i].size THEN "sidecars" ELSE "open"]
    <3>1. st \in IngestType /\ st.pc \in {"sidecars", "open"}
      <4>1. /\ [ing[i] EXCEPT !.size = 0, !.pc = "sidecars"] \in IngestType
            /\ [ing[i] EXCEPT !.size = 0, !.pc = "open"] \in IngestType
        BY <1>a, <1>b DEF IngestType, Stages
      <4> QED  BY <1>a, <4>1 DEF IngestType
    <3>2. ing' = [ing EXCEPT ![i] = st] /\ UNCHANGED copy
      BY <1>5, <1>a, <2>1 DEF Compare
    <3>3. \A n \in DOMAIN copy : copy[n] = Current
      <4>1. copy \in Seq(1..MaxVersions) /\ Len(copy) \in Nat /\ DOMAIN copy = 1..Len(copy)
        BY <1>a, <2>1
      <4>2. CASE Len(copy) = 0
        BY <4>1, <4>2
      <4>3. CASE Len(copy) # 0
        <5>1. Len(copy) \in DOMAIN copy /\ Len(copy) > Len(copy) - Window
          BY <4>1, <4>3
        <5>2. copy[Len(copy)] = Current
          BY <2>1, <5>1 DEF CopyIsPrefix
        <5> QED  BY <2>1, <5>1, <5>2 DEF HistInv, NeverSpliced
      <4> QED  BY <4>2, <4>3
    <3> HIDE DEF st
    <3> QED  BY <1>a, <2>0, <2>1, <3>1, <3>2, <3>3, QuietStepKeepsInv DEF Mirroring
  <2>2. CASE ~(copy # None /\ Len(copy) <= ing[i].size /\ CopyIsPrefix)
    <3> DEFINE st == [ing[i] EXCEPT !.fd = Current, !.pc = "copy", !.size = 0]
    <3>1. st \in IngestType /\ st.pc = "copy"
      BY <1>a, <1>b DEF IngestType, Stages
    <3>2. ing' = [ing EXCEPT ![i] = st] /\ copy' = <<>>
      BY <1>5, <1>a, <2>2 DEF Compare
    <3> HIDE DEF st
    <3>3. \A j \in Ingests : ing'[j] = IF j = i THEN st ELSE ing[j]
      BY <1>a, <3>2
    <3>4. HistTypeOK'
      <4>1. copy' \in Seq(1..MaxVersions) /\ ing' \in [Ingests -> IngestType]
        BY <1>a, <3>1, <3>2
      <4> QED  BY <2>0, <4>1 DEF HistInv, HistTypeOK, IngestType
    <3>5. OneMirror'
      BY <1>a, <2>0, <3>1, <3>3 DEF HistInv, OneMirror, LockNotLeaked, Mirroring
    <3>6. SameVersion' /\ NeverSpliced'
      BY <3>2 DEF SameVersion, NeverSpliced
    <3> QED  BY <3>4, <3>5, <3>6 DEF HistInv
  <2> QED  BY <2>1, <2>2
<1>6. CASE OpenSource(i)
  <2> DEFINE st == [ing[i] EXCEPT !.fd = Current, !.pc = "copy"]
  <2>1. st \in IngestType /\ st.pc = "copy" /\ st.fd = Current
    BY <1>a DEF IngestType, Stages
  <2>2. ing' = [ing EXCEPT ![i] = st]
    BY <1>6, <1>a DEF OpenSource
  <2>3. ing[i].pc = "open" /\ UNCHANGED <<writer, files, made, copy, kept, ingLock>>
    BY <1>6 DEF OpenSource
  <2>4. copy \in Seq(1..MaxVersions) /\ \A n \in DOMAIN copy : copy[n] = Current
    BY <2>3 DEF HistInv, SameVersion
  <2> HIDE DEF st
  <2> QED  BY <1>a, <2>1, <2>2, <2>3, <2>4, QuietStepKeepsInv DEF Mirroring
<1>7. CASE CopyBlock(i)
  <2>0. ing[i].pc = "copy" /\ UNCHANGED <<writer, files, made, kept, ingLock>>
    BY <1>7 DEF CopyBlock
  <2>1. copy \in Seq(1..MaxVersions) /\ \A n \in DOMAIN copy : copy[n] = ing[i].fd
    BY <2>0 DEF HistInv, SameVersion
  <2>2. CASE Len(copy) < files[ing[i].fd]
    <3>1. copy' = Append(copy, ing[i].fd) /\ UNCHANGED ing
      BY <1>7, <2>2 DEF CopyBlock
    <3>2. ing[i].fd \in 1..MaxVersions
      BY <1>a DEF IngestType
    <3>3. copy' \in Seq(1..MaxVersions) /\ \A n \in DOMAIN copy' : copy'[n] = ing[i].fd
      BY <2>1, <3>1, <3>2
    <3>4. HistTypeOK' /\ OneMirror'
      BY <2>0, <3>1, <3>3 DEF HistInv, HistTypeOK, OneMirror, LockNotLeaked
    <3>5. \A j \in Ingests : ing[j].pc \in {"open", "copy"} => j = i
      BY <1>a, <2>0 DEF HistInv, OneMirror, Mirroring
    <3>6. SameVersion' /\ NeverSpliced'
      BY <2>0, <3>1, <3>3, <3>5 DEF SameVersion, NeverSpliced
    <3> QED  BY <3>4, <3>6 DEF HistInv
  <2>3. CASE ~(Len(copy) < files[ing[i].fd])
    <3> DEFINE st == [ing[i] EXCEPT !.pc = "sidecars", !.fd = 1]
    <3>1. st \in IngestType /\ st.pc = "sidecars"
      BY <1>a, <1>b DEF IngestType, Stages
    <3>2. ing' = [ing EXCEPT ![i] = st] /\ UNCHANGED copy
      BY <1>7, <1>a, <2>3 DEF CopyBlock
    <3> HIDE DEF st
    <3> QED  BY <1>a, <2>0, <3>1, <3>2, QuietStepKeepsInv DEF Mirroring
  <2> QED  BY <2>2, <2>3
<1>8. CASE CopySidecar(i)
  <2>0. ing[i].pc = "sidecars" /\ UNCHANGED <<writer, files, made, copy, ingLock>>
    BY <1>8 DEF CopySidecar
  <2>1. \E st \in IngestType :
          /\ ing' = [ing EXCEPT ![i] = st] /\ st.pc \in {"sidecars", "unlock"}
          /\ kept' \in [Sidecars -> {"absent", "part", "whole"}]
    <3>1. ASSUME NEW f \in Sidecars, ing[i].file = None,
                 kept' = [kept EXCEPT ![f] = "part"], ing' = [ing EXCEPT ![i].file = f]
          PROVE  /\ [ing[i] EXCEPT !.file = f] \in IngestType
                 /\ ing' = [ing EXCEPT ![i] = [ing[i] EXCEPT !.file = f]]
                 /\ [ing[i] EXCEPT !.file = f].pc = "sidecars"
                 /\ kept' \in [Sidecars -> {"absent", "part", "whole"}]
      BY <1>a, <2>0, <3>1 DEF IngestType
    <3>2. ASSUME kept' = [kept EXCEPT ![ing[i].file] = "whole"],
                 ing' = [ing EXCEPT ![i].file = None]
          PROVE  /\ [ing[i] EXCEPT !.file = None] \in IngestType
                 /\ ing' = [ing EXCEPT ![i] = [ing[i] EXCEPT !.file = None]]
                 /\ [ing[i] EXCEPT !.file = None].pc = "sidecars"
                 /\ kept' \in [Sidecars -> {"absent", "part", "whole"}]
      BY <1>a, <2>0, <3>2 DEF IngestType
    <3>3. ASSUME ing' = [ing EXCEPT ![i].pc = "unlock"], UNCHANGED kept
          PROVE  /\ [ing[i] EXCEPT !.pc = "unlock"] \in IngestType
                 /\ ing' = [ing EXCEPT ![i] = [ing[i] EXCEPT !.pc = "unlock"]]
                 /\ [ing[i] EXCEPT !.pc = "unlock"].pc = "unlock"
                 /\ kept' \in [Sidecars -> {"absent", "part", "whole"}]
      BY <1>a, <2>0, <3>3 DEF IngestType, Stages
    <3> QED  BY <1>8, <3>1, <3>2, <3>3 DEF CopySidecar
  <2> QED  BY <1>a, <2>0, <2>1, QuietStepKeepsInv DEF Mirroring
<1>9. CASE Unlock(i)
  <2> DEFINE st == [ing[i] EXCEPT !.pc = "stamp"]
  <2>1. st \in IngestType /\ st.pc = "stamp"
    BY <1>a DEF IngestType, Stages
  <2>2. ing' = [ing EXCEPT ![i] = st]
    BY <1>9, <1>a DEF Unlock
  <2>3. /\ ing[i].pc = "unlock" /\ ingLock' = None
        /\ UNCHANGED <<writer, files, made, copy, kept>>
    BY <1>9 DEF Unlock
  <2> HIDE DEF st
  <2> QED  BY <1>a, <2>1, <2>2, <2>3, QuietStepKeepsInv DEF Mirroring
<1>10. CASE Stamp(i) \/ IngestDies(i)
  <2>1. ing' = [ing EXCEPT ![i] = Idle] /\ UNCHANGED <<writer, files, made, copy, kept>>
    BY <1>10 DEF Stamp, IngestDies, Finished
  <2>2. ingLock' = IF ingLock = i THEN None ELSE ingLock
    BY <1>10, <1>a DEF Stamp, IngestDies, Mirroring
  <2>3. Idle.pc = "idle"
    BY DEF Idle
  <2> QED  BY <1>a, <2>1, <2>2, <2>3, QuietStepKeepsInv DEF Mirroring
<1> QED
  BY <1>1, <1>2, <1>3, <1>4, <1>5, <1>6, <1>7, <1>8, <1>9, <1>10 DEF IngestStep

LEMMA HistInvHolds == ASSUME SafeRewrites PROVE HistSpec => []HistInv
<1>1. HistInv /\ [HistNext]_hVars => HistInv'
  <2> SUFFICES ASSUME HistInv, [HistNext]_hVars PROVE HistInv'
    OBVIOUS
  <2>1. CASE UNCHANGED hVars
    BY <2>1 DEF hVars, HistInv, HistTypeOK, OneMirror, LockNotLeaked, SameVersion, NeverSpliced,
                Current
  <2>2. CASE HistNext
    BY <2>2, AgentKeepsInv, IngestKeepsInv DEF HistNext
  <2> QED  BY <2>1, <2>2
<1> QED  BY <1>1, InitHistInv, PTL DEF HistSpec

\* As long as no rewrite falls between a prefix test and its append, every block of
\* the copy is of one version of the transcript, and an ingest that has ended or died
\* has given the lock back (history.py:142-163, 201-221).
THEOREM MirrorsStaySound == ASSUME SafeRewrites PROVE HistSpec => []MirrorIsSound
<1>1. HistInv => MirrorIsSound
  BY DEF HistInv, OneMirror, MirrorIsSound
<1> QED  BY <1>1, HistInvHolds, PTL
----------------------------------------------------------------------------
(* What a mirror holds when it ends.                                        *)

\* What the copy c must be for the ingest s, whose transcript has the versions fs.
CopyCovers(s, c) ==
    /\ c # None /\ c # <<>>
    /\ c[1] > s.want[1] \/ (c[1] = s.want[1] /\ Len(c) >= s.want[2])

\* The size that was read is of a version v, which no block of the copy is newer than.
StatHolds(s, fs, c) ==
    \E v \in 1..Len(fs) :
      /\ s.size \in 1..fs[v]
      /\ c # None => /\ \A n \in DOMAIN c : c[n] <= v
                     /\ (\A n \in DOMAIN c : c[n] = v) => Len(c) <= s.size
      /\ s.wait => s.want[1] < v \/ (s.want[1] = v /\ s.want[2] <= s.size)

\* How far the ingest s has come, on the versions fs, the copy c, the sidecars kp of
\* the bundle and the sidecars md of the agent.
KeepSound(s, fs, c, kp, md) ==
    /\ s.pc \notin {"idle", "locate"} => fs[Len(fs)] >= 1
    /\ s.wait => /\ s.want[1] \in 1..Len(fs) /\ s.want[2] <= fs[s.want[1]]
                 /\ s.wantFiles \subseteq md
    /\ s.pc = "check" => StatHolds(s, fs, c)
    /\ s.pc = "copy" => /\ s.fd \in 1..Len(fs) /\ fs[s.fd] >= 1
                        /\ s.wait => s.want[1] <= s.fd
    /\ s.pc \in {"sidecars", "unlock"} /\ s.wait => CopyCovers(s, c)
    /\ s.pc = "unlock" /\ s.wait => \A f \in s.wantFiles : kp[f] # "absent"

\* The blocks of the copy are of versions there have been, and no more of them.
CopySound(fs, c) ==
    /\ \A n \in 2..Len(fs) : fs[n] >= 1
    /\ c # None => \A n \in DOMAIN c : c[n] <= Len(fs)
    /\ c # None /\ c # <<>> => Len(c) <= fs[c[1]]

KeepInv ==
    /\ HistInv /\ CopySound(files, copy)
    /\ \A i \in Ingests : KeepSound(ing[i], files, copy, kept, made)

LEMMA KeepFacts ==
  ASSUME KeepInv
  PROVE  /\ files \in Seq(0..MaxLength) /\ Len(files) \in 1..MaxVersions
         /\ Len(files) \in Nat /\ MaxLength \in Nat
         /\ \A v \in 1..Len(files) : files[v] \in Nat
         /\ copy # None => /\ copy \in Seq(1..MaxVersions) /\ Len(copy) \in Nat
                           /\ DOMAIN copy = 1..Len(copy)
                           /\ \A n \in DOMAIN copy : copy[n] \in Nat /\ copy[n] >= 1
                           /\ \A m, n \in DOMAIN copy : copy[m] = copy[n]
         /\ \A i \in Ingests :
              /\ ing[i] \in IngestType /\ ing[i].want[1] \in Nat /\ ing[i].want[2] \in Nat
              /\ ing[i].size \in Nat /\ ing[i].fd \in Nat
         /\ Idle \in IngestType /\ Idle.pc = "idle" /\ ~Idle.wait
<1> USE HistoryAssumption DEF KeepInv, HistInv, HistTypeOK
<1>1. /\ files \in Seq(0..MaxLength) /\ Len(files) \in 1..MaxVersions
      /\ Len(files) \in Nat /\ MaxLength \in Nat
      /\ \A v \in 1..Len(files) : files[v] \in Nat
  OBVIOUS
<1>2. copy # None => /\ copy \in Seq(1..MaxVersions) /\ Len(copy) \in Nat
                     /\ DOMAIN copy = 1..Len(copy)
                     /\ \A n \in DOMAIN copy : copy[n] \in Nat /\ copy[n] >= 1
                     /\ \A m, n \in DOMAIN copy : copy[m] = copy[n]
  BY DEF NeverSpliced
<1>3. ASSUME NEW i \in Ingests
      PROVE  /\ ing[i] \in IngestType /\ ing[i].want[1] \in Nat /\ ing[i].want[2] \in Nat
             /\ ing[i].size \in Nat /\ ing[i].fd \in Nat
  <2>1. ing[i] \in IngestType
    BY DEF IngestType
  <2> QED  BY <2>1 DEF IngestType
<1>4. Idle \in IngestType /\ Idle.pc = "idle" /\ ~Idle.wait
  BY DEF Idle, IngestType, Stages
<1> QED  BY <1>1, <1>2, <1>3, <1>4

LEMMA InitKeepInv == HistInit => KeepInv
<1> SUFFICES ASSUME HistInit PROVE KeepInv
  OBVIOUS
<1>1. files = <<0>> /\ copy = None /\ \A i \in Ingests : ing[i] = Idle
  BY DEF HistInit
<1>2. Idle.pc = "idle" /\ ~Idle.wait
  BY DEF Idle
<1>3. KeepSound(Idle, files, copy, kept, made)
  BY <1>2 DEF KeepSound
<1>4. Len(files) = 1
  BY <1>1
<1>5. CopySound(files, copy)
  BY <1>1, <1>4 DEF CopySound
<1> QED  BY <1>1, <1>3, <1>5, InitHistInv DEF KeepInv

\* The transcript that grows, or is rewritten while no ingest is about to open it.
LEMMA GrowingKeepsSound ==
  ASSUME KeepInv, HistInv', UNCHANGED <<copy, kept, ing>>, made \subseteq made',
         Len(files) <= Len(files'),
         \A v \in 1..Len(files) : files[v] <= files'[v],
         files[Len(files)] >= 1 => files'[Len(files')] >= 1,
         \A n \in 2..Len(files') : files'[n] >= 1
  PROVE  KeepInv'
<1>1. Len(files') \in Nat /\ \A v \in 1..Len(files') : files'[v] \in Nat
  BY HistoryAssumption DEF HistInv, HistTypeOK
<1>2. \A v \in 1..Len(files) : v \in 1..Len(files')
  BY <1>1, KeepFacts
<1>3. CopySound(files', copy)
  <2>1. CopySound(files, copy)
    BY DEF KeepInv
  <2>2. ASSUME copy # None PROVE \A n \in DOMAIN copy : copy[n] <= Len(files')
    BY <1>1, <2>1, <2>2, KeepFacts DEF CopySound
  <2>3. ASSUME copy # None, copy # <<>> PROVE Len(copy) <= files'[copy[1]]
    <3>1. 1 \in DOMAIN copy /\ copy[1] \in 1..Len(files)
      <4>1. Len(copy) # 0
        BY <2>3, KeepFacts
      <4>2. 1 \in DOMAIN copy
        BY <2>3, <4>1, KeepFacts
      <4>3. copy[1] \in Nat /\ copy[1] >= 1
        BY <2>3, <4>2, KeepFacts
      <4>4. copy[1] <= Len(files)
        BY <2>1, <2>3, <4>2 DEF CopySound
      <4> QED  BY <4>2, <4>3, <4>4, KeepFacts
    <3>2. Len(copy) <= files[copy[1]]
      BY <2>1, <2>3 DEF CopySound
    <3> QED  BY <1>1, <1>2, <2>3, <3>1, <3>2, KeepFacts
  <2> QED  BY <2>2, <2>3 DEF CopySound
<1>4. ASSUME NEW i \in Ingests PROVE KeepSound(ing[i], files', copy, kept, made')
  <2> DEFINE s == ing[i]
  <2>1. KeepSound(s, files, copy, kept, made)
    BY DEF KeepInv
  <2>k. s \in IngestType /\ s.want[1] \in Nat /\ s.want[2] \in Nat /\ s.size \in Nat /\ s.fd \in Nat
    BY KeepFacts
  <2> HIDE DEF s
  <2>2. s.pc = "check" => StatHolds(s, files', copy)
    <3> SUFFICES ASSUME s.pc = "check" PROVE StatHolds(s, files', copy)
      OBVIOUS
    <3>1. PICK v \in 1..Len(files) :
            /\ s.size \in 1..files[v]
            /\ copy # None => /\ \A n \in DOMAIN copy : copy[n] <= v
                              /\ (\A n \in DOMAIN copy : copy[n] = v) => Len(copy) <= s.size
            /\ s.wait => s.want[1] < v \/ (s.want[1] = v /\ s.want[2] <= s.size)
      BY <2>1 DEF KeepSound, StatHolds
    <3>2. v \in 1..Len(files') /\ s.size \in 1..files'[v]
      BY <1>1, <1>2, <3>1, KeepFacts
    <3> QED  BY <3>1, <3>2 DEF StatHolds
  <2>3. s.wait => /\ s.want[1] \in 1..Len(files') /\ s.want[2] <= files'[s.want[1]]
                  /\ s.wantFiles \subseteq made'
    <3> SUFFICES ASSUME s.wait
                 PROVE  /\ s.want[1] \in 1..Len(files') /\ s.want[2] <= files'[s.want[1]]
                        /\ s.wantFiles \subseteq made'
      OBVIOUS
    <3>1. /\ s.want[1] \in 1..Len(files) /\ s.want[2] <= files[s.want[1]]
          /\ s.wantFiles \subseteq made
      BY <2>1 DEF KeepSound
    <3>2. s.want[1] \in 1..Len(files') /\ files[s.want[1]] <= files'[s.want[1]]
      BY <1>2, <3>1
    <3>3. files[s.want[1]] \in Nat /\ files'[s.want[1]] \in Nat
      BY <1>1, <3>1, <3>2, KeepFacts
    <3>4. s.want[2] <= files'[s.want[1]]
      BY <2>k, <3>1, <3>2, <3>3
    <3> QED  BY <3>1, <3>2, <3>4
  <2>4. s.pc = "copy" => /\ s.fd \in 1..Len(files') /\ files'[s.fd] >= 1
                         /\ s.wait => s.want[1] <= s.fd
    <3> SUFFICES ASSUME s.pc = "copy"
                 PROVE  /\ s.fd \in 1..Len(files') /\ files'[s.fd] >= 1
                        /\ s.wait => s.want[1] <= s.fd
      OBVIOUS
    <3>1. s.fd \in 1..Len(files) /\ files[s.fd] >= 1 /\ (s.wait => s.want[1] <= s.fd)
      BY <2>1 DEF KeepSound
    <3>2. s.fd \in 1..Len(files') /\ files[s.fd] <= files'[s.fd]
      BY <1>2, <3>1
    <3>3. files[s.fd] \in Nat /\ files'[s.fd] \in Nat
      BY <1>1, <3>1, <3>2, KeepFacts
    <3> QED  BY <3>1, <3>2, <3>3
  <2> QED  BY <2>1, <2>2, <2>3, <2>4 DEF KeepSound, s
<1> QED  BY <1>3, <1>4 DEF KeepInv

LEMMA AgentKeepsKeepInv ==
  ASSUME KeepInv, HistInv', Grow \/ Rewrite \/ \E f \in Sidecars : WriteSidecar(f)
  PROVE  KeepInv'
<1>f. /\ \A n \in 2..Len(files) : files[n] >= 1
      /\ \A v \in 1..Len(files) : files[v] \in 0..MaxLength
  BY KeepFacts DEF KeepInv, CopySound
<1>1. CASE Grow
  <2>1. /\ files' = [files EXCEPT ![Len(files)] = files[Len(files)] + 1]
        /\ UNCHANGED <<made, copy, kept, ing>>
    BY <1>1 DEF Grow, Current
  <2>2. /\ Len(files') = Len(files) /\ Len(files) \in 1..Len(files)
        /\ \A v \in 1..Len(files) : files'[v] = IF v = Len(files) THEN files[v] + 1 ELSE files[v]
    BY <2>1, KeepFacts
  <2>3. \A v \in 1..Len(files) : files[v] <= files'[v]
    BY <2>2, KeepFacts
  <2>4. files'[Len(files')] >= 1
    BY <2>2, KeepFacts
  <2>5. \A n \in 2..Len(files') : files'[n] >= 1
    BY <1>f, <2>2, KeepFacts
  <2>6. Len(files) <= Len(files')
    BY <2>2, KeepFacts
  <2>7. made \subseteq made'
    BY <2>1
  <2> QED  BY <2>1, <2>3, <2>4, <2>5, <2>6, <2>7, GrowingKeepsSound
<1>2. CASE Rewrite
  <2>1. PICK n \in 1..MaxLength : files' = Append(files, n)
    BY <1>2 DEF Rewrite
  <2>2. /\ Len(files') = Len(files) + 1 /\ files'[Len(files) + 1] = n /\ n \in Nat /\ n >= 1
        /\ \A v \in 1..Len(files) : files'[v] = files[v]
    BY <2>1, KeepFacts
  <2>3. UNCHANGED <<made, copy, kept, ing>>
    BY <1>2 DEF Rewrite
  <2>4. \A v \in 1..Len(files) : files[v] <= files'[v]
    BY <2>2, KeepFacts
  <2>5. \A m \in 2..Len(files') : files'[m] >= 1
    <3> SUFFICES ASSUME NEW m \in 2..Len(files') PROVE files'[m] >= 1
      OBVIOUS
    <3>1. CASE m = Len(files) + 1
      BY <2>2, <3>1
    <3>2. CASE m # Len(files) + 1
      BY <1>f, <2>2, <3>2, KeepFacts
    <3> QED  BY <3>1, <3>2
  <2>6. files'[Len(files')] >= 1
    BY <2>2
  <2>7. Len(files) <= Len(files')
    BY <2>2, KeepFacts
  <2> QED  BY <2>2, <2>3, <2>4, <2>5, <2>6, <2>7, GrowingKeepsSound
<1>3. CASE \E f \in Sidecars : WriteSidecar(f)
  <2>1. made \subseteq made' /\ UNCHANGED <<files, copy, kept, ing>>
    BY <1>3 DEF WriteSidecar
  <2>2. Len(files) <= Len(files') /\ \A v \in 1..Len(files) : files[v] <= files'[v]
    BY <2>1, KeepFacts
  <2> QED  BY <1>f, <2>1, <2>2, GrowingKeepsSound
<1> QED  BY <1>1, <1>2, <1>3

----------------------------------------------------------------------------
\* A step of ingest i, which leaves it with st; only who mirrors changes the copy.
LEMMA KeepMoves ==
  ASSUME KeepInv, HistInv', NEW i \in Ingests, NEW st \in IngestType,
         ing' = [ing EXCEPT ![i] = st], UNCHANGED <<files, made>>,
         copy' = copy \/ ing[i].pc \in Mirroring,
         \A f \in Sidecars : kept[f] # "absent" => kept'[f] # "absent",
         CopySound(files, copy'),
         KeepSound(st, files, copy', kept', made)
  PROVE  KeepInv'
<1>1. \A j \in Ingests : ing'[j] = IF j = i THEN st ELSE ing[j]
  BY DEF KeepInv, HistInv, HistTypeOK
<1>2. ASSUME NEW j \in Ingests \ {i} PROVE KeepSound(ing[j], files, copy', kept', made)
  <2>1. KeepSound(ing[j], files, copy, kept, made) /\ ing[j] \in IngestType
    BY KeepFacts DEF KeepInv
  <2>2. \A f \in ing[j].wantFiles : kept[f] # "absent" => kept'[f] # "absent"
    BY <2>1 DEF IngestType
  <2>3. CASE copy' = copy
    BY <2>1, <2>2, <2>3 DEF KeepSound
  <2>4. CASE ing[i].pc \in Mirroring
    <3>1. ing[j].pc \notin Mirroring
      BY <2>4, HistoryAssumption DEF KeepInv, HistInv, OneMirror
    <3> QED  BY <2>1, <3>1 DEF KeepSound, Mirroring
  <2> QED  BY <2>3, <2>4
<1> QED  BY <1>1, <1>2 DEF KeepInv

\* What is known of an ingest before it moves.
LEMMA KeepKnown ==
  ASSUME KeepInv, NEW i \in Ingests
  PROVE  /\ KeepSound(ing[i], files, copy, kept, made) /\ CopySound(files, copy)
         /\ ing[i] \in IngestType /\ ing \in [Ingests -> IngestType]
         /\ Current = Len(files) /\ Size = files[Len(files)] /\ Len(files) \in 1..Len(files)
         /\ Size \in 0..MaxLength
BY KeepFacts, HistoryAssumption DEF KeepInv, HistInv, HistTypeOK, IngestType, Current, Size

\* A step from one stage to another, with the copy left as it is.
LEMMA StageKeepsKeepInv ==
  ASSUME KeepInv, HistInv', NEW i \in Ingests, NEW pc \in Stages,
         Goto(i, pc), UNCHANGED <<files, made, copy>>,
         \A f \in Sidecars : kept[f] # "absent" => kept'[f] # "absent",
         \/ ing[i].pc = "lock" /\ pc \in {"stat", "stamp"}
         \/ ing[i].pc = "locate" /\ pc = "lock" /\ files[Len(files)] >= 1
         \/ ing[i].pc = "unlock" /\ pc = "stamp"
         \/ /\ ing[i].pc = "sidecars" /\ pc = "unlock"
            /\ \A f \in Sidecars : ~Missing(f)
  PROVE  KeepInv'
<1> DEFINE st == [ing[i] EXCEPT !.pc = pc]
<1>1. KeepSound(ing[i], files, copy, kept, made) /\ ing[i] \in IngestType /\ CopySound(files, copy)
  BY KeepKnown
<1>2. /\ st \in IngestType /\ st.pc = pc /\ st.wait = ing[i].wait /\ st.want = ing[i].want
      /\ st.wantFiles = ing[i].wantFiles
  BY <1>1 DEF IngestType
<1>3. ing' = [ing EXCEPT ![i] = st]
  BY DEF Goto
<1> HIDE DEF st
<1>4. pc = "unlock" /\ st.wait => \A f \in st.wantFiles : kept'[f] # "absent"
  BY <1>1, <1>2 DEF KeepSound, Missing, IngestType
<1>5. KeepSound(st, files, copy', kept', made)
  BY <1>1, <1>2, <1>4 DEF KeepSound, CopyCovers
<1> QED  BY <1>1, <1>2, <1>3, <1>5, KeepMoves

LEMMA BeginKeepsKeepInv ==
  ASSUME KeepInv, HistInv', NEW i \in Ingests, NEW wait \in BOOLEAN, NEW last \in BOOLEAN,
         Begin(i, wait, last)
  PROVE  KeepInv'
<1> DEFINE wanted == IF wait THEN <<Current, Size>> ELSE Idle.want
           wf == IF wait THEN made ELSE Idle.wantFiles
           st == [Idle EXCEPT !.pc = "locate", !.wait = wait, !.want = wanted, !.wantFiles = wf]
<1>1. made \subseteq Sidecars
  BY DEF KeepInv, HistInv, HistTypeOK
<1>2. wanted \in (1..MaxVersions) \X (0..MaxLength) /\ wf \in SUBSET Sidecars
  BY <1>1, KeepKnown, KeepFacts DEF IngestType
<1>3. ing' = [ing EXCEPT ![i] = st] /\ UNCHANGED <<files, made, copy, kept>>
  BY DEF Begin
<1>4. wait => wanted[1] = Len(files) /\ wanted[2] = files[Len(files)] /\ wf = made
  BY KeepKnown
<1> HIDE DEF wanted, wf
<1>5. /\ st \in IngestType /\ st.pc = "locate" /\ st.wait = wait /\ st.want = wanted
      /\ st.wantFiles = wf
  BY <1>2, KeepFacts DEF IngestType, Stages
<1> HIDE DEF st
<1>6. /\ Len(files) \in 1..Len(files) /\ files[Len(files)] <= files[Len(files)]
  BY KeepKnown, KeepFacts
<1>7. KeepSound(st, files, copy, kept, made)
  BY <1>4, <1>5, <1>6 DEF KeepSound
<1> QED  BY <1>3, <1>5, <1>7, KeepKnown, KeepMoves

LEMMA StatKeepsKeepInv ==
  ASSUME KeepInv, HistInv', NEW i \in Ingests, Stat(i)
  PROVE  KeepInv'
<1> DEFINE st == [ing[i] EXCEPT !.size = Size, !.pc = "check"]
           v == Len(files)
<1>1. KeepSound(ing[i], files, copy, kept, made) /\ CopySound(files, copy) /\ ing[i] \in IngestType
  BY KeepKnown
<1>2. /\ st \in IngestType /\ st.pc = "check" /\ st.wait = ing[i].wait /\ st.want = ing[i].want
      /\ st.wantFiles = ing[i].wantFiles /\ st.size = Size
  BY <1>1, KeepKnown DEF IngestType, Stages
<1>3. ing' = [ing EXCEPT ![i] = st] /\ UNCHANGED <<files, made, copy, kept>> /\ ing[i].pc = "stat"
  BY <1>1, KeepKnown DEF Stat, At
<1> HIDE DEF st
<1>4. v \in 1..Len(files) /\ Size = files[v] /\ Size >= 1 /\ Size \in Nat
  BY <1>1, <1>3, KeepKnown, KeepFacts DEF KeepSound
<1>5. st.size \in 1..files[v]
  BY <1>2, <1>4
<1>6. ASSUME copy # None
      PROVE  /\ \A n \in DOMAIN copy : copy[n] <= v
             /\ (\A n \in DOMAIN copy : copy[n] = v) => Len(copy) <= st.size
  <2>1. \A n \in DOMAIN copy : copy[n] <= v
    BY <1>1, <1>6 DEF CopySound
  <2>2. ASSUME \A n \in DOMAIN copy : copy[n] = v PROVE Len(copy) <= st.size
    <3>1. CASE copy = <<>>
      BY <1>2, <1>4, <3>1
    <3>2. CASE copy # <<>>
      <4>1. 1 \in DOMAIN copy
        BY <1>6, <3>2, KeepFacts
      <4>2. copy[1] = v /\ Len(copy) <= files[copy[1]]
        BY <1>1, <1>6, <2>2, <3>2, <4>1 DEF CopySound
      <4> QED  BY <1>2, <1>4, <4>2
    <3> QED  BY <3>1, <3>2
  <2> QED  BY <2>1, <2>2
<1>7. ASSUME st.wait PROVE st.want[1] < v \/ (st.want[1] = v /\ st.want[2] <= st.size)
  <2>1. ing[i].want[1] \in 1..v /\ ing[i].want[2] <= files[ing[i].want[1]]
    BY <1>1, <1>2, <1>7 DEF KeepSound
  <2>2. ing[i].want[1] \in Nat /\ v \in Nat
    BY KeepFacts
  <2>3. CASE ing[i].want[1] = v
    BY <1>2, <1>4, <2>1, <2>3
  <2>4. CASE ing[i].want[1] # v
    BY <1>2, <2>1, <2>2, <2>4
  <2> QED  BY <2>3, <2>4
<1>8. StatHolds(st, files, copy)
  <2> HIDE DEF v
  <2> QED  BY <1>4, <1>5, <1>6, <1>7 DEF StatHolds
<1>9. KeepSound(st, files, copy, kept, made)
  BY <1>1, <1>2, <1>4, <1>8 DEF KeepSound
<1> QED  BY <1>1, <1>2, <1>3, <1>9, KeepMoves

\* A copy that is a prefix of the transcript as it is, is of the version and not of more
\* than the size that was read.
LEMMA StatOfCurrent ==
  ASSUME KeepInv, NEW i \in Ingests, ing[i].pc = "check", copy # None, copy # <<>>,
         \A n \in DOMAIN copy : copy[n] = Current
  PROVE  /\ Len(copy) <= ing[i].size /\ ing[i].size <= Size
         /\ ing[i].wait => ing[i].want[1] < Current
                           \/ (ing[i].want[1] = Current /\ ing[i].want[2] <= ing[i].size)
<1>1. StatHolds(ing[i], files, copy)
  BY KeepKnown DEF KeepSound
<1>2. PICK v \in 1..Len(files) :
        /\ ing[i].size \in 1..files[v]
        /\ \A n \in DOMAIN copy : copy[n] <= v
        /\ (\A n \in DOMAIN copy : copy[n] = v) => Len(copy) <= ing[i].size
        /\ ing[i].wait => ing[i].want[1] < v \/ (ing[i].want[1] = v /\ ing[i].want[2] <= ing[i].size)
  BY <1>1 DEF StatHolds
<1>3. 1 \in DOMAIN copy
  BY KeepFacts
<1>4. v = Current
  <2>1. copy[1] = Len(files) /\ copy[1] <= v
    BY <1>2, <1>3, KeepKnown
  <2> QED  BY <1>2, <2>1, KeepFacts, KeepKnown
<1>5. ing[i].size <= Size
  BY <1>2, <1>4, KeepFacts, KeepKnown
<1> QED  BY <1>2, <1>4, <1>5

LEMMA CompareKeepsKeepInv ==
  ASSUME KeepInv, HistInv', NEW i \in Ingests, Compare(i)
  PROVE  KeepInv'
<1>k. /\ KeepSound(ing[i], files, copy, kept, made) /\ CopySound(files, copy)
      /\ ing[i] \in IngestType /\ ing[i].pc = "check" /\ UNCHANGED <<files, made, kept>>
      /\ Size \in Nat /\ Size >= 1 /\ Current = Len(files) /\ Len(files) \in 1..Len(files)
      /\ Size = files[Len(files)]
  BY KeepKnown, KeepFacts DEF Compare, At, KeepSound
<1>z. 0 \in 0..MaxLength
  BY KeepFacts
<1>1. CASE copy # None /\ Len(copy) <= ing[i].size /\ CopyIsPrefix
  <2> DEFINE pc == IF Len(copy) = ing[i].size THEN "sidecars" ELSE "open"
             st == [ing[i] EXCEPT !.pc = pc, !.size = 0]
  <2>1. ing' = [ing EXCEPT ![i] = st] /\ UNCHANGED copy
    BY <1>1, <1>k, KeepKnown DEF Compare
  <2>2. /\ st \in IngestType /\ st.pc = pc /\ st.wait = ing[i].wait /\ st.want = ing[i].want
        /\ st.wantFiles = ing[i].wantFiles
    <3>1. pc \in Stages
      BY DEF Stages
    <3> HIDE DEF pc
    <3> QED  BY <1>k, <1>z, <3>1 DEF IngestType
  <2> HIDE DEF st
  <2>3. ASSUME pc = "sidecars", st.wait PROVE CopyCovers(st, copy)
    <3>1. Len(copy) = ing[i].size /\ ing[i].size >= 1
      <4>1. ing[i].size \in Nat /\ StatHolds(ing[i], files, copy)
        BY <1>k, KeepFacts DEF KeepSound
      <4>2. ing[i].size >= 1
        BY <4>1, KeepFacts DEF StatHolds
      <4> QED  BY <2>3, <4>2
    <3>2. copy # <<>> /\ Len(copy) \in DOMAIN copy /\ 1 \in DOMAIN copy
      BY <1>1, <3>1, KeepFacts
    <3>3. \A n \in DOMAIN copy : copy[n] = Current
      <4>1. copy[Len(copy)] = Current
        <5>1. Window \in Nat /\ Window # 0 /\ Len(copy) \in Nat
          BY <1>1, KeepFacts, HistoryAssumption
        <5>2. Len(copy) > Len(copy) - Window
          BY <5>1
        <5> QED  BY <1>1, <3>2, <5>2 DEF CopyIsPrefix
      <4> QED  BY <1>1, <3>2, <4>1, KeepFacts
    <3>4. ing[i].want[1] < Current \/ (ing[i].want[1] = Current /\ ing[i].want[2] <= ing[i].size)
      BY <1>1, <1>k, <2>2, <2>3, <3>2, <3>3, StatOfCurrent
    <3>5. copy[1] = Current /\ ing[i].want[2] \in Nat /\ Len(copy) \in Nat
      BY <1>1, <3>2, <3>3, KeepFacts
    <3>6. ing[i].want[1] \in Nat /\ Current \in Nat
      BY <1>k, KeepFacts
    <3> QED  BY <1>1, <2>2, <3>1, <3>2, <3>4, <3>5, <3>6 DEF CopyCovers
  <2>4. KeepSound(st, files, copy, kept, made)
    BY <1>k, <2>2, <2>3 DEF KeepSound
  <2> QED  BY <1>k, <2>1, <2>2, <2>4, KeepMoves
<1>2. CASE ~(copy # None /\ Len(copy) <= ing[i].size /\ CopyIsPrefix)
  <2> DEFINE st == [ing[i] EXCEPT !.fd = Current, !.pc = "copy", !.size = 0]
  <2>1. ing' = [ing EXCEPT ![i] = st] /\ copy' = <<>>
    BY <1>2, <1>k, KeepKnown DEF Compare
  <2>2. /\ st \in IngestType /\ st.pc = "copy" /\ st.wait = ing[i].wait /\ st.want = ing[i].want
        /\ st.wantFiles = ing[i].wantFiles /\ st.fd = Current
    <3>1. Current \in 1..MaxVersions
      BY <1>k, KeepFacts
    <3>2. "copy" \in Stages
      BY DEF Stages
    <3> QED  BY <1>k, <1>z, <3>1, <3>2 DEF IngestType
  <2> HIDE DEF st
  <2>3. st.wait => st.want[1] <= st.fd
    BY <1>k, <2>2, KeepFacts DEF KeepSound
  <2>4. KeepSound(st, files, copy', kept, made)
    BY <1>k, <2>2, <2>3 DEF KeepSound
  <2>5. CopySound(files, copy')
    BY <1>k, <2>1 DEF CopySound
  <2> QED  BY <1>k, <2>1, <2>2, <2>4, <2>5, KeepMoves DEF Mirroring
<1> QED  BY <1>1, <1>2

LEMMA CopyKeepsKeepInv ==
  ASSUME KeepInv, HistInv', NEW i \in Ingests, OpenSource(i) \/ CopyBlock(i)
  PROVE  KeepInv'
<1>k. /\ KeepSound(ing[i], files, copy, kept, made) /\ CopySound(files, copy)
      /\ ing[i] \in IngestType /\ UNCHANGED <<files, made, kept>>
      /\ Current = Len(files) /\ Len(files) \in 1..Len(files) /\ Len(files) \in Nat
      /\ Current \in 1..MaxVersions /\ 1 \in 1..MaxVersions
      /\ ing[i].want[1] \in Nat /\ ing[i].want[2] \in Nat /\ ing[i].fd \in Nat
  BY KeepKnown, KeepFacts, HistoryAssumption DEF OpenSource, CopyBlock
<1>1. CASE OpenSource(i)
  <2> DEFINE st == [ing[i] EXCEPT !.fd = Current, !.pc = "copy"]
  <2>1. ing' = [ing EXCEPT ![i] = st] /\ UNCHANGED copy /\ ing[i].pc = "open"
    BY <1>1, <1>k, KeepKnown DEF OpenSource, At
  <2>2. /\ st \in IngestType /\ st.pc = "copy" /\ st.wait = ing[i].wait /\ st.want = ing[i].want
        /\ st.wantFiles = ing[i].wantFiles /\ st.fd = Current
    BY <1>k DEF IngestType, Stages
  <2> HIDE DEF st
  <2>3. st.wait => st.want[1] <= st.fd
    BY <1>k, <2>2 DEF KeepSound
  <2>4. KeepSound(st, files, copy, kept, made)
    BY <1>k, <2>1, <2>2, <2>3 DEF KeepSound
  <2> QED  BY <1>k, <2>1, <2>2, <2>4, KeepMoves
<1>2. CASE CopyBlock(i) /\ Len(copy) < files[ing[i].fd]
  <2>0. /\ ing[i].pc = "copy" /\ copy' = Append(copy, ing[i].fd) /\ UNCHANGED ing
    BY <1>2 DEF CopyBlock, At
  <2>1. /\ copy \in Seq(1..MaxVersions) /\ \A n \in DOMAIN copy : copy[n] = ing[i].fd
        /\ ing[i].fd \in 1..MaxVersions
    BY <1>k, <2>0 DEF KeepInv, HistInv, SameVersion, IngestType
  <2>2. ing[i].fd \in 1..Len(files) /\ files[ing[i].fd] \in Nat
    BY <1>k, <2>0, KeepFacts DEF KeepSound
  <2>3. /\ \A n \in DOMAIN copy' : copy'[n] = ing[i].fd
        /\ Len(copy') <= files[ing[i].fd] /\ 1 \in DOMAIN copy'
    BY <1>2, <2>0, <2>1, <2>2
  <2>4. CopySound(files, copy')
    BY <1>k, <2>2, <2>3 DEF CopySound
  <2>5. KeepSound(ing[i], files, copy', kept, made)
    BY <1>k, <2>0 DEF KeepSound
  <2>6. ing' = [ing EXCEPT ![i] = ing[i]]
    BY <2>0, KeepKnown
  <2> QED  BY <1>k, <2>0, <2>4, <2>5, <2>6, KeepMoves DEF Mirroring
<1>3. CASE CopyBlock(i) /\ ~(Len(copy) < files[ing[i].fd])
  <2> DEFINE st == [ing[i] EXCEPT !.pc = "sidecars", !.fd = 1]
  <2>0. /\ ing[i].pc = "copy" /\ ing' = [ing EXCEPT ![i] = st] /\ UNCHANGED copy
    BY <1>3, <1>k, KeepKnown DEF CopyBlock, At
  <2>1. /\ st \in IngestType /\ st.pc = "sidecars" /\ st.wait = ing[i].wait
        /\ st.want = ing[i].want /\ st.wantFiles = ing[i].wantFiles
    BY <1>k DEF IngestType, Stages
  <2> HIDE DEF st
  <2>2. copy \in Seq(1..MaxVersions) /\ \A n \in DOMAIN copy : copy[n] = ing[i].fd
    BY <1>k, <2>0 DEF KeepInv, HistInv, SameVersion
  <2>3. ing[i].fd \in 1..Len(files) /\ files[ing[i].fd] \in Nat /\ files[ing[i].fd] >= 1
    BY <1>k, <2>0, KeepFacts DEF KeepSound
  <2>4. Len(copy) >= files[ing[i].fd] /\ Len(copy) \in Nat /\ Len(copy) >= 1
    BY <1>3, <2>2, <2>3
  <2>5. copy # None /\ copy # <<>> /\ copy[1] = ing[i].fd
    <3>1. copy # None
      BY <2>2, HistoryAssumption
    <3> QED  BY <2>2, <2>4, <3>1
  <2>6. st.wait => CopyCovers(st, copy)
    <3> SUFFICES ASSUME st.wait PROVE CopyCovers(st, copy)
      OBVIOUS
    <3>1. ing[i].want[1] <= ing[i].fd /\ ing[i].want[2] <= files[ing[i].want[1]]
      BY <1>k, <2>0, <2>1 DEF KeepSound
    <3>2. CASE ing[i].want[1] = ing[i].fd
      BY <1>k, <2>1, <2>3, <2>4, <2>5, <3>1, <3>2 DEF CopyCovers
    <3>3. CASE ing[i].want[1] # ing[i].fd
      BY <1>k, <2>1, <2>5, <3>1, <3>3 DEF CopyCovers
    <3> QED  BY <3>2, <3>3
  <2>7. KeepSound(st, files, copy, kept, made)
    BY <1>k, <2>0, <2>1, <2>6 DEF KeepSound
  <2> QED  BY <1>k, <2>0, <2>1, <2>7, KeepMoves
<1> QED  BY <1>1, <1>2, <1>3

LEMMA IngestKeepsKeepInv ==
  ASSUME KeepInv, HistInv', NEW i \in Ingests,
         \/ \E wait, last \in BOOLEAN : Begin(i, wait, last)
         \/ IngestStep(i) \/ IngestDies(i)
  PROVE  KeepInv'
<1>k. /\ KeepSound(ing[i], files, copy, kept, made) /\ CopySound(files, copy)
      /\ ing[i] \in IngestType /\ ing \in [Ingests -> IngestType] /\ Idle \in IngestType
      /\ kept \in [Sidecars -> {"absent", "part", "whole"}]
  BY KeepKnown, KeepFacts DEF KeepInv, HistInv, HistTypeOK
\* An ingest that is idle has nothing to keep.
<1>i. \A kp : KeepSound(Idle, files, copy, kp, made)
  BY KeepFacts DEF KeepSound
<1>1. CASE Locate(i)
  <2>1. ing[i].pc = "locate" /\ UNCHANGED <<files, made, copy, kept>>
    BY <1>1 DEF Locate, At
  <2>2. CASE Size = 0 /\ Current = 1
    <3>1. ing' = [ing EXCEPT ![i] = Idle]
      BY <1>1, <2>2 DEF Locate, Finished
    <3> QED  BY <1>k, <1>i, <2>1, <3>1, KeepMoves
  <2>3. CASE ~(Size = 0 /\ Current = 1)
    <3>1. Goto(i, "lock")
      BY <1>1, <2>3 DEF Locate
    <3>2. files[Len(files)] >= 1
      <4>1. CASE Len(files) = 1
        BY <2>3, <4>1, KeepKnown, KeepFacts
      <4>2. CASE Len(files) # 1
        <5>1. Len(files) \in 2..Len(files)
          <6>1. Len(files) \in Nat /\ Len(files) \in 1..Len(files)
            BY KeepKnown, KeepFacts
          <6>2. \A n \in Nat : n \in 1..n /\ n # 1 => n \in 2..n
            OBVIOUS
          <6> QED  BY <4>2, <6>1, <6>2
        <5> QED  BY <1>k, <5>1 DEF CopySound
      <4> QED  BY <4>1, <4>2
    <3> QED  BY <2>1, <3>1, <3>2, StageKeepsKeepInv DEF Stages
  <2> QED  BY <2>2, <2>3
<1>2. CASE TakeLock(i)
  <2>1. ing[i].pc = "lock" /\ UNCHANGED <<files, made, copy, kept>>
    BY <1>2 DEF TakeLock, At
  <2>2. Goto(i, "stat") \/ Goto(i, "stamp")
    BY <1>2 DEF TakeLock
  <2> QED  BY <2>1, <2>2, StageKeepsKeepInv DEF Stages
<1>3. CASE CopySidecar(i)
  <2>0. ing[i].pc = "sidecars" /\ UNCHANGED <<files, made, copy>>
    BY <1>3 DEF CopySidecar, At
  <2>1. ASSUME NEW f \in Sidecars \cup {None}, ing' = [ing EXCEPT ![i].file = f],
               \A g \in Sidecars : kept[g] # "absent" => kept'[g] # "absent"
        PROVE  KeepInv'
    <3> DEFINE st == [ing[i] EXCEPT !.file = f]
    <3>1. /\ st \in IngestType /\ st.pc = "sidecars" /\ st.wait = ing[i].wait
          /\ st.want = ing[i].want /\ st.wantFiles = ing[i].wantFiles
      BY <1>k, <2>0 DEF IngestType
    <3>2. ing' = [ing EXCEPT ![i] = st]
      BY <1>k, <2>1
    <3> HIDE DEF st
    <3>3. KeepSound(st, files, copy, kept', made)
      BY <1>k, <2>0, <3>1 DEF KeepSound, CopyCovers
    <3> QED  BY <1>k, <2>0, <2>1, <3>1, <3>2, <3>3, KeepMoves
  <2>2. ASSUME NEW f \in Sidecars, kept' = [kept EXCEPT ![f] = "part"], ing' = [ing EXCEPT ![i].file = f]
        PROVE  KeepInv'
    <3>1. \A g \in Sidecars : kept[g] # "absent" => kept'[g] # "absent"
      BY <1>k, <2>2
    <3> QED  BY <2>1, <2>2, <3>1
  <2>3. ASSUME kept' = [kept EXCEPT ![ing[i].file] = "whole"], ing' = [ing EXCEPT ![i].file = None]
        PROVE  KeepInv'
    <3>1. \A g \in Sidecars : kept[g] # "absent" => kept'[g] # "absent"
      BY <1>k, <2>3
    <3> QED  BY <2>1, <2>3, <3>1
  <2>4. ASSUME Goto(i, "unlock"), UNCHANGED kept, \A f \in Sidecars : ~Missing(f)
        PROVE  KeepInv'
    BY <2>0, <2>4, StageKeepsKeepInv DEF Stages
  <2> QED  BY <1>3, <2>2, <2>3, <2>4 DEF CopySidecar
<1>4. CASE Unlock(i)
  <2>1. ing[i].pc = "unlock" /\ Goto(i, "stamp") /\ UNCHANGED <<files, made, copy, kept>>
    BY <1>4 DEF Unlock, At
  <2> QED  BY <2>1, StageKeepsKeepInv DEF Stages
<1>5. CASE Stamp(i) \/ IngestDies(i)
  <2>1. ing' = [ing EXCEPT ![i] = Idle] /\ UNCHANGED <<files, made, copy, kept>>
    BY <1>5 DEF Stamp, IngestDies, Finished
  <2> QED  BY <1>k, <1>i, <2>1, KeepMoves
<1> QED
  BY <1>1, <1>2, <1>3, <1>4, <1>5, BeginKeepsKeepInv, StatKeepsKeepInv, CompareKeepsKeepInv,
     CopyKeepsKeepInv DEF IngestStep

LEMMA HistNextKeepsInv == ASSUME SafeRewrites, HistInv, [HistNext]_hVars PROVE HistInv'
<1>1. CASE UNCHANGED hVars
  BY <1>1 DEF hVars, HistInv, HistTypeOK, OneMirror, LockNotLeaked, SameVersion, NeverSpliced,
              Current
<1>2. CASE HistNext
  BY <1>2, AgentKeepsInv, IngestKeepsInv DEF HistNext
<1> QED  BY <1>1, <1>2

LEMMA NextKeepsKeepInv == ASSUME SafeRewrites, KeepInv, [HistNext]_hVars PROVE KeepInv'
<1>1. HistInv'
  BY HistNextKeepsInv DEF KeepInv
<1>2. CASE UNCHANGED hVars
  BY <1>1, <1>2 DEF hVars, KeepInv
<1>3. CASE HistNext
  BY <1>1, <1>3, AgentKeepsKeepInv, IngestKeepsKeepInv DEF HistNext
<1> QED  BY <1>2, <1>3

\* The only step to the stamp of a forced ingest is the unlock of one that covers.
LEMMA StampIsCovered ==
  ASSUME KeepInv, HistNext, NEW i \in Ingests,
         ing[i].wait, ing[i].pc # "stamp", ing'[i].pc = "stamp"
  PROVE  Covers(i)
<1>k. /\ ing \in [Ingests -> IngestType] /\ ing[i] \in IngestType
      /\ KeepSound(ing[i], files, copy, kept, made)
  BY KeepKnown
<1>1. PICK j \in Ingests : \/ \E wait, last \in BOOLEAN : Begin(j, wait, last)
                           \/ IngestStep(j) \/ IngestDies(j)
  BY DEF HistNext, Grow, Rewrite, WriteSidecar
<1>2. j = i
  <2> SUFFICES ASSUME j # i PROVE ing'[i] = ing[i]
    BY DEF Covers
  <2>1. \E st : ing' = [ing EXCEPT ![j] = st] \/ ing' = ing
    BY <1>1, <1>k DEF Begin, IngestStep, IngestDies, Locate, TakeLock, Stat, Compare, OpenSource,
         CopyBlock, CopySidecar, Unlock, Stamp, Finished, Goto
  <2> QED  BY <1>k, <2>1
<1>3. ing[i].pc = "unlock"
  <2>1. Idle.pc = "idle"
    BY DEF Idle
  <2>2. ASSUME NEW wait \in BOOLEAN, NEW last \in BOOLEAN, Begin(i, wait, last) PROVE FALSE
    BY <1>k, <2>2, KeepFacts DEF Begin, IngestType
  <2>3. CASE Locate(i) \/ Stamp(i) \/ IngestDies(i)
    BY <1>k, <2>1, <2>3 DEF Locate, Stamp, IngestDies, Finished, Goto, IngestType
  <2>4. CASE TakeLock(i)
    BY <1>k, <2>4 DEF TakeLock, Goto, IngestType
  <2>5. CASE Stat(i) \/ OpenSource(i)
    BY <1>k, <2>5 DEF Stat, OpenSource, IngestType
  <2>6. CASE Compare(i)
    BY <1>k, <2>6 DEF Compare, IngestType
  <2>7. CASE CopyBlock(i)
    BY <1>k, <2>7 DEF CopyBlock, IngestType
  <2>8. CASE CopySidecar(i)
    BY <1>k, <2>8 DEF CopySidecar, Goto, At, IngestType
  <2>9. CASE Unlock(i)
    BY <2>9 DEF Unlock, At
  <2> QED  BY <1>1, <1>2, <2>2, <2>3, <2>4, <2>5, <2>6, <2>7, <2>8, <2>9 DEF IngestStep
<1> QED  BY <1>k, <1>3 DEF Covers, KeepSound, CopyCovers

\* The only step that makes the copy shorter is a comparison with a source it is no
\* prefix of.
LEMMA RecopyIsNeeded ==
  ASSUME KeepInv, HistNext, copy # None, Len(copy') < Len(copy)
  PROVE  \E n \in DOMAIN copy : copy[n] # Current
<1>k. copy \in Seq(1..MaxVersions) /\ Len(copy) \in Nat /\ DOMAIN copy = 1..Len(copy)
  BY KeepFacts
<1>1. PICK i \in Ingests : Compare(i)
  <2>1. copy' # copy
    BY <1>k
  <2>2. ASSUME NEW i \in Ingests, CopyBlock(i) PROVE FALSE
    <3>1. copy' = Append(copy, ing[i].fd) /\ ing[i].pc = "copy"
      BY <2>1, <2>2 DEF CopyBlock, At
    <3>2. ing[i].fd \in 1..MaxVersions
      BY KeepKnown DEF IngestType
    <3>3. Len(copy') = Len(copy) + 1
      BY <1>k, <3>1, <3>2
    <3> QED  BY <1>k, <3>3
  <2> QED  BY <2>1, <2>2 DEF HistNext, Grow, Rewrite, WriteSidecar, Begin, IngestStep, IngestDies,
              Locate, TakeLock, Stat, OpenSource, CopySidecar, Unlock, Stamp
<1>2. SUFFICES ASSUME \A n \in DOMAIN copy : copy[n] = Current PROVE FALSE
  OBVIOUS
<1>3. copy # <<>> /\ ing[i].pc = "check"
  <2>1. Len(copy) # 0
    <3>1. copy' = copy \/ copy' = <<>>
      BY <1>1 DEF Compare
    <3> QED  BY <1>k, <3>1
  <2> QED  BY <1>k, <1>1, <2>1 DEF Compare, At
<1>4. Len(copy) <= ing[i].size /\ ing[i].size <= Size
  BY <1>2, <1>3, StatOfCurrent
<1>5. Len(copy) <= Size
  BY <1>k, <1>4, KeepKnown, KeepFacts
<1>6. CopyIsPrefix
  BY <1>2, <1>5 DEF CopyIsPrefix
<1>7. copy' = copy
  BY <1>1, <1>4, <1>6 DEF Compare
<1> QED  BY <1>k, <1>7

\* As long as no rewrite falls between a prefix test and its append, a forced mirror
\* that ends holds all that was on disk when it began, or a later version of it, and
\* what has been mirrored is thrown away only when its source was rewritten
\* (history.py:12-20).
THEOREM MirrorsHoldWhatWasThere == ASSUME SafeRewrites PROVE HistSpec => MirrorsKeepUp
<1>1. KeepInv /\ [HistNext]_hVars =>
        [\A i \in Ingests :
           ing[i].wait /\ ing[i].pc # "stamp" /\ ing'[i].pc = "stamp" => Covers(i)]_hVars
  BY StampIsCovered
<1>2. KeepInv /\ [HistNext]_hVars =>
        [copy # None /\ Len(copy') < Len(copy) =>
           \E n \in DOMAIN copy : copy[n] # Current]_hVars
  BY RecopyIsNeeded
<1> QED  BY <1>1, <1>2, InitKeepInv, NextKeepsKeepInv, PTL
     DEF HistSpec, MirrorsKeepUp, ForcedMirrorCompletes, NoNeedlessRecopy

----------------------------------------------------------------------------
(***************************************************************************)
(* The instance.  A step is of one component and leaves the others alone,   *)
(* so that each keeps its own invariant, and with it its types.             *)
(***************************************************************************)

\* For chains of any length, any number of checkouts, workers and ingests: every variable
\* of the sides of a launch keeps its type, a derived command has no shell control in it,
\* and a mirror is of versions of the transcript that were.
THEOREM CommandsTyping ==
  ASSUME ~OddForms, OneAtATime, ~ResumesElsewhere, SafeRewrites
  PROVE  Spec => []TypeOK
<1> DEFINE Inv == LaunchInv /\ GrantInv /\ BoxInv /\ HistInv
<1>1. Init => Inv
  <2>1. BoxInit => BoxInv
    BY DEF BoxInit, BoxInv
  <2> QED  BY <2>1, InitHolds, InitGrantInv, InitHistInv DEF Init
<1>2. [Next]_vars => [LaunchNext]_lcVars /\ [GrantNext]_gVars /\ [BoxNext]_boxVars /\ [HistNext]_hVars
  BY DEF Next, vars
<1>3. Inv /\ [Next]_vars => Inv'
  BY <1>2, StepHolds, GrantNextInv, BoxNextInv, HistNextKeepsInv
<1>4. Inv => TypeOK
  BY TypesAreInvariant, GrantInvImplies, BoxInvImplies DEF TypeOK, HistInv
<1> QED  BY <1>1, <1>3, <1>4, PTL DEF Spec
=============================================================================
