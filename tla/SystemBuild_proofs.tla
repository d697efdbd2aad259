-------------------------- MODULE SystemBuild_proofs --------------------------
(* Proofs about what is built of a configuration, for any configuration, any
   formula and any samples: the parser and the calculation order are recursive
   functions that terminate, the parser answers with nodes of the formula it was
   given and the order holds the ids of calculated signals only, and the assembler
   puts the sample of every channel where the signal of that channel reads it.  The
   parser accepts exactly the formulas that have a meaning, which is one, and the
   evaluator calculates it.

   The library's folds and the two recursive functions are functions over
   themselves, chosen among those that satisfy their equation: what they are can
   only be said once such a function exists.  FoldsExist and the lemmas made from it
   say so of every fold, by the number of what is folded; ParseExists says so of the
   parser, by what is left of the formula and the depth of its rules; VisitExists
   says so of the order, by the signals that are not yet marked.                 *)
EXTENDS SystemBuild, TLAPS, WellFoundedInduction, FiniteSetTheorems, SequenceTheorems

-----------------------------------------------------------------------------
(* Induction over naturals, and folds. *)

\* A set of naturals that has 0 and every successor has all.
LEMMA AllNaturals ==
  ASSUME NEW S, 0 \in S, \A n \in Nat : n \in S => n + 1 \in S
  PROVE  Nat \subseteq S
<1> SUFFICES ASSUME Nat \ S # {} PROVE FALSE
  OBVIOUS
<1> DEFINE R == OpToRel(<, Nat)
<1>1. IsWellFoundedOn(R, Nat)
  BY NatLessThanWellFounded
<1>2. PICK x \in Nat \ S : \A y \in Nat \ S : ~ (<<y, x>> \in R)
  <2> HIDE DEF R
  <2>1. Nat \ S \subseteq Nat
    OBVIOUS
  <2> QED BY <1>1, <2>1, WFMin
<1>3. \A y \in Nat : y < x => y \in S
  BY <1>2 DEF OpToRel
<1>4. x # 0 /\ x - 1 \in Nat /\ x - 1 \in S
  <2>1. x # 0
    BY <1>2
  <2> QED
    BY <1>3, <2>1
<1> QED
  BY <1>4

\* Greatest index.
LEMMA LastOfPrefix ==
  ASSUME NEW n \in Nat \ {0}
  PROVE  Max(1..n) = n /\ 1..n # {} /\ (1..n) \ {n} = 1..(n - 1)
<1>1. Max(1..n) = n
  BY DEF Max
<1> QED
  BY <1>1

\* Folding a function of what was folded so far and of an index.
FoldsBy(g, n, base, F) ==
  g = [s \in SUBSET (1..n) |->
         IF s = {} THEN base ELSE F[<<g[s \ {Max(s)}], Max(s)>>]]

LEMMA MaxIsThere ==
  ASSUME NEW n \in Nat, NEW s \in SUBSET (1..n), s # {}
  PROVE  Max(s) \in s /\ \A y \in s : Max(s) >= y
<1> DEFINE HasGreatest(t) == \E x \in t : \A y \in t : x >= y
           P(m) == \A t \in SUBSET (1..m) : t # {} => HasGreatest(t)
           S == {m \in Nat : P(m)}
<1>1. 0 \in S
  <2>1. 1..0 = {}
    OBVIOUS
  <2> HIDE DEF HasGreatest
  <2> QED
    BY <2>1
<1>2. \A m \in Nat : m \in S => m + 1 \in S
  <2> SUFFICES ASSUME NEW m \in Nat, P(m) PROVE P(m + 1)
    <3> HIDE DEF P
    <3> QED
      OBVIOUS
  <2> SUFFICES ASSUME NEW t \in SUBSET (1..(m + 1)), t # {} PROVE HasGreatest(t)
    OBVIOUS
  <2>1. CASE m + 1 \in t
    BY <2>1
  <2>2. CASE m + 1 \notin t
    <3>1. t \in SUBSET (1..m)
      BY <2>2
    <3> QED
      BY <3>1
  <2> QED
    BY <2>1, <2>2
<1> HIDE DEF S
<1>3. n \in S
  BY <1>1, <1>2, AllNaturals
<1>4. HasGreatest(s)
  BY <1>3 DEF S
<1> QED
  BY <1>4 DEF Max

LEMMA FoldsExist ==
  ASSUME NEW N \in Nat, NEW X, NEW base \in X, NEW F \in [X \X (1..N) -> X]
  PROVE  \E g \in [SUBSET (1..N) -> X] : FoldsBy(g, N, base, F)
<1> DEFINE E(n) == \E g \in [SUBSET (1..n) -> X] : FoldsBy(g, n, base, F)
           S == {n \in Nat : n <= N => E(n)}
<1>1. 0 \in S
  <2> DEFINE g == [s \in SUBSET (1..0) |-> base]
  <2>1. \A s \in SUBSET (1..0) : s = {}
    OBVIOUS
  <2>2. FoldsBy(g, 0, base, F)
    BY <2>1 DEF FoldsBy
  <2> QED
    BY <2>2
<1>2. \A n \in Nat : n \in S => n + 1 \in S
  <2> SUFFICES ASSUME NEW n \in Nat, n + 1 <= N, E(n)
               PROVE  E(n + 1)
    <3> HIDE DEF E
    <3>1. \A n \in Nat : n + 1 <= N => n <= N
      OBVIOUS
    <3> QED
      BY <3>1
  <2>1. PICK g \in [SUBSET (1..n) -> X] : FoldsBy(g, n, base, F)
    OBVIOUS
  <2> DEFINE m == n + 1
             T == SUBSET (1..m)
             h == [s \in T |-> IF m \in s THEN F[<<g[s \ {m}], m>>] ELSE g[s]]
  <2>2. \A s \in T : IF m \in s THEN s \ {m} \in SUBSET (1..n) ELSE s \in SUBSET (1..n)
    OBVIOUS
  <2>3. h \in [T -> X]
    <3>1. \A s \in T : m \in s => F[<<g[s \ {m}], m>>] \in X
      BY <2>2
    <3>2. \A s \in T : m \notin s => g[s] \in X
      BY <2>2
    <3> QED
      BY <3>1, <3>2
  <2>4. \A s \in T : h[s] = IF s = {} THEN base ELSE F[<<h[s \ {Max(s)}], Max(s)>>]
    <3> TAKE s \in T
    <3>1. CASE m \in s
      <4>1. Max(s) = m
        <5>1. m \in Nat /\ s \in SUBSET (1..m) /\ s # {}
          BY <3>1
        <5>2. Max(s) \in s /\ \A y \in s : Max(s) >= y
          <6> HIDE DEF m
          <6> QED
            BY <5>1, MaxIsThere
        <5>3. Max(s) \in 1..m /\ Max(s) >= m
          BY <3>1, <5>1, <5>2
        <5> QED
          BY <5>1, <5>3
      <4>2. s \ {m} \in T /\ m \notin s \ {m}
        OBVIOUS
      <4>3. h[s \ {m}] = g[s \ {m}] /\ h[s] = F[<<g[s \ {m}], m>>]
        BY <3>1, <4>2
      <4> HIDE DEF h, m
      <4> QED
        BY <3>1, <4>1, <4>3
    <3>2. CASE m \notin s
      <4>1. s \in SUBSET (1..n) /\ s \ {Max(s)} \in SUBSET (1..n)
        BY <2>2, <3>2
      <4>2. h[s] = g[s]
        BY <3>2
      <4>3. h[s \ {Max(s)}] = g[s \ {Max(s)}]
        <5>1. s \ {Max(s)} \in T /\ m \notin s \ {Max(s)}
          BY <3>2
        <5> QED
          BY <5>1
      <4>4. g[s] = IF s = {} THEN base ELSE F[<<g[s \ {Max(s)}], Max(s)>>]
        BY <2>1, <4>1 DEF FoldsBy
      <4> HIDE DEF h, T, m
      <4> QED
        BY <4>2, <4>3, <4>4
    <3> QED
      BY <3>1, <3>2
  <2> HIDE DEF h
  <2>5. FoldsBy(h, m, base, F)
    BY <2>3, <2>4 DEF FoldsBy
  <2> QED
    BY <2>3, <2>5
<1> HIDE DEF S
<1>3. N \in S
  BY <1>1, <1>2, AllNaturals
<1> HIDE DEF E
<1>4. N <= N
  OBVIOUS
<1> QED
  <2>1. E(N)
    BY <1>3, <1>4 DEF S
  <2> QED
    BY <2>1 DEF E

-----------------------------------------------------------------------------
(* The parser. *)

\* The nodes of a tree, and what a method of the parser returns.
Texts(ts) == {TokenAt(ts, i) : i \in Nat} \cup {"", "negate", "number", "signal", "call"}
Nodes(ts) == [op : Texts(ts), at : Texts(ts), operands : Nat]
Results(ts) == [nodes : Seq(Nodes(ts)), next : Nat, count : Nat]

\* Results that stopped at a token or after it.
Reach(ts, results, n) ==
  results \subseteq Results(ts) /\ \A r \in results : r.next >= n

\* A method reads a token at least; one that repeats may read none.
After(rule, i) == IF rule \in {"terms", "factors"} THEN i ELSE i + 1
Answer(ts, results, rule, i) ==
  /\ Reach(ts, results, After(rule, i))
  /\ rule \notin {"terms", "factors"} /\ i > Len(ts) => results = {}

\* How far a call is from the end: the tokens left, and the methods below it.
Below(rule) ==
  CASE rule = "arguments" -> 4 [] rule = "expression" -> 3 [] rule = "term" -> 2
    [] rule = "unary" -> 1 [] rule \in {"terms", "factors", "primary"} -> 0
Left(ts, i) == IF i <= Len(ts) THEN Len(ts) + 1 - i ELSE 0
Weight(ts, rule, i) == 5 * Left(ts, i) + Below(rule)

\* What is known of the calls a call makes.
Answers(ts, g, w) ==
  \A rule \in Rules, i \in Nat : Weight(ts, rule, i) < w => Answer(ts, g[<<rule, i>>], rule, i)
Agree(g, h, ts, w) ==
  \A rule \in Rules, i \in Nat : Weight(ts, rule, i) < w => g[<<rule, i>>] = h[<<rule, i>>]

LEMMA Tokens ==
  ASSUME NEW ts, Len(ts) \in Nat, NEW i \in Nat
  PROVE  /\ TokenAt(ts, i) \in Texts(ts)
         /\ {"", "negate", "number", "signal", "call"} \subseteq Texts(ts)
         /\ i > Len(ts) => TokenAt(ts, i) = "end"
<1>1. TokenAt(ts, i) \in Texts(ts)
  BY DEF Texts
<1>2. {"", "negate", "number", "signal", "call"} \subseteq Texts(ts)
  BY DEF Texts
<1>3. i > Len(ts) => TokenAt(ts, i) = "end"
  BY DEF TokenAt
<1> QED
  BY <1>1, <1>2, <1>3

LEMMA SmallerWeight ==
  ASSUME NEW ts, Len(ts) \in Nat, NEW rule \in Rules, NEW i \in Nat,
         NEW other \in Rules, NEW j \in Nat
  PROVE  /\ Weight(ts, rule, i) \in Nat
         /\ j > i /\ i <= Len(ts) => Weight(ts, other, j) < Weight(ts, rule, i)
         /\ j = i /\ Below(other) < Below(rule) => Weight(ts, other, j) < Weight(ts, rule, i)
<1>1. Below(rule) \in 0..4 /\ Below(other) \in 0..4
  BY DEF Below, Rules
<1>2. Left(ts, i) \in Nat /\ Left(ts, j) \in Nat
  BY DEF Left
<1>3. j > i /\ i <= Len(ts) => Left(ts, j) + 1 <= Left(ts, i)
  BY DEF Left
<1>4. /\ Weight(ts, rule, i) = 5 * Left(ts, i) + Below(rule)
      /\ Weight(ts, other, j) = 5 * Left(ts, j) + Below(other)
  BY DEF Weight
<1>5. \A x, y \in Nat : \A a, b \in 0..4 :
        /\ 5 * x + a \in Nat
        /\ y + 1 <= x => 5 * y + b < 5 * x + a
        /\ y = x /\ b < a => 5 * y + b < 5 * x + a
  OBVIOUS
<1> HIDE DEF Weight, Below, Left
<1> QED
  BY <1>1, <1>2, <1>3, <1>4, <1>5

\* Where results come to.
LEMMA MadeReaches ==
  ASSUME NEW ts, NEW nodes \in Seq(Nodes(ts)), NEW n \in Nat
  PROVE  Reach(ts, Made(nodes, n), n)
BY DEF Made, Results, Reach

LEMMA FewerReach ==
  ASSUME NEW ts, NEW results, NEW n, Reach(ts, results, n), NEW fewer \in SUBSET results
  PROVE  Reach(ts, fewer, n)
BY DEF Reach

LEMMA EarlierReach ==
  ASSUME NEW ts, NEW results, NEW n \in Nat, NEW m \in Nat, m <= n, Reach(ts, results, n)
  PROVE  Reach(ts, results, m)
BY DEF Reach, Results

LEMMA SkippedReaches ==
  ASSUME NEW ts, NEW results, NEW n \in Nat, Reach(ts, results, n), NEW k \in Nat
  PROVE  Reach(ts, Skipped(results, k), n)
<1> SUFFICES ASSUME NEW r \in results, NEW q, q = [r EXCEPT !.next = @ + k]
             PROVE  q \in Results(ts) /\ q.next >= n
  BY DEF Skipped, Reach
<1>1. r \in Results(ts) /\ r.next >= n
  BY DEF Reach
<1> QED
  BY <1>1 DEF Results

LEMMA ClosedReaches ==
  ASSUME NEW ts, NEW results, NEW n \in Nat, Reach(ts, results, n)
  PROVE  Reach(ts, Closed(results, ts), n)
<1> DEFINE closed == {r \in results : TokenAt(ts, r.next) = ")"}
<1>1. Reach(ts, closed, n)
  BY FewerReach
<1> HIDE DEF closed
<1>2. Reach(ts, Skipped(closed, 1), n)
  BY <1>1, SkippedReaches
<1> QED
  BY <1>2 DEF Closed, closed

LEMMA WithNodeReaches ==
  ASSUME NEW ts, NEW results, NEW n, Reach(ts, results, n),
         NEW op \in Texts(ts), NEW at \in Texts(ts), NEW operands \in Nat
  PROVE  Reach(ts, WithNode(results, op, at, operands), n)
<1>1. Node(op, at, operands) \in Nodes(ts)
  BY DEF Node, Nodes
<1> SUFFICES ASSUME NEW r \in results, NEW q,
                    q = [r EXCEPT !.nodes = Append(@, Node(op, at, operands))]
             PROVE  q \in Results(ts) /\ q.next >= n
  BY DEF WithNode, Reach
<1>2. r \in Results(ts) /\ r.next >= n
  BY DEF Reach
<1>3. Append(r.nodes, Node(op, at, operands)) \in Seq(Nodes(ts))
  BY <1>1, <1>2 DEF Results
<1> QED
  BY <1>2, <1>3 DEF Results

\* A rule that goes on.
LEMMA FollowedReaches ==
  ASSUME NEW ts, NEW results, results \subseteq Results(ts), NEW parse, NEW rule, NEW n,
         \A a \in results : Reach(ts, parse[<<rule, a.next>>], n)
  PROVE  Reach(ts, Followed(results, parse, rule), n)
<1> SUFFICES ASSUME NEW a \in results, NEW b \in parse[<<rule, a.next>>], NEW q,
                    q = [b EXCEPT !.nodes = a.nodes \o @]
             PROVE  q \in Results(ts) /\ q.next >= n
  BY DEF Followed, Reach
<1>1. a \in Results(ts) /\ b \in Results(ts) /\ b.next >= n
  BY DEF Reach
<1>2. a.nodes \o b.nodes \in Seq(Nodes(ts))
  BY <1>1 DEF Results
<1> QED
  BY <1>1, <1>2 DEF Results

LEMMA FollowedAgrees ==
  ASSUME NEW results, NEW g, NEW h, NEW rule,
         \A a \in results : g[<<rule, a.next>>] = h[<<rule, a.next>>]
  PROVE  Followed(results, g, rule) = Followed(results, h, rule)
BY DEF Followed

\* An answer of a call that is closer to the end.
LEMMA AnswerOf ==
  ASSUME NEW ts, NEW g, NEW h, NEW w, Answers(ts, g, w), Agree(g, h, ts, w),
         NEW rule \in Rules, NEW i \in Nat, Weight(ts, rule, i) < w
  PROVE  Answer(ts, g[<<rule, i>>], rule, i) /\ g[<<rule, i>>] = h[<<rule, i>>]
BY DEF Answers, Agree

\* First one rule, and then another where it stopped.
LEMMA FirstThen ==
  ASSUME NEW ts, Len(ts) \in Nat, NEW g, NEW h, NEW w, Answers(ts, g, w), Agree(g, h, ts, w),
         NEW i \in Nat, NEW first \in Rules \ {"terms", "factors"}, NEW rest \in {"terms", "factors"},
         Weight(ts, first, i) < w, i <= Len(ts) => \A j \in Nat : j > i => Weight(ts, rest, j) < w
  PROVE  /\ Reach(ts, Followed(g[<<first, i>>], g, rest), i + 1)
         /\ i > Len(ts) => Followed(g[<<first, i>>], g, rest) = {}
         /\ Followed(g[<<first, i>>], g, rest) = Followed(h[<<first, i>>], h, rest)
<1> DEFINE results == g[<<first, i>>]
<1>1. Answer(ts, results, first, i) /\ results = h[<<first, i>>]
  BY AnswerOf
<1> HIDE DEF results
<1>2. Reach(ts, results, i + 1) /\ (i > Len(ts) => results = {})
  BY <1>1 DEF Answer, After
<1>3. /\ results \subseteq Results(ts)
      /\ \A a \in results : a.next \in Nat /\ a.next > i /\ i <= Len(ts)
  BY <1>2 DEF Reach, Results
<1>4. \A a \in results : /\ Reach(ts, g[<<rest, a.next>>], i + 1)
                         /\ g[<<rest, a.next>>] = h[<<rest, a.next>>]
  <2> TAKE a \in results
  <2>1. rest \in Rules /\ a.next \in Nat /\ Weight(ts, rest, a.next) < w
    BY <1>3 DEF Rules
  <2>2. Answer(ts, g[<<rest, a.next>>], rest, a.next) /\ g[<<rest, a.next>>] = h[<<rest, a.next>>]
    BY <2>1, AnswerOf
  <2>3. Reach(ts, g[<<rest, a.next>>], a.next)
    BY <2>2 DEF Answer, After
  <2>4. i + 1 \in Nat /\ i + 1 <= a.next
    BY <1>3
  <2> QED
    BY <2>1, <2>2, <2>3, <2>4, EarlierReach
<1>5. Reach(ts, Followed(results, g, rest), i + 1)
  BY <1>3, <1>4, FollowedReaches
<1>6. Followed(results, g, rest) = Followed(results, h, rest)
  BY <1>4, FollowedAgrees
<1>7. i > Len(ts) => Followed(results, g, rest) = {}
  BY <1>2 DEF Followed
<1> QED
  BY <1>1, <1>5, <1>6, <1>7 DEF results

LEMMA RepeatedOwes ==
  ASSUME NEW ts, Len(ts) \in Nat, NEW g, NEW h, NEW i \in Nat,
         NEW operand \in {"term", "unary"}, NEW rule \in {"terms", "factors"}, NEW ops,
         "end" \notin ops,
         Answers(ts, g, Weight(ts, rule, i)), Agree(g, h, ts, Weight(ts, rule, i))
  PROVE  /\ Reach(ts, Repeated(ts, i, g, ops, operand, rule), i)
         /\ Repeated(ts, i, g, ops, operand, rule) = Repeated(ts, i, h, ops, operand, rule)
<1> DEFINE w == Weight(ts, rule, i)
<1>0. rule \in Rules /\ operand \in Rules /\ i + 1 \in Nat /\ operand \notin {"terms", "factors"}
  BY DEF Rules
<1>1. CASE TokenAt(ts, i) \notin ops
  <2>1. <<>> \in Seq(Nodes(ts))
    OBVIOUS
  <2>2. Reach(ts, Made(<<>>, i), i)
    BY <2>1, MadeReaches
  <2>3. \A f : Repeated(ts, i, f, ops, operand, rule) = Made(<<>>, i)
    BY <1>1 DEF Repeated
  <2> QED
    BY <2>2, <2>3
<1>2. CASE TokenAt(ts, i) \in ops
  <2>1. i <= Len(ts)
    <3>1. i > Len(ts) => TokenAt(ts, i) = "end"
      BY Tokens
    <3> QED
      BY <1>2, <3>1
  <2>2. \A other \in Rules, j \in Nat : j > i => Weight(ts, other, j) < w
    BY <1>0, <2>1, SmallerWeight
  <2> DEFINE text == TokenAt(ts, i)
             read == g[<<operand, i + 1>>]
             made == WithNode(read, text, "", 2)
  <2>3. /\ Answer(ts, read, operand, i + 1) /\ read = h[<<operand, i + 1>>]
    <3>1. i + 1 > i
      OBVIOUS
    <3>2. Weight(ts, operand, i + 1) < w
      BY <1>0, <2>2, <3>1
    <3> QED
      BY <1>0, <3>2, AnswerOf
  <2>4. text \in Texts(ts) /\ "" \in Texts(ts)
    BY Tokens
  <2>5. Reach(ts, read, i + 2)
    BY <1>0, <2>3 DEF Answer, After
  <2> HIDE DEF text, read
  <2>6. Reach(ts, made, i + 2)
    BY <2>4, <2>5, WithNodeReaches
  <2> HIDE DEF made
  <2>7. made \subseteq Results(ts) /\ \A a \in made : a.next \in Nat /\ a.next > i
    BY <2>6 DEF Reach, Results
  <2>8. \A a \in made : /\ Reach(ts, g[<<rule, a.next>>], i)
                        /\ g[<<rule, a.next>>] = h[<<rule, a.next>>]
    <3> TAKE a \in made
    <3>1. Weight(ts, rule, a.next) < w /\ a.next \in Nat
      BY <1>0, <2>2, <2>7
    <3>2. Answer(ts, g[<<rule, a.next>>], rule, a.next) /\ g[<<rule, a.next>>] = h[<<rule, a.next>>]
      BY <1>0, <3>1, AnswerOf
    <3>3. Reach(ts, g[<<rule, a.next>>], a.next)
      BY <3>2 DEF Answer, After
    <3>4. i <= a.next
      BY <2>7
    <3> QED
      BY <3>1, <3>2, <3>3, <3>4, EarlierReach
  <2>9. Reach(ts, Followed(made, g, rule), i)
    BY <2>7, <2>8, FollowedReaches
  <2>10. Followed(made, g, rule) = Followed(made, h, rule)
    BY <2>8, FollowedAgrees
  <2>11. /\ Repeated(ts, i, g, ops, operand, rule) = Followed(made, g, rule)
         /\ Repeated(ts, i, h, ops, operand, rule) = Followed(made, h, rule)
    BY <1>2, <2>3 DEF Repeated, made, text, read
  <2> QED
    BY <2>9, <2>10, <2>11
<1> QED
  BY <1>1, <1>2

LEMMA UnaryOwes ==
  ASSUME NEW ts, Len(ts) \in Nat, NEW g, NEW h, NEW i \in Nat,
         Answers(ts, g, Weight(ts, "unary", i)), Agree(g, h, ts, Weight(ts, "unary", i))
  PROVE  Answer(ts, Unary(ts, i, g), "unary", i) /\ Unary(ts, i, g) = Unary(ts, i, h)
<1> DEFINE w == Weight(ts, "unary", i)
<1>0. {"unary", "primary"} \subseteq Rules /\ i + 1 \in Nat /\ i + 1 > i
  BY DEF Rules
<1>1. CASE TokenAt(ts, i) \in {"+", "-"}
  <2>1. i <= Len(ts)
    <3>1. i > Len(ts) => TokenAt(ts, i) = "end"
      BY Tokens
    <3> QED
      BY <1>1, <3>1
  <2>2. Weight(ts, "unary", i + 1) < w
    BY <1>0, <2>1, SmallerWeight
  <2> DEFINE read == g[<<"unary", i + 1>>]
  <2>3. Answer(ts, read, "unary", i + 1) /\ read = h[<<"unary", i + 1>>]
    BY <1>0, <2>2, AnswerOf
  <2>4. Reach(ts, read, i + 1)
    <3>1. Reach(ts, read, i + 2)
      BY <2>3 DEF Answer, After
    <3>2. i + 2 \in Nat /\ i + 1 <= i + 2
      OBVIOUS
    <3> HIDE DEF read
    <3> QED
      BY <1>0, <3>1, <3>2, EarlierReach
  <2> HIDE DEF read
  <2>5. Reach(ts, WithNode(read, "negate", "", 1), i + 1)
    <3>1. "negate" \in Texts(ts) /\ "" \in Texts(ts) /\ 1 \in Nat
      BY Tokens
    <3> QED
      BY <2>4, <3>1, WithNodeReaches
  <2>6. \/ Unary(ts, i, g) = read /\ Unary(ts, i, h) = read
        \/ /\ Unary(ts, i, g) = WithNode(read, "negate", "", 1)
           /\ Unary(ts, i, h) = WithNode(read, "negate", "", 1)
    BY <1>1, <2>3 DEF Unary, read
  <2>7. Unary(ts, i, g) = Unary(ts, i, h) /\ Reach(ts, Unary(ts, i, g), i + 1)
    BY <2>4, <2>5, <2>6
  <2>8. ~(i > Len(ts)) /\ After("unary", i) = i + 1
    BY <2>1 DEF After
  <2> HIDE DEF Unary
  <2> QED
    BY <2>7, <2>8 DEF Answer
<1>2. CASE TokenAt(ts, i) \notin {"+", "-"}
  <2>1. Below("primary") < Below("unary")
    BY DEF Below
  <2>2. Weight(ts, "primary", i) < w
    BY <1>0, <2>1, SmallerWeight
  <2>3. Answer(ts, g[<<"primary", i>>], "primary", i) /\ g[<<"primary", i>>] = h[<<"primary", i>>]
    BY <1>0, <2>2, AnswerOf
  <2>4. Unary(ts, i, g) = g[<<"primary", i>>] /\ Unary(ts, i, h) = h[<<"primary", i>>]
    BY <1>2 DEF Unary
  <2> QED
    BY <2>3, <2>4 DEF Answer, After
<1> QED
  BY <1>1, <1>2

LEMMA CountedReaches ==
  ASSUME NEW ts, NEW results, NEW n \in Nat, Reach(ts, results, n)
  PROVE  Reach(ts, {[r EXCEPT !.count = @ + 1] : r \in results}, n)
<1> SUFFICES ASSUME NEW r \in results, NEW q, q = [r EXCEPT !.count = @ + 1]
             PROVE  q \in Results(ts) /\ q.next >= n
  BY DEF Reach
<1>1. r \in Results(ts) /\ r.next >= n
  BY DEF Reach
<1> QED
  BY <1>1 DEF Results

LEMMA JoinedReach ==
  ASSUME NEW ts, NEW n, NEW a, Reach(ts, a, n), NEW b, \A x \in b : Reach(ts, x, n)
  PROVE  Reach(ts, a \cup UNION b, n)
BY DEF Reach

\* Nodes put before those of results.
Prefixed(before, results) == {[b EXCEPT !.nodes = before \o @] : b \in results}

LEMMA PrefixedReach ==
  ASSUME NEW ts, NEW results, NEW n, Reach(ts, results, n), NEW before \in Seq(Nodes(ts))
  PROVE  Reach(ts, Prefixed(before, results), n)
<1> SUFFICES ASSUME NEW b \in results, NEW q, q = [b EXCEPT !.nodes = before \o @]
             PROVE  q \in Results(ts) /\ q.next >= n
  BY DEF Reach, Prefixed
<1>1. b \in Results(ts) /\ b.next >= n
  BY DEF Reach
<1>2. before \o b.nodes \in Seq(Nodes(ts))
  BY <1>1 DEF Results
<1> QED
  BY <1>1, <1>2 DEF Results

LEMMA ArgumentsOwes ==
  ASSUME NEW ts, Len(ts) \in Nat, NEW g, NEW h, NEW i \in Nat,
         Answers(ts, g, Weight(ts, "arguments", i)), Agree(g, h, ts, Weight(ts, "arguments", i))
  PROVE  /\ Answer(ts, Arguments(ts, i, g), "arguments", i)
         /\ Arguments(ts, i, g) = Arguments(ts, i, h)
<1> DEFINE w == Weight(ts, "arguments", i)
           first == g[<<"expression", i>>]
           after(f, a) == IF TokenAt(ts, a.next) = "," THEN f[<<"arguments", a.next + 1>>] ELSE {}
           more(f, a) == Prefixed(a.nodes, after(f, a))
           all(f) == Closed(first, ts) \cup UNION {more(f, a) : a \in first}
<1>0. {"expression", "arguments"} \subseteq Rules /\ i + 1 \in Nat
  BY DEF Rules
<1>1. Answer(ts, first, "expression", i) /\ first = h[<<"expression", i>>]
  <2>1. Below("expression") < Below("arguments")
    BY DEF Below
  <2>2. Weight(ts, "expression", i) < w
    BY <1>0, <2>1, SmallerWeight
  <2> QED
    BY <1>0, <2>2, AnswerOf
<1> HIDE DEF first
<1>2. Reach(ts, first, i + 1) /\ (i > Len(ts) => first = {})
  BY <1>1 DEF Answer, After
<1>3. \A a \in first : /\ a.next \in Nat /\ a.next > i /\ i <= Len(ts)
                       /\ a.nodes \in Seq(Nodes(ts))
  BY <1>2 DEF Reach, Results
<1>4. \A a \in first : Reach(ts, after(g, a), i + 1) /\ after(g, a) = after(h, a)
  <2> TAKE a \in first
  <2>0. a.next + 1 \in Nat /\ a.next + 1 > i /\ i <= Len(ts) /\ i + 1 <= a.next + 2
        /\ a.next + 2 \in Nat /\ (a.next + 1) + 1 = a.next + 2
    BY <1>3
  <2>1. Weight(ts, "arguments", a.next + 1) < w
    <3> DEFINE j == a.next + 1
    <3>1. j \in Nat /\ j > i /\ i <= Len(ts)
      BY <2>0
    <3> HIDE DEF j
    <3>2. Weight(ts, "arguments", j) < w
      BY <1>0, <3>1, SmallerWeight
    <3> QED
      BY <3>2 DEF j
  <2> DEFINE list == g[<<"arguments", a.next + 1>>]
  <2>2. Answer(ts, list, "arguments", a.next + 1) /\ list = h[<<"arguments", a.next + 1>>]
    BY <1>0, <2>0, <2>1, AnswerOf
  <2>3. Reach(ts, list, a.next + 2)
    BY <2>0, <2>2 DEF Answer, After
  <2>4. Reach(ts, list, i + 1)
    <3> HIDE DEF list
    <3> QED
      BY <1>0, <2>0, <2>3, EarlierReach
  <2>5. Reach(ts, {}, i + 1)
    BY DEF Reach
  <2> QED
    BY <2>2, <2>4, <2>5
<1> HIDE DEF after
<1>5. \A a \in first : Reach(ts, more(g, a), i + 1)
  <2> TAKE a \in first
  <2>1. Reach(ts, after(g, a), i + 1) /\ a.nodes \in Seq(Nodes(ts))
    BY <1>3, <1>4
  <2> QED
    BY <2>1, PrefixedReach DEF more
<1>6. \A a \in first : more(g, a) = more(h, a)
  BY <1>4
<1> HIDE DEF more
<1>7. Reach(ts, all(g), i + 1)
  <2>1. Reach(ts, Closed(first, ts), i + 1)
    BY <1>0, <1>2, ClosedReaches
  <2>2. \A x \in {more(g, a) : a \in first} : Reach(ts, x, i + 1)
    BY <1>5
  <2> QED
    BY <2>1, <2>2, JoinedReach
<1>8. all(g) = all(h)
  BY <1>6
<1>9. i > Len(ts) => all(g) = {}
  BY <1>2 DEF Closed, Skipped
<1> HIDE DEF all
<1> DEFINE counted(rs) == {[r EXCEPT !.count = @ + 1] : r \in rs}
<1>10. /\ Arguments(ts, i, g) = counted(all(g))
       /\ Arguments(ts, i, h) = counted(all(h))
  BY <1>1 DEF Arguments, all, more, after, first, Prefixed
<1>11. Reach(ts, counted(all(g)), i + 1)
  BY <1>0, <1>7, CountedReaches
<1>12. i > Len(ts) => counted(all(g)) = {}
  BY <1>9
<1>13. After("arguments", i) = i + 1
  BY DEF After
<1> HIDE DEF counted
<1> QED
  BY <1>8, <1>10, <1>11, <1>12, <1>13 DEF Answer

LEMMA CallOwes ==
  ASSUME NEW ts, Len(ts) \in Nat, NEW g, NEW h, NEW i \in Nat, i <= Len(ts),
         Answers(ts, g, Weight(ts, "primary", i)), Agree(g, h, ts, Weight(ts, "primary", i))
  PROVE  /\ Reach(ts, FunctionCall(ts, i, g), i + 1)
         /\ FunctionCall(ts, i, g) = FunctionCall(ts, i, h)
<1> DEFINE w == Weight(ts, "primary", i)
           list(f) == IF TokenAt(ts, i + 2) = ")" THEN Made(<<>>, i + 3)
                                                  ELSE f[<<"arguments", i + 2>>]
           call(r) == WithNode(Made(r.nodes, r.next), "call", ts[i], r.count)
<1>0. {"primary", "arguments"} \subseteq Rules /\ i + 1 \in Nat /\ i + 2 \in Nat /\ i + 2 > i
      /\ i + 3 \in Nat /\ i + 1 <= i + 3 /\ (i + 2) + 1 = i + 3
  BY DEF Rules
<1>1. Reach(ts, list(g), i + 1) /\ list(g) = list(h)
  <2>1. Reach(ts, Made(<<>>, i + 3), i + 1)
    <3>1. <<>> \in Seq(Nodes(ts))
      OBVIOUS
    <3>2. Reach(ts, Made(<<>>, i + 3), i + 3)
      BY <1>0, <3>1, MadeReaches
    <3> QED
      BY <1>0, <3>2, EarlierReach
  <2>2. Weight(ts, "arguments", i + 2) < w
    BY <1>0, SmallerWeight
  <2> DEFINE read == g[<<"arguments", i + 2>>]
  <2>3. Answer(ts, read, "arguments", i + 2) /\ read = h[<<"arguments", i + 2>>]
    BY <1>0, <2>2, AnswerOf
  <2>4. Reach(ts, read, i + 3)
    BY <1>0, <2>3 DEF Answer, After
  <2>5. Reach(ts, read, i + 1)
    <3> HIDE DEF read
    <3> QED
      BY <1>0, <2>4, EarlierReach
  <2> QED
    BY <2>1, <2>3, <2>5
<1> HIDE DEF list
<1>2. \A r \in list(g) : Reach(ts, call(r), i + 1)
  <2> TAKE r \in list(g)
  <2>1. r.nodes \in Seq(Nodes(ts)) /\ r.next \in Nat /\ r.count \in Nat /\ i + 1 <= r.next
    BY <1>1 DEF Reach, Results
  <2>2. Reach(ts, Made(r.nodes, r.next), r.next)
    BY <2>1, MadeReaches
  <2>3. Reach(ts, Made(r.nodes, r.next), i + 1)
    BY <1>0, <2>1, <2>2, EarlierReach
  <2>4. ts[i] \in Texts(ts) /\ "call" \in Texts(ts)
    <3>1. TokenAt(ts, i) \in Texts(ts) /\ "call" \in Texts(ts)
      BY Tokens
    <3>2. TokenAt(ts, i) = ts[i]
      BY DEF TokenAt
    <3> QED
      BY <3>1, <3>2
  <2> QED
    BY <2>1, <2>3, <2>4, WithNodeReaches
<1> HIDE DEF call
<1>3. Reach(ts, {}, i + 1)
  BY DEF Reach
<1>4. Reach(ts, {} \cup UNION {call(r) : r \in list(g)}, i + 1)
  <2>1. \A x \in {call(r) : r \in list(g)} : Reach(ts, x, i + 1)
    BY <1>2
  <2> QED
    BY <1>3, <2>1, JoinedReach
<1>5. \A f : FunctionCall(ts, i, f) = UNION {call(r) : r \in list(f)}
  BY DEF FunctionCall, list, call
<1>6. {} \cup UNION {call(r) : r \in list(g)} = UNION {call(r) : r \in list(g)}
  OBVIOUS
<1> QED
  BY <1>1, <1>4, <1>5, <1>6

LEMMA PrimaryOwes ==
  ASSUME NEW ts, Len(ts) \in Nat, NEW g, NEW h, NEW i \in Nat,
         Answers(ts, g, Weight(ts, "primary", i)), Agree(g, h, ts, Weight(ts, "primary", i))
  PROVE  Answer(ts, Primary(ts, i, g), "primary", i) /\ Primary(ts, i, g) = Primary(ts, i, h)
<1> DEFINE w == Weight(ts, "primary", i)
           t == TokenAt(ts, i)
           leaf(op) == WithNode(Made(<<>>, i + 1), op, t, 0)
           inner(f) == Closed(f[<<"expression", i + 1>>], ts)
<1>0. {"primary", "expression"} \subseteq Rules /\ i + 1 \in Nat /\ i + 1 > i
      /\ (i + 1) + 1 \in Nat /\ i + 1 <= (i + 1) + 1
  BY DEF Rules
<1>1. \A op \in {"number", "signal"} : Reach(ts, leaf(op), i + 1)
  <2>1. <<>> \in Seq(Nodes(ts))
    OBVIOUS
  <2>2. Reach(ts, Made(<<>>, i + 1), i + 1)
    BY <1>0, <2>1, MadeReaches
  <2>3. t \in Texts(ts) /\ "number" \in Texts(ts) /\ "signal" \in Texts(ts) /\ 0 \in Nat
    BY Tokens
  <2> HIDE DEF t
  <2> QED
    BY <2>2, <2>3, WithNodeReaches
<1>2. i > Len(ts) => t = "end"
  BY Tokens
<1>3. ~IsNumber("end") /\ ~IsIdentifier("end") /\ "end" # "("
  BY DEF IsNumber, IsIdentifier, NumberTokens, Marks
<1>4. CASE i > Len(ts)
  <2>1. t = "end"
    BY <1>2, <1>4
  <2>2. \A f : Primary(ts, i, f) = {}
    BY <1>3, <2>1 DEF Primary
  <2>3. Reach(ts, {}, After("primary", i))
    BY DEF Reach
  <2> QED
    BY <2>2, <2>3 DEF Answer
<1>5. CASE i <= Len(ts)
  <2>1. Reach(ts, inner(g), i + 1) /\ inner(g) = inner(h)
    <3>1. Weight(ts, "expression", i + 1) < w
      BY <1>0, <1>5, SmallerWeight
    <3> DEFINE read == g[<<"expression", i + 1>>]
    <3>2. Answer(ts, read, "expression", i + 1) /\ read = h[<<"expression", i + 1>>]
      BY <1>0, <3>1, AnswerOf
    <3>3. Reach(ts, read, (i + 1) + 1)
      BY <3>2 DEF Answer, After
    <3>4. Reach(ts, read, i + 1)
      <4> HIDE DEF read
      <4> QED
        BY <1>0, <3>3, EarlierReach
    <3>5. Reach(ts, Closed(read, ts), i + 1)
      <4> HIDE DEF read
      <4> QED
        BY <1>0, <3>4, ClosedReaches
    <3> QED
      BY <3>2, <3>5
  <2>2. /\ Reach(ts, FunctionCall(ts, i, g), i + 1)
        /\ FunctionCall(ts, i, g) = FunctionCall(ts, i, h)
    BY <1>5, CallOwes
  <2>3. Reach(ts, {}, i + 1)
    BY DEF Reach
  <2> HIDE DEF leaf, inner, t
  <2>4. \/ \A f : Primary(ts, i, f) = leaf("number")
        \/ \A f : Primary(ts, i, f) = leaf("signal")
        \/ \A f : Primary(ts, i, f) = FunctionCall(ts, i, f)
        \/ \A f : Primary(ts, i, f) = inner(f)
        \/ \A f : Primary(ts, i, f) = {}
    <3>1. CASE IsNumber(t)
      BY <3>1 DEF Primary, leaf, inner, t
    <3>2. CASE ~IsNumber(t) /\ IsIdentifier(t) /\ TokenAt(ts, i + 1) # "("
      BY <3>2 DEF Primary, leaf, inner, t
    <3>3. CASE ~IsNumber(t) /\ IsIdentifier(t) /\ TokenAt(ts, i + 1) = "("
      BY <3>3 DEF Primary, leaf, inner, t
    <3>4. CASE ~IsNumber(t) /\ ~IsIdentifier(t) /\ t = "("
      BY <3>4 DEF Primary, leaf, inner, t
    <3>5. CASE ~IsNumber(t) /\ ~IsIdentifier(t) /\ t # "("
      BY <3>5 DEF Primary, leaf, inner, t
    <3> QED
      BY <3>1, <3>2, <3>3, <3>4, <3>5
  <2>5. Reach(ts, Primary(ts, i, g), i + 1) /\ Primary(ts, i, g) = Primary(ts, i, h)
    BY <1>1, <2>1, <2>2, <2>3, <2>4
  <2>6. ~(i > Len(ts)) /\ After("primary", i) = i + 1
    BY <1>5 DEF After
  <2> QED
    BY <2>5, <2>6 DEF Answer
<1> QED
  BY <1>4, <1>5

LEMMA RestIsCloser ==
  ASSUME NEW ts, Len(ts) \in Nat, NEW i \in Nat, NEW rule \in Rules, NEW rest \in Rules
  PROVE  i <= Len(ts) => \A j \in Nat : j > i => Weight(ts, rest, j) < Weight(ts, rule, i)
BY SmallerWeight

LEMMA SumOwes ==
  ASSUME NEW ts, Len(ts) \in Nat, NEW g, NEW h, NEW i \in Nat,
         Answers(ts, g, Weight(ts, "expression", i)), Agree(g, h, ts, Weight(ts, "expression", i))
  PROVE  Answer(ts, Sum(ts, i, g), "expression", i) /\ Sum(ts, i, g) = Sum(ts, i, h)
<1> DEFINE w == Weight(ts, "expression", i)
<1>0. "expression" \in Rules /\ "term" \in Rules \ {"terms", "factors"} /\ "terms" \in Rules
  BY DEF Rules
<1>1. Weight(ts, "term", i) < w
  <2>1. Below("term") < Below("expression")
    BY DEF Below
  <2> QED
    BY <1>0, <2>1, SmallerWeight
<1>2. i <= Len(ts) => \A j \in Nat : j > i => Weight(ts, "terms", j) < w
  BY <1>0, RestIsCloser
<1> HIDE DEF w
<1> DEFINE sum(f) == Followed(f[<<"term", i>>], f, "terms")
<1>3. /\ Reach(ts, sum(g), i + 1)
      /\ i > Len(ts) => sum(g) = {}
      /\ sum(g) = sum(h)
  <2>1. Answers(ts, g, w) /\ Agree(g, h, ts, w)
    BY DEF w
  <2>2. "terms" \in {"terms", "factors"}
    OBVIOUS
  <2> HIDE DEF sum
  <2> QED
    BY <1>0, <1>1, <1>2, <2>1, <2>2, FirstThen, SMTT(60) DEF sum
<1>4. \A f : Sum(ts, i, f) = sum(f)
  BY DEF Sum
<1>5. After("expression", i) = i + 1
  BY DEF After
<1> HIDE DEF sum
<1> QED
  BY <1>3, <1>4, <1>5 DEF Answer

LEMMA ProductOwes ==
  ASSUME NEW ts, Len(ts) \in Nat, NEW g, NEW h, NEW i \in Nat,
         Answers(ts, g, Weight(ts, "term", i)), Agree(g, h, ts, Weight(ts, "term", i))
  PROVE  Answer(ts, Product(ts, i, g), "term", i) /\ Product(ts, i, g) = Product(ts, i, h)
<1> DEFINE w == Weight(ts, "term", i)
<1>0. "term" \in Rules /\ "unary" \in Rules \ {"terms", "factors"} /\ "factors" \in Rules
  BY DEF Rules
<1>1. Weight(ts, "unary", i) < w
  <2>1. Below("unary") < Below("term")
    BY DEF Below
  <2> QED
    BY <1>0, <2>1, SmallerWeight
<1>2. i <= Len(ts) => \A j \in Nat : j > i => Weight(ts, "factors", j) < w
  BY <1>0, RestIsCloser
<1> HIDE DEF w
<1> DEFINE product(f) == Followed(f[<<"unary", i>>], f, "factors")
<1>3. /\ Reach(ts, product(g), i + 1)
      /\ i > Len(ts) => product(g) = {}
      /\ product(g) = product(h)
  <2>1. Answers(ts, g, w) /\ Agree(g, h, ts, w)
    BY DEF w
  <2>2. "factors" \in {"terms", "factors"}
    OBVIOUS
  <2> HIDE DEF product
  <2> QED
    BY <1>0, <1>1, <1>2, <2>1, <2>2, FirstThen, SMTT(60) DEF product
<1>4. \A f : Product(ts, i, f) = product(f)
  BY DEF Product
<1>5. After("term", i) = i + 1
  BY DEF After
<1> HIDE DEF product
<1> QED
  BY <1>3, <1>4, <1>5 DEF Answer

\* A method answers if the calls it makes do, and it looks at no others.
LEMMA RuleOwes ==
  ASSUME NEW ts, Len(ts) \in Nat, NEW g, NEW h, NEW rule \in Rules, NEW i \in Nat,
         Answers(ts, g, Weight(ts, rule, i)), Agree(g, h, ts, Weight(ts, rule, i))
  PROVE  /\ Answer(ts, ParseFrom(ts, g, rule, i), rule, i)
         /\ ParseFrom(ts, g, rule, i) = ParseFrom(ts, h, rule, i)
<1>1. CASE rule = "expression"
  <2>1. \A f : ParseFrom(ts, f, rule, i) = Sum(ts, i, f)
    BY <1>1 DEF ParseFrom
  <2> QED
    BY <1>1, <2>1, SumOwes
<1>2. CASE rule = "term"
  <2>1. \A f : ParseFrom(ts, f, rule, i) = Product(ts, i, f)
    BY <1>2 DEF ParseFrom
  <2> QED
    BY <1>2, <2>1, ProductOwes
<1>3. CASE rule = "unary"
  <2>1. \A f : ParseFrom(ts, f, rule, i) = Unary(ts, i, f)
    BY <1>3 DEF ParseFrom
  <2> QED
    BY <1>3, <2>1, UnaryOwes
<1>4. CASE rule = "primary"
  <2>1. \A f : ParseFrom(ts, f, rule, i) = Primary(ts, i, f)
    BY <1>4 DEF ParseFrom
  <2> QED
    BY <1>4, <2>1, PrimaryOwes
<1>5. CASE rule = "arguments"
  <2>1. \A f : ParseFrom(ts, f, rule, i) = Arguments(ts, i, f)
    BY <1>5 DEF ParseFrom
  <2> QED
    BY <1>5, <2>1, ArgumentsOwes
<1>6. CASE rule \in {"terms", "factors"}
  <2>1. PICK operand \in {"term", "unary"}, ops \in {{"+", "-"}, {"*", "/"}} :
          \A f : ParseFrom(ts, f, rule, i) = Repeated(ts, i, f, ops, operand, rule)
    <3>1. CASE rule = "terms"
      <4>1. \A f : ParseFrom(ts, f, rule, i) = Repeated(ts, i, f, {"+", "-"}, "term", rule)
        BY <3>1 DEF ParseFrom
      <4> QED
        BY <4>1
    <3>2. CASE rule = "factors"
      <4>1. \A f : ParseFrom(ts, f, rule, i) = Repeated(ts, i, f, {"*", "/"}, "unary", rule)
        BY <3>2 DEF ParseFrom
      <4> QED
        BY <4>1
    <3> QED
      BY <1>6, <3>1, <3>2
  <2>2. "end" \notin ops
    OBVIOUS
  <2>3. /\ Reach(ts, Repeated(ts, i, g, ops, operand, rule), i)
        /\ Repeated(ts, i, g, ops, operand, rule) = Repeated(ts, i, h, ops, operand, rule)
    BY <1>6, <2>2, RepeatedOwes
  <2>4. After(rule, i) = i
    BY <1>6 DEF After
  <2> QED
    BY <1>6, <2>1, <2>3, <2>4 DEF Answer
<1> QED
  BY <1>1, <1>2, <1>3, <1>4, <1>5, <1>6 DEF Rules

\* Every call is within some distance from the end.
LEMMA WeightIsBounded ==
  ASSUME NEW ts, Len(ts) \in Nat, NEW rule \in Rules, NEW i \in Nat
  PROVE  Weight(ts, rule, i) \in Nat /\ Weight(ts, rule, i) < 5 * Len(ts) + 10
<1>1. Below(rule) \in 0..4
  BY DEF Below, Rules
<1>2. Left(ts, i) \in Nat /\ Left(ts, i) <= Len(ts) + 1
  BY DEF Left
<1>3. Weight(ts, rule, i) = 5 * Left(ts, i) + Below(rule)
  BY DEF Weight
<1> HIDE DEF Weight, Below, Left
<1> QED
  BY <1>1, <1>2, <1>3

\* The calls that are closer to the end than a distance are right.
ParsesRight(ts, f, n) ==
  \A rule \in Rules, i \in Nat : Weight(ts, rule, i) < n =>
    f[<<rule, i>>] = ParseFrom(ts, f, rule, i) /\ Answer(ts, f[<<rule, i>>], rule, i)

\* The next stage of the calls.
ParseStage(ts, f) == [p \in Rules \X Nat |-> ParseFrom(ts, f, p[1], p[2])]

LEMMA NextStage ==
  ASSUME NEW ts, Len(ts) \in Nat, NEW f, NEW n \in Nat, ParsesRight(ts, f, n)
  PROVE  /\ Agree(f, ParseStage(ts, f), ts, n)
         /\ ParsesRight(ts, ParseStage(ts, f), n + 1)
<1> DEFINE g == ParseStage(ts, f)
<1>1. \A rule \in Rules, i \in Nat : g[<<rule, i>>] = ParseFrom(ts, f, rule, i)
  BY DEF ParseStage
<1> HIDE DEF g
<1>2. Agree(f, g, ts, n)
  BY <1>1 DEF Agree, ParsesRight
<1>3. ParsesRight(ts, g, n + 1)
  <2> SUFFICES ASSUME NEW rule \in Rules, NEW i \in Nat, Weight(ts, rule, i) < n + 1
               PROVE  g[<<rule, i>>] = ParseFrom(ts, g, rule, i) /\ Answer(ts, g[<<rule, i>>], rule, i)
    BY DEF ParsesRight
  <2> DEFINE w == Weight(ts, rule, i)
  <2>0. w \in Nat /\ \A r \in Rules, j \in Nat : Weight(ts, r, j) \in Nat
    BY WeightIsBounded
  <2>1. ASSUME NEW r \in Rules, NEW j \in Nat, Weight(ts, r, j) < w
        PROVE  Weight(ts, r, j) < n
    <3> DEFINE v == Weight(ts, r, j)
    <3>1. v \in Nat /\ w \in Nat /\ v < w /\ w < n + 1
      BY <2>0, <2>1
    <3> HIDE DEF v, w
    <3>2. v < n
      BY <3>1
    <3> QED
      BY <3>2 DEF v
  <2>2. Answers(ts, f, w)
    <3> HIDE DEF w
    <3> QED
      BY <2>1 DEF Answers, ParsesRight
  <2>3. Agree(f, g, ts, w)
    <3> HIDE DEF w
    <3> QED
      BY <1>2, <2>1 DEF Agree
  <2>4. /\ Answer(ts, ParseFrom(ts, f, rule, i), rule, i)
        /\ ParseFrom(ts, f, rule, i) = ParseFrom(ts, g, rule, i)
    BY <2>2, <2>3, RuleOwes
  <2> QED
    BY <1>1, <2>4
<1> QED
  BY <1>2, <1>3 DEF g

\* The method of the parser that calls itself.
IsParse(ts, f) == f = [p \in Rules \X Nat |-> ParseFrom(ts, f, p[1], p[2])]

\* FormulaParser terminates on every list of tokens: its methods, which call one another
\* without a limit of their own, have an answer to every call at every token.
THEOREM ParseExists ==
  ASSUME NEW ts, Len(ts) \in Nat
  PROVE  \E f : IsParse(ts, f)
<1> DEFINE IsStage(n) == \E f : ParsesRight(ts, f, n)
           S == {n \in Nat : IsStage(n)}
           all == 5 * Len(ts) + 10
<1>1. 0 \in S
  <2>1. ParsesRight(ts, <<>>, 0)
    <3>1. \A rule \in Rules, i \in Nat : ~(Weight(ts, rule, i) < 0)
      BY WeightIsBounded
    <3> QED
      BY <3>1 DEF ParsesRight
  <2> QED
    BY <2>1
<1>2. \A n \in Nat : n \in S => n + 1 \in S
  <2> SUFFICES ASSUME NEW n \in Nat, IsStage(n) PROVE IsStage(n + 1)
    <3> HIDE DEF IsStage
    <3> QED
      OBVIOUS
  <2>1. PICK f : ParsesRight(ts, f, n)
    OBVIOUS
  <2>2. ParsesRight(ts, ParseStage(ts, f), n + 1)
    BY <2>1, NextStage
  <2> QED
    BY <2>2
<1>3. IsStage(all)
  <2> HIDE DEF S
  <2>1. Nat \subseteq S
    BY <1>1, <1>2, AllNaturals
  <2>2. all \in Nat
    OBVIOUS
  <2> QED
    BY <2>1, <2>2 DEF S
<1>4. PICK f : ParsesRight(ts, f, all)
  BY <1>3
<1> DEFINE g == ParseStage(ts, f)
<1>5. \A rule \in Rules, i \in Nat : Weight(ts, rule, i) < all
  BY WeightIsBounded
<1>6. all \in Nat
  OBVIOUS
<1> HIDE DEF all
<1>7. Agree(f, g, ts, all) /\ ParsesRight(ts, g, all + 1)
  BY <1>4, <1>6, NextStage
<1>8. \A rule \in Rules, i \in Nat : g[<<rule, i>>] = ParseFrom(ts, g, rule, i)
  <2> TAKE rule \in Rules, i \in Nat
  <2>1. Weight(ts, rule, i) \in Nat /\ Weight(ts, rule, i) < all
    BY <1>5, WeightIsBounded
  <2>2. Weight(ts, rule, i) < all + 1
    BY <1>6, <2>1
  <2> HIDE DEF g
  <2> QED
    BY <1>7, <2>2 DEF ParsesRight
<1>9. g = [p \in Rules \X Nat |-> ParseFrom(ts, g, p[1], p[2])]
  <2>1. g = [p \in Rules \X Nat |-> g[p]]
    BY DEF ParseStage
  <2>2. \A p \in Rules \X Nat : p[1] \in Rules /\ p[2] \in Nat /\ p = <<p[1], p[2]>>
    OBVIOUS
  <2> HIDE DEF g
  <2>3. \A p \in Rules \X Nat : g[p] = ParseFrom(ts, g, p[1], p[2])
    BY <1>8, <2>2
  <2> QED
    BY <2>1, <2>3
<1> HIDE DEF g
<1> QED
  BY <1>9 DEF IsParse

\* What a parse that calls itself answers.
LEMMA ParseAnswers ==
  ASSUME NEW ts, Len(ts) \in Nat, NEW f, IsParse(ts, f), NEW rule \in Rules, NEW i \in Nat
  PROVE  Answer(ts, f[<<rule, i>>], rule, i)
<1> DEFINE S == {n \in Nat : Answers(ts, f, n)}
           all == 5 * Len(ts) + 10
<1>0. \A r \in Rules, j \in Nat : f[<<r, j>>] = ParseFrom(ts, f, r, j)
  BY DEF IsParse
<1>1. 0 \in S
  <2>1. \A r \in Rules, j \in Nat : ~(Weight(ts, r, j) < 0)
    BY WeightIsBounded
  <2> QED
    BY <2>1 DEF Answers
<1>2. \A n \in Nat : n \in S => n + 1 \in S
  <2> SUFFICES ASSUME NEW n \in Nat, Answers(ts, f, n) PROVE Answers(ts, f, n + 1)
    OBVIOUS
  <2> SUFFICES ASSUME NEW r \in Rules, NEW j \in Nat, Weight(ts, r, j) < n + 1
               PROVE  Answer(ts, f[<<r, j>>], r, j)
    BY DEF Answers
  <2> DEFINE w == Weight(ts, r, j)
  <2>0. w \in Nat /\ \A q \in Rules, k \in Nat : Weight(ts, q, k) \in Nat
    BY WeightIsBounded
  <2>1. \A q \in Rules, k \in Nat : Weight(ts, q, k) < w => Weight(ts, q, k) < n
    <3> HIDE DEF w, S, all
    <3>1. w < n + 1
      BY DEF w
    <3>2. TAKE q \in Rules, k \in Nat
    <3>3. Weight(ts, q, k) \in Nat
      BY <2>0
    <3> QED
      BY <2>0, <3>1, <3>3
  <2>2. Answers(ts, f, w)
    <3> HIDE DEF w
    <3> QED
      BY <2>1 DEF Answers
  <2>3. Agree(f, f, ts, w)
    BY DEF Agree
  <2>4. Answer(ts, ParseFrom(ts, f, r, j), r, j)
    BY <2>2, <2>3, RuleOwes
  <2> QED
    BY <1>0, <2>4
<1>3. Answers(ts, f, all)
  <2> HIDE DEF S
  <2>1. Nat \subseteq S
    BY <1>1, <1>2, AllNaturals
  <2>2. all \in Nat
    OBVIOUS
  <2> QED
    BY <2>1, <2>2 DEF S
<1>4. Weight(ts, rule, i) < all
  BY WeightIsBounded
<1> HIDE DEF all
<1> QED
  BY <1>3, <1>4 DEF Answers

\* The trees of a formula are lists of nodes.
LEMMA ParsedAreNodes ==
  ASSUME NEW ts, Len(ts) \in Nat
  PROVE  Parsed(ts) \subseteq Seq(Nodes(ts))
<1> DEFINE parse == CHOOSE f : f = [p \in Rules \X Nat |-> ParseFrom(ts, f, p[1], p[2])]
<1>1. IsParse(ts, parse)
  <2>1. \E f : f = [p \in Rules \X Nat |-> ParseFrom(ts, f, p[1], p[2])]
    BY ParseExists DEF IsParse
  <2> QED
    BY <2>1 DEF IsParse
<1>2. Parsed(ts) = {r.nodes : r \in {q \in parse[<<"expression", 1>>] : q.next = Len(ts) + 1}}
  BY DEF Parsed
<1> HIDE DEF parse
<1>3. Answer(ts, parse[<<"expression", 1>>], "expression", 1)
  <2>1. "expression" \in Rules /\ 1 \in Nat
    BY DEF Rules
  <2> QED
    BY <1>1, <2>1, ParseAnswers
<1>4. parse[<<"expression", 1>>] \subseteq Results(ts)
  BY <1>3 DEF Answer, Reach
<1>5. \A r \in parse[<<"expression", 1>>] : r.nodes \in Seq(Nodes(ts))
  BY <1>4 DEF Results
<1> QED
  BY <1>2, <1>5

-----------------------------------------------------------------------------
(* Where the tags are placed, and the assembled samples. *)

\* What every step keeps holds after all.
LEMMA StepsStay ==
  ASSUME NEW N \in Nat, NEW h, NEW X, h[0] \in X, \A k \in 1..N : h[k - 1] \in X => h[k] \in X
  PROVE  \A k \in 0..N : h[k] \in X
<1> DEFINE S == {k \in Nat : k <= N => h[k] \in X}
<1>1. 0 \in S
  OBVIOUS
<1>2. \A k \in Nat : k \in S => k + 1 \in S
  OBVIOUS
<1>3. Nat \subseteq S
  <2> HIDE DEF S
  <2> QED
    BY <1>1, <1>2, AllNaturals
<1> QED
  BY <1>3

-----------------------------------------------------------------------------
\* One element more of those that are kept.
KeptNext(set, kept, x) == IF x \in set THEN Append(kept, x) ELSE kept


\* The elements are looked at one by one.
KeptBy(h, N, S, list, set) ==
  /\ h \in [0..N -> Seq(S)]
  /\ h[0] = <<>>
  /\ \A k \in 1..N : h[k] = KeptNext(set, h[k - 1], list[k])
  /\ Kept(list, set) = h[N]

LEMMA KeptSteps ==
  ASSUME NEW S, NEW N \in Nat, NEW list \in [1..N -> S], NEW set
  PROVE  \E h : KeptBy(h, N, S, list, set)
<1> DEFINE base == <<>>
           X == Seq(S)
           F == [p \in X \X (1..N) |-> KeptNext(set, p[1], list[p[2]])]
           by(g, s) == IF s = {} THEN base ELSE KeptNext(set, g[s \ {Max(s)}], list[Max(s)])
<1>1. base \in X
  BY DEF base, X
<1>2. \A x \in X, k \in 1..N : KeptNext(set, x, list[k]) \in X
  BY DEF KeptNext, X
<1> HIDE DEF X, base
<1>3. F \in [X \X (1..N) -> X]
  <2>1. \A p \in X \X (1..N) : p[1] \in X /\ p[2] \in 1..N
    OBVIOUS
  <2> QED
    BY <1>2, <2>1
<1>4. PICK g \in [SUBSET (1..N) -> X] : FoldsBy(g, N, base, F)
  <2> HIDE DEF F
  <2> QED
    BY <1>1, <1>3, FoldsExist
<1>5. g = [s \in SUBSET (1..N) |-> by(g, s)]
  <2>1. ASSUME NEW s \in SUBSET (1..N), s # {}
        PROVE  F[<<g[s \ {Max(s)}], Max(s)>>] = KeptNext(set, g[s \ {Max(s)}], list[Max(s)])
    <3>1. Max(s) \in 1..N /\ s \ {Max(s)} \in SUBSET (1..N)
      BY <2>1, MaxIsThere
    <3>2. g[s \ {Max(s)}] \in X
      BY <1>4, <3>1
    <3> QED
      BY <3>1, <3>2
  <2> HIDE DEF F
  <2> QED
    BY <1>4, <2>1 DEF FoldsBy
<1> DEFINE iter == CHOOSE i : i = [s \in SUBSET (1..N) |-> by(i, s)]
<1>6. iter = [s \in SUBSET (1..N) |-> by(iter, s)]
  <2> HIDE DEF by
  <2> QED
    BY <1>5
<1>7. Kept(list, set) = iter[1..N]
  <2>1. DOMAIN list = 1..N
    OBVIOUS
  <2> HIDE DEF Max
  <2> QED
    BY <2>1 DEF Kept, FoldLeft, MapThenFoldSet, KeptNext, base
<1> HIDE DEF iter
<1> DEFINE h == [k \in 0..N |-> iter[1..k]]
<1>8. h[0] = base
  <2>1. 1..0 = {} /\ 1..0 \in SUBSET (1..N)
    OBVIOUS
  <2> QED
    BY <1>6, <2>1
<1>9. \A k \in 1..N : h[k] = KeptNext(set, h[k - 1], list[k])
  <2> TAKE k \in 1..N
  <2>1. Max(1..k) = k /\ 1..k # {} /\ (1..k) \ {k} = 1..(k - 1)
    <3>1. k \in Nat \ {0}
      OBVIOUS
    <3> QED
      BY <3>1, LastOfPrefix
  <2>2. iter[1..k] = by(iter, 1..k)
    <3>1. 1..k \in SUBSET (1..N)
      OBVIOUS
    <3> QED
      BY <1>6, <3>1
  <2>3. by(iter, 1..k) = KeptNext(set, iter[1..(k - 1)], list[k])
    BY <2>1
  <2>4. h[k] = iter[1..k] /\ h[k - 1] = iter[1..(k - 1)]
    OBVIOUS
  <2> HIDE DEF h, by
  <2> QED
    BY <2>2, <2>3, <2>4
<1>10. DOMAIN h = 0..N /\ h[N] = iter[1..N]
  OBVIOUS
<1> HIDE DEF h
<1>11. \A k \in 0..N : h[k] \in X
  <2>1. \A k \in 1..N : h[k - 1] \in X => h[k] \in X
    BY <1>2, <1>9
  <2> QED
    BY <1>1, <1>8, <2>1, StepsStay
<1>12. h \in [0..N -> X]
  <2>1. h = [k \in 0..N |-> h[k]]
    BY <1>10 DEF h
  <2> QED
    BY <1>11, <2>1
<1>13. KeptBy(h, N, S, list, set)
  BY <1>7, <1>8, <1>9, <1>10, <1>12 DEF X, base, KeptBy
<1> QED
  BY <1>13

LEMMA SeqIsList ==
  ASSUME NEW S, NEW s \in Seq(S)
  PROVE  Len(s) \in Nat /\ s \in [1..Len(s) -> S] /\ DOMAIN s = 1..Len(s)
OBVIOUS

LEMMA AppendedSet ==
  ASSUME NEW S, NEW s \in Seq(S), NEW x \in S
  PROVE  ToSet(Append(s, x)) = ToSet(s) \cup {x}
<1> DEFINE t == Append(s, x)
<1>1. /\ DOMAIN t = 1..(Len(s) + 1) /\ DOMAIN s = 1..Len(s) /\ Len(s) \in Nat
      /\ t[Len(s) + 1] = x /\ \A i \in 1..Len(s) : t[i] = s[i]
  OBVIOUS
<1> HIDE DEF t
<1> QED
  BY <1>1 DEF ToSet, t

\* The elements kept are those of the list that are in the set.
LEMMA KeptHolds ==
  ASSUME NEW S, NEW list \in Seq(S), NEW set
  PROVE  Kept(list, set) \in Seq(S) /\ ToSet(Kept(list, set)) = ToSet(list) \cap set
<1> DEFINE N == Len(list)
<1>1. N \in Nat /\ list \in [1..N -> S] /\ DOMAIN list = 1..N
  BY SeqIsList
<1> HIDE DEF N
<1>0. PICK h : KeptBy(h, N, S, list, set)
  BY <1>1, KeptSteps
<1>2. /\ h \in [0..N -> Seq(S)]
      /\ h[0] = <<>>
      /\ \A k \in 1..N : h[k] = KeptNext(set, h[k - 1], list[k])
      /\ Kept(list, set) = h[N]
  BY <1>0 DEF KeptBy
<1> DEFINE Holds(k) == ToSet(h[k]) = {list[i] : i \in 1..k} \cap set
           X == {h[k] : k \in {j \in 0..N : Holds(j)}}
           S0 == {k \in Nat : k <= N => Holds(k)}
<1>3. 0 \in S0
  <2>1. ToSet(<<>>) = {} /\ 1..0 = {}
    BY DEF ToSet
  <2> QED
    BY <1>2, <2>1
<1>4. \A k \in Nat : k \in S0 => k + 1 \in S0
  <2> SUFFICES ASSUME NEW k \in Nat, k + 1 <= N, Holds(k) PROVE Holds(k + 1)
    <3> HIDE DEF Holds
    <3>1. \A j \in Nat : j + 1 <= N => j <= N
      BY <1>1
    <3> QED
      BY <3>1
  <2>1. k + 1 \in 1..N /\ (k + 1) - 1 = k /\ h[k] \in Seq(S) /\ list[k + 1] \in S
    BY <1>1, <1>2
  <2>2. h[k + 1] = KeptNext(set, h[k], list[k + 1])
    BY <1>2, <2>1
  <2>3. {list[i] : i \in 1..(k + 1)} = {list[i] : i \in 1..k} \cup {list[k + 1]}
    <3>1. 1..(k + 1) = 1..k \cup {k + 1}
      OBVIOUS
    <3> QED
      BY <3>1
  <2>4. CASE list[k + 1] \in set
    <3>1. ToSet(h[k + 1]) = ToSet(h[k]) \cup {list[k + 1]}
      BY <2>1, <2>2, <2>4, AppendedSet DEF KeptNext
    <3> QED
      BY <2>3, <2>4, <3>1
  <2>5. CASE list[k + 1] \notin set
    BY <2>2, <2>3, <2>5 DEF KeptNext
  <2> QED
    BY <2>4, <2>5
<1>5. Holds(N)
  <2>1. N \in S0
    <3> HIDE DEF S0
    <3> QED
      BY <1>1, <1>3, <1>4, AllNaturals
  <2> QED
    BY <1>1, <2>1
<1>6. ToSet(list) = {list[i] : i \in 1..N}
  BY <1>1 DEF ToSet
<1>7. h[N] \in Seq(S)
  BY <1>1, <1>2
<1> QED
  BY <1>2, <1>5, <1>6, <1>7

-----------------------------------------------------------------------------
(* The layout. *)

\* What a loaded configuration is.
IsConfiguration(cfg) ==
  /\ cfg.modules \in Seq(ModuleRows)
  /\ cfg.tags \in Seq(TagRows)
  /\ cfg.signals \in Seq(SignalRows)

LEMMA ModuleTagsHold ==
  ASSUME NEW cfg, IsConfiguration(cfg), NEW m
  PROVE  /\ ModuleTags(cfg, m) \in Seq(TagRows)
         /\ ToSet(ModuleTags(cfg, m)) \subseteq ToSet(cfg.tags)
<1> DEFINE own == {t \in ToSet(cfg.tags) : t.module = m}
<1>1. cfg.tags \in Seq(TagRows)
  BY DEF IsConfiguration
<1>2. ModuleTags(cfg, m) = Kept(cfg.tags, own)
  BY DEF ModuleTags
<1> HIDE DEF own
<1> QED
  BY <1>1, <1>2, KeptHolds

\* The channels of one module more.
OffsetNext(cfg, n, m) == n + Len(ModuleTags(cfg, m.module))
PlacedNext(cfg, placed, m) == placed \o ModuleTags(cfg, m.module)


\* The cells of the modules before one are counted module by module.
OffsetBy(h, N, cfg, list) ==
  /\ h \in [0..N -> Nat]
  /\ h[0] = 0
  /\ \A k \in 1..N : h[k] = OffsetNext(cfg, h[k - 1], list[k])
  /\ RawOffset(cfg, N + 1) = h[N]

LEMMA OffsetSteps ==
  ASSUME NEW cfg, IsConfiguration(cfg), NEW N \in Nat, N < Len(cfg.modules),
         NEW list, list = SubSeq(cfg.modules, 1, (N + 1) - 1)
  PROVE  \E h : OffsetBy(h, N, cfg, list)
<1> DEFINE base == 0
           X == Nat
           F == [p \in X \X (1..N) |-> OffsetNext(cfg, p[1], list[p[2]])]
           by(g, s) == IF s = {} THEN base ELSE OffsetNext(cfg, g[s \ {Max(s)}], list[Max(s)])
<1>1. base \in X
  BY DEF base, X
<1>2. \A x \in X, k \in 1..N : OffsetNext(cfg, x, list[k]) \in X
  BY ModuleTagsHold DEF OffsetNext, X
<1> HIDE DEF X, base
<1>3. F \in [X \X (1..N) -> X]
  <2>1. \A p \in X \X (1..N) : p[1] \in X /\ p[2] \in 1..N
    OBVIOUS
  <2> QED
    BY <1>2, <2>1
<1>4. PICK g \in [SUBSET (1..N) -> X] : FoldsBy(g, N, base, F)
  <2> HIDE DEF F
  <2> QED
    BY <1>1, <1>3, FoldsExist
<1>5. g = [s \in SUBSET (1..N) |-> by(g, s)]
  <2>1. ASSUME NEW s \in SUBSET (1..N), s # {}
        PROVE  F[<<g[s \ {Max(s)}], Max(s)>>] = OffsetNext(cfg, g[s \ {Max(s)}], list[Max(s)])
    <3>1. Max(s) \in 1..N /\ s \ {Max(s)} \in SUBSET (1..N)
      BY <2>1, MaxIsThere
    <3>2. g[s \ {Max(s)}] \in X
      BY <1>4, <3>1
    <3> QED
      BY <3>1, <3>2
  <2> HIDE DEF F
  <2> QED
    BY <1>4, <2>1 DEF FoldsBy
<1> DEFINE iter == CHOOSE i : i = [s \in SUBSET (1..N) |-> by(i, s)]
<1>6. iter = [s \in SUBSET (1..N) |-> by(iter, s)]
  <2> HIDE DEF by
  <2> QED
    BY <1>5
<1>7. RawOffset(cfg, N + 1) = iter[1..N]
  <2>1. DOMAIN list = 1..N
    BY DEF IsConfiguration
  <2> HIDE DEF Max
  <2> QED
    BY <2>1 DEF RawOffset, FoldLeft, MapThenFoldSet, OffsetNext, base
<1> HIDE DEF iter
<1> DEFINE h == [k \in 0..N |-> iter[1..k]]
<1>8. h[0] = base
  <2>1. 1..0 = {} /\ 1..0 \in SUBSET (1..N)
    OBVIOUS
  <2> QED
    BY <1>6, <2>1
<1>9. \A k \in 1..N : h[k] = OffsetNext(cfg, h[k - 1], list[k])
  <2> TAKE k \in 1..N
  <2>1. Max(1..k) = k /\ 1..k # {} /\ (1..k) \ {k} = 1..(k - 1)
    <3>1. k \in Nat \ {0}
      OBVIOUS
    <3> QED
      BY <3>1, LastOfPrefix
  <2>2. iter[1..k] = by(iter, 1..k)
    <3>1. 1..k \in SUBSET (1..N)
      OBVIOUS
    <3> QED
      BY <1>6, <3>1
  <2>3. by(iter, 1..k) = OffsetNext(cfg, iter[1..(k - 1)], list[k])
    BY <2>1
  <2>4. h[k] = iter[1..k] /\ h[k - 1] = iter[1..(k - 1)]
    OBVIOUS
  <2> HIDE DEF h, by
  <2> QED
    BY <2>2, <2>3, <2>4
<1>10. DOMAIN h = 0..N /\ h[N] = iter[1..N]
  OBVIOUS
<1> HIDE DEF h
<1>11. \A k \in 0..N : h[k] \in X
  <2>1. \A k \in 1..N : h[k - 1] \in X => h[k] \in X
    BY <1>2, <1>9
  <2> QED
    BY <1>1, <1>8, <2>1, StepsStay
<1>12. h \in [0..N -> X]
  <2>1. h = [k \in 0..N |-> h[k]]
    BY <1>10 DEF h
  <2> QED
    BY <1>11, <2>1
<1>13. OffsetBy(h, N, cfg, list)
  BY <1>7, <1>8, <1>9, <1>10, <1>12 DEF X, base, OffsetBy
<1> QED
  BY <1>13


\* The channels are placed module by module.
PlacedBy(h, N, cfg) ==
  /\ h \in [0..N -> Seq(TagRows)]
  /\ h[0] = <<>>
  /\ \A k \in 1..N : h[k] = PlacedNext(cfg, h[k - 1], cfg.modules[k])
  /\ PlacedTags(cfg) = h[N]

LEMMA PlacedSteps ==
  ASSUME NEW cfg, IsConfiguration(cfg), NEW N \in Nat, N = Len(cfg.modules)
  PROVE  \E h : PlacedBy(h, N, cfg)
<1> DEFINE base == <<>>
           X == Seq(TagRows)
           F == [p \in X \X (1..N) |-> PlacedNext(cfg, p[1], cfg.modules[p[2]])]
           by(g, s) == IF s = {} THEN base ELSE PlacedNext(cfg, g[s \ {Max(s)}], cfg.modules[Max(s)])
<1>1. base \in X
  BY DEF base, X
<1>2. \A x \in X, k \in 1..N : PlacedNext(cfg, x, cfg.modules[k]) \in X
  BY ModuleTagsHold DEF PlacedNext, X
<1> HIDE DEF X, base
<1>3. F \in [X \X (1..N) -> X]
  <2>1. \A p \in X \X (1..N) : p[1] \in X /\ p[2] \in 1..N
    OBVIOUS
  <2> QED
    BY <1>2, <2>1
<1>4. PICK g \in [SUBSET (1..N) -> X] : FoldsBy(g, N, base, F)
  <2> HIDE DEF F
  <2> QED
    BY <1>1, <1>3, FoldsExist
<1>5. g = [s \in SUBSET (1..N) |-> by(g, s)]
  <2>1. ASSUME NEW s \in SUBSET (1..N), s # {}
        PROVE  F[<<g[s \ {Max(s)}], Max(s)>>] = PlacedNext(cfg, g[s \ {Max(s)}], cfg.modules[Max(s)])
    <3>1. Max(s) \in 1..N /\ s \ {Max(s)} \in SUBSET (1..N)
      BY <2>1, MaxIsThere
    <3>2. g[s \ {Max(s)}] \in X
      BY <1>4, <3>1
    <3> QED
      BY <3>1, <3>2
  <2> HIDE DEF F
  <2> QED
    BY <1>4, <2>1 DEF FoldsBy
<1> DEFINE iter == CHOOSE i : i = [s \in SUBSET (1..N) |-> by(i, s)]
<1>6. iter = [s \in SUBSET (1..N) |-> by(iter, s)]
  <2> HIDE DEF by
  <2> QED
    BY <1>5
<1>7. PlacedTags(cfg) = iter[1..N]
  <2>1. DOMAIN cfg.modules = 1..N
    BY DEF IsConfiguration
  <2> HIDE DEF Max
  <2> QED
    BY <2>1 DEF PlacedTags, FoldLeft, MapThenFoldSet, PlacedNext, base
<1> HIDE DEF iter
<1> DEFINE h == [k \in 0..N |-> iter[1..k]]
<1>8. h[0] = base
  <2>1. 1..0 = {} /\ 1..0 \in SUBSET (1..N)
    OBVIOUS
  <2> QED
    BY <1>6, <2>1
<1>9. \A k \in 1..N : h[k] = PlacedNext(cfg, h[k - 1], cfg.modules[k])
  <2> TAKE k \in 1..N
  <2>1. Max(1..k) = k /\ 1..k # {} /\ (1..k) \ {k} = 1..(k - 1)
    <3>1. k \in Nat \ {0}
      OBVIOUS
    <3> QED
      BY <3>1, LastOfPrefix
  <2>2. iter[1..k] = by(iter, 1..k)
    <3>1. 1..k \in SUBSET (1..N)
      OBVIOUS
    <3> QED
      BY <1>6, <3>1
  <2>3. by(iter, 1..k) = PlacedNext(cfg, iter[1..(k - 1)], cfg.modules[k])
    BY <2>1
  <2>4. h[k] = iter[1..k] /\ h[k - 1] = iter[1..(k - 1)]
    OBVIOUS
  <2> HIDE DEF h, by
  <2> QED
    BY <2>2, <2>3, <2>4
<1>10. DOMAIN h = 0..N /\ h[N] = iter[1..N]
  OBVIOUS
<1> HIDE DEF h
<1>11. \A k \in 0..N : h[k] \in X
  <2>1. \A k \in 1..N : h[k - 1] \in X => h[k] \in X
    BY <1>2, <1>9
  <2> QED
    BY <1>1, <1>8, <2>1, StepsStay
<1>12. h \in [0..N -> X]
  <2>1. h = [k \in 0..N |-> h[k]]
    BY <1>10 DEF h
  <2> QED
    BY <1>11, <2>1
<1>13. PlacedBy(h, N, cfg)
  BY <1>7, <1>8, <1>9, <1>10, <1>12 DEF X, base, PlacedBy
<1> QED
  BY <1>13

LEMMA PlacedIsPrefix ==
  ASSUME NEW cfg, IsConfiguration(cfg), NEW N \in Nat, N = Len(cfg.modules), NEW p,
         PlacedBy(p, N, cfg)
  PROVE  /\ \A k \in 0..N : p[k] \in Seq(TagRows)
         /\ \A k \in 1..N : p[k] = p[k - 1] \o ModuleTags(cfg, cfg.modules[k].module)
         /\ p[0] = <<>> /\ p[N] = PlacedTags(cfg)
BY DEF PlacedBy, PlacedNext

\* The first cell of a module follows those of the modules before it.
LEMMA OffsetIsLength ==
  ASSUME NEW cfg, IsConfiguration(cfg), NEW N \in Nat, N = Len(cfg.modules), NEW p,
         PlacedBy(p, N, cfg), NEW k \in 1..N
  PROVE  RawOffset(cfg, k) = Len(p[k - 1])
<1> DEFINE n == k - 1
           list == SubSeq(cfg.modules, 1, (n + 1) - 1)
<1>0. n \in Nat /\ n < Len(cfg.modules) /\ n + 1 = k /\ n <= N
  OBVIOUS
<1>1. \A j \in 1..n : list[j] = cfg.modules[j]
  BY DEF IsConfiguration
<1> HIDE DEF n, list
<1>2. PICK h : OffsetBy(h, n, cfg, list)
  BY <1>0, OffsetSteps DEF list
<1>3. /\ h[0] = 0
      /\ \A j \in 1..n : h[j] = OffsetNext(cfg, h[j - 1], list[j])
      /\ RawOffset(cfg, k) = h[n]
  BY <1>0, <1>2 DEF OffsetBy
<1>p. /\ \A j \in 0..N : p[j] \in Seq(TagRows)
      /\ \A j \in 1..N : p[j] = p[j - 1] \o ModuleTags(cfg, cfg.modules[j].module)
      /\ p[0] = <<>>
  BY PlacedIsPrefix
<1> DEFINE S == {j \in Nat : j <= n => h[j] = Len(p[j])}
<1>4. 0 \in S
  BY <1>3, <1>p
<1>5. \A j \in Nat : j \in S => j + 1 \in S
  <2> SUFFICES ASSUME NEW j \in Nat, j + 1 <= n, h[j] = Len(p[j]) PROVE h[j + 1] = Len(p[j + 1])
    <3>1. \A i \in Nat : i + 1 <= n => i <= n
      BY <1>0
    <3> QED
      BY <3>1
  <2> DEFINE own == ModuleTags(cfg, cfg.modules[j + 1].module)
  <2>1. j + 1 \in 1..n /\ (j + 1) - 1 = j /\ j + 1 \in 1..N /\ j \in 0..N
    BY <1>0
  <2>2. h[j + 1] = Len(p[j]) + Len(own)
    BY <1>1, <1>3, <2>1 DEF OffsetNext
  <2>3. p[j + 1] = p[j] \o own /\ p[j] \in Seq(TagRows)
    BY <1>p, <2>1
  <2>4. own \in Seq(TagRows)
    BY ModuleTagsHold
  <2> HIDE DEF own
  <2> QED
    BY <2>2, <2>3, <2>4
<1>6. n \in S
  <2> HIDE DEF S
  <2> QED
    BY <1>0, <1>4, <1>5, AllNaturals
<1> QED
  BY <1>0, <1>3, <1>6 DEF n

\* Every channel that is placed is loaded.
LEMMA PlacedAreLoaded ==
  ASSUME NEW cfg, IsConfiguration(cfg)
  PROVE  /\ PlacedTags(cfg) \in Seq(TagRows)
         /\ ToSet(PlacedTags(cfg)) \subseteq ToSet(cfg.tags)
<1> DEFINE N == Len(cfg.modules)
<1>0. N \in Nat
  BY DEF IsConfiguration
<1> HIDE DEF N
<1>1. PICK p : PlacedBy(p, N, cfg)
  BY <1>0, PlacedSteps DEF N
<1>2. /\ \A k \in 0..N : p[k] \in Seq(TagRows)
      /\ \A k \in 1..N : p[k] = p[k - 1] \o ModuleTags(cfg, cfg.modules[k].module)
      /\ p[0] = <<>> /\ p[N] = PlacedTags(cfg)
  BY <1>0, <1>1, PlacedIsPrefix DEF N
<1> DEFINE X == {s \in Seq(TagRows) : ToSet(s) \subseteq ToSet(cfg.tags)}
<1>3. p[0] \in X
  <2>1. ToSet(<<>>) = {}
    BY DEF ToSet
  <2> QED
    BY <1>2, <2>1
<1>4. ASSUME NEW k \in 1..N, p[k - 1] \in X PROVE p[k] \in X
  <2> DEFINE own == ModuleTags(cfg, cfg.modules[k].module)
  <2>1. own \in X
    BY ModuleTagsHold
  <2>2. p[k] = p[k - 1] \o own
    BY <1>2
  <2>3. \A s, t \in Seq(TagRows) : ToSet(s \o t) \subseteq ToSet(s) \cup ToSet(t)
    <3> TAKE s, t \in Seq(TagRows)
    <3> DEFINE u == s \o t
    <3>1. \A i \in DOMAIN u : \/ i \in DOMAIN s /\ u[i] = s[i]
                              \/ i - Len(s) \in DOMAIN t /\ u[i] = t[i - Len(s)]
      OBVIOUS
    <3> HIDE DEF u
    <3> QED
      BY <3>1 DEF ToSet, u
  <2> HIDE DEF own
  <2> QED
    BY <1>2, <1>4, <2>1, <2>2, <2>3
<1>5. \A k \in 0..N : p[k] \in X
  <2> HIDE DEF X
  <2> QED
    BY <1>0, <1>3, <1>4, StepsStay
<1> QED
  BY <1>0, <1>2, <1>5

-----------------------------------------------------------------------------
(* The assembly of a frame. *)

\* The cells of one module more.
FilledNext(cfg, samples, raw, k) ==
  LET tags   == RuntimeConfiguration(cfg, cfg.modules[k]).tags
      offset == RawOffset(cfg, k)
  IN [c \in DOMAIN raw |-> IF c \in offset..offset + Len(tags) - 1
                           THEN samples[tags[c - offset + 1].id] ELSE raw[c]]


Numbers(cfg) == [k \in DOMAIN cfg.modules |-> k]

LEMMA RuntimeTags ==
  ASSUME NEW cfg, NEW k
  PROVE  RuntimeConfiguration(cfg, cfg.modules[k]).tags = ModuleTags(cfg, cfg.modules[k].module)
BY DEF RuntimeConfiguration, ModuleTags

\* Samples of every channel, that are in a set of values.
SampleOf(cfg, samples, V) ==
  samples \in [Ids(ToSet(cfg.tags)) -> V] /\ InvalidSignalValue \in V

LEMMA FilledStays ==
  ASSUME NEW cfg, IsConfiguration(cfg), NEW V, NEW samples, SampleOf(cfg, samples, V),
         NEW k \in 1..Len(cfg.modules), NEW C, C \subseteq Nat, NEW raw \in [C -> V]
  PROVE  FilledNext(cfg, samples, raw, k) \in [C -> V]
<1> DEFINE N == Len(cfg.modules)
           tags == ModuleTags(cfg, cfg.modules[k].module)
           offset == RawOffset(cfg, k)
<1>0. N \in Nat
  BY DEF IsConfiguration
<1>1. offset \in Nat
  <2>1. PICK p : PlacedBy(p, N, cfg)
    BY <1>0, PlacedSteps
  <2>2. offset = Len(p[k - 1])
    BY <1>0, <2>1, OffsetIsLength
  <2>3. p[k - 1] \in Seq(TagRows)
    <3>1. \A j \in 0..N : p[j] \in Seq(TagRows)
      BY <1>0, <2>1, PlacedIsPrefix
    <3> QED
      BY <1>0, <3>1
  <2> QED
    BY <2>2, <2>3
<1>2. tags \in Seq(TagRows) /\ ToSet(tags) \subseteq ToSet(cfg.tags)
  BY ModuleTagsHold
<1>3. FilledNext(cfg, samples, raw, k) =
        [c \in C |-> IF c \in offset..offset + Len(tags) - 1
                     THEN samples[tags[c - offset + 1].id] ELSE raw[c]]
  BY RuntimeTags DEF FilledNext
<1> HIDE DEF offset, tags
<1>4. ASSUME NEW c \in C, c \in offset..offset + Len(tags) - 1
      PROVE  samples[tags[c - offset + 1].id] \in V
  <2>1. c - offset + 1 \in DOMAIN tags
    BY <1>1, <1>2, <1>4
  <2>2. tags[c - offset + 1] \in ToSet(cfg.tags)
    BY <1>2, <2>1 DEF ToSet
  <2> QED
    BY <2>2 DEF SampleOf, Ids
<1>5. \A c \in C : raw[c] \in V
  OBVIOUS
<1> QED
  BY <1>3, <1>4, <1>5


\* The cells are filled module by module.
FilledBy(h, N, cfg, samples, V) ==
  /\ h \in [0..N -> [0..Len(PlacedTags(cfg)) - 1 -> V]]
  /\ h[0] = [c \in 0..Len(PlacedTags(cfg)) - 1 |-> InvalidSignalValue]
  /\ \A k \in 1..N : h[k] = FilledNext(cfg, samples, h[k - 1], Numbers(cfg)[k])
  /\ Assembled(cfg, samples) = h[N]

LEMMA FilledSteps ==
  ASSUME NEW cfg, IsConfiguration(cfg), NEW N \in Nat, N = Len(cfg.modules),
         NEW V, NEW samples, SampleOf(cfg, samples, V)
  PROVE  \E h : FilledBy(h, N, cfg, samples, V)
<1> DEFINE base == [c \in 0..Len(PlacedTags(cfg)) - 1 |-> InvalidSignalValue]
           X == [0..Len(PlacedTags(cfg)) - 1 -> V]
           F == [p \in X \X (1..N) |-> FilledNext(cfg, samples, p[1], Numbers(cfg)[p[2]])]
           by(g, s) == IF s = {} THEN base ELSE FilledNext(cfg, samples, g[s \ {Max(s)}], Numbers(cfg)[Max(s)])
<1>1. base \in X
  BY DEF base, X, SampleOf
<1>2. \A x \in X, k \in 1..N : FilledNext(cfg, samples, x, Numbers(cfg)[k]) \in X
  <2> DEFINE C == 0..Len(PlacedTags(cfg)) - 1
  <2>1. C \subseteq Nat
    OBVIOUS
  <2>2. \A k \in 1..N : Numbers(cfg)[k] = k /\ k \in 1..Len(cfg.modules)
    BY DEF IsConfiguration, Numbers
  <2>3. X = [C -> V]
    BY DEF X
  <2> HIDE DEF C, X
  <2> TAKE x \in X, k \in 1..N
  <2>4. x \in [C -> V] /\ Numbers(cfg)[k] \in 1..Len(cfg.modules)
    BY <2>2, <2>3
  <2>5. FilledNext(cfg, samples, x, Numbers(cfg)[k]) \in [C -> V]
    BY <2>1, <2>4, FilledStays
  <2> QED
    BY <2>3, <2>5
<1> HIDE DEF X, base
<1>3. F \in [X \X (1..N) -> X]
  <2>1. \A p \in X \X (1..N) : p[1] \in X /\ p[2] \in 1..N
    OBVIOUS
  <2> QED
    BY <1>2, <2>1
<1>4. PICK g \in [SUBSET (1..N) -> X] : FoldsBy(g, N, base, F)
  <2> HIDE DEF F
  <2> QED
    BY <1>1, <1>3, FoldsExist
<1>5. g = [s \in SUBSET (1..N) |-> by(g, s)]
  <2>1. ASSUME NEW s \in SUBSET (1..N), s # {}
        PROVE  F[<<g[s \ {Max(s)}], Max(s)>>] = FilledNext(cfg, samples, g[s \ {Max(s)}], Numbers(cfg)[Max(s)])
    <3>1. Max(s) \in 1..N /\ s \ {Max(s)} \in SUBSET (1..N)
      BY <2>1, MaxIsThere
    <3>2. g[s \ {Max(s)}] \in X
      BY <1>4, <3>1
    <3> QED
      BY <3>1, <3>2
  <2> HIDE DEF F
  <2> QED
    BY <1>4, <2>1 DEF FoldsBy
<1> DEFINE iter == CHOOSE i : i = [s \in SUBSET (1..N) |-> by(i, s)]
<1>6. iter = [s \in SUBSET (1..N) |-> by(iter, s)]
  <2> HIDE DEF by
  <2> QED
    BY <1>5
<1>7. Assembled(cfg, samples) = iter[1..N]
  <2>1. DOMAIN Numbers(cfg) = 1..N
    BY DEF IsConfiguration, Numbers
  <2> HIDE DEF Max
  <2> QED
    BY <2>1 DEF Assembled, FoldLeft, MapThenFoldSet, FilledNext, Numbers, base
<1> HIDE DEF iter
<1> DEFINE h == [k \in 0..N |-> iter[1..k]]
<1>8. h[0] = base
  <2>1. 1..0 = {} /\ 1..0 \in SUBSET (1..N)
    OBVIOUS
  <2> QED
    BY <1>6, <2>1
<1>9. \A k \in 1..N : h[k] = FilledNext(cfg, samples, h[k - 1], Numbers(cfg)[k])
  <2> TAKE k \in 1..N
  <2>1. Max(1..k) = k /\ 1..k # {} /\ (1..k) \ {k} = 1..(k - 1)
    <3>1. k \in Nat \ {0}
      OBVIOUS
    <3> QED
      BY <3>1, LastOfPrefix
  <2>2. iter[1..k] = by(iter, 1..k)
    <3>1. 1..k \in SUBSET (1..N)
      OBVIOUS
    <3> QED
      BY <1>6, <3>1
  <2>3. by(iter, 1..k) = FilledNext(cfg, samples, iter[1..(k - 1)], Numbers(cfg)[k])
    BY <2>1
  <2>4. h[k] = iter[1..k] /\ h[k - 1] = iter[1..(k - 1)]
    OBVIOUS
  <2> HIDE DEF h, by
  <2> QED
    BY <2>2, <2>3, <2>4
<1>10. DOMAIN h = 0..N /\ h[N] = iter[1..N]
  OBVIOUS
<1> HIDE DEF h
<1>11. \A k \in 0..N : h[k] \in X
  <2>1. \A k \in 1..N : h[k - 1] \in X => h[k] \in X
    BY <1>2, <1>9
  <2> QED
    BY <1>1, <1>8, <2>1, StepsStay
<1>12. h \in [0..N -> X]
  <2>1. h = [k \in 0..N |-> h[k]]
    BY <1>10 DEF h
  <2> QED
    BY <1>11, <2>1
<1>13. FilledBy(h, N, cfg, samples, V)
  BY <1>7, <1>8, <1>9, <1>10, <1>12 DEF X, base, FilledBy
<1> QED
  BY <1>13

\* Every channel's sample is in the place of the channel.
LEMMA SamplesAreInPlace ==
  ASSUME NEW cfg, IsConfiguration(cfg), NEW V, NEW samples, SampleOf(cfg, samples, V)
  PROVE  Assembled(cfg, samples) =
           [c \in 0..Len(PlacedTags(cfg)) - 1 |-> samples[PlacedTags(cfg)[c + 1].id]]
<1> DEFINE N == Len(cfg.modules)
           placed == PlacedTags(cfg)
           L == Len(placed)
<1>0. N \in Nat /\ placed \in Seq(TagRows) /\ L \in Nat
  BY PlacedAreLoaded DEF IsConfiguration
<1> HIDE DEF N
<1>1. PICK p : PlacedBy(p, N, cfg)
  BY <1>0, PlacedSteps DEF N
<1>2. /\ \A k \in 0..N : p[k] \in Seq(TagRows)
      /\ \A k \in 1..N : p[k] = p[k - 1] \o ModuleTags(cfg, cfg.modules[k].module)
      /\ p[0] = <<>> /\ p[N] = placed
  BY <1>0, <1>1, PlacedIsPrefix DEF N
<1>3. PICK h : FilledBy(h, N, cfg, samples, V)
  BY <1>0, FilledSteps DEF N
<1>4. /\ h \in [0..N -> [0..L - 1 -> V]]
      /\ \A k \in 1..N : h[k] = FilledNext(cfg, samples, h[k - 1], k)
      /\ Assembled(cfg, samples) = h[N]
  <2>1. \A k \in 1..N : Numbers(cfg)[k] = k
    BY DEF Numbers, N, IsConfiguration
  <2> HIDE DEF placed
  <2> QED
    BY <1>3, <2>1 DEF FilledBy, placed
<1> HIDE DEF L, placed
<1> DEFINE Holds(k) == \A c \in 0..L - 1 : c < Len(p[k]) => h[k][c] = samples[p[k][c + 1].id]
           S == {k \in Nat : k <= N => Holds(k)}
<1>5. 0 \in S
  <2>1. Len(p[0]) = 0
    BY <1>2
  <2> QED
    BY <1>0, <2>1
<1>6. \A k \in Nat : k \in S => k + 1 \in S
  <2> SUFFICES ASSUME NEW k \in Nat, k + 1 <= N, Holds(k) PROVE Holds(k + 1)
    <3> HIDE DEF Holds
    <3>1. \A j \in Nat : j + 1 <= N => j <= N
      BY <1>0
    <3> QED
      BY <3>1
  <2> DEFINE own == ModuleTags(cfg, cfg.modules[k + 1].module)
             offset == RawOffset(cfg, k + 1)
  <2>1. k + 1 \in 1..N /\ (k + 1) - 1 = k /\ k \in 0..N
    BY <1>0
  <2>2. own \in Seq(TagRows)
    BY ModuleTagsHold
  <2>3. p[k + 1] = p[k] \o own /\ p[k] \in Seq(TagRows)
    BY <1>2, <2>1
  <2>4. offset = Len(p[k])
    <3>1. RawOffset(cfg, k + 1) = Len(p[(k + 1) - 1])
      <4>1. N = Len(cfg.modules)
        BY DEF N
      <4> QED
        BY <1>0, <1>1, <2>1, <4>1, OffsetIsLength
    <3> QED
      BY <2>1, <3>1
  <2>5. h[k + 1] = [c \in 0..L - 1 |-> IF c \in offset..offset + Len(own) - 1
                                      THEN samples[own[c - offset + 1].id] ELSE h[k][c]]
    <3>1. h[k + 1] = FilledNext(cfg, samples, h[k], k + 1) /\ DOMAIN h[k] = 0..L - 1
      BY <1>4, <2>1
    <3> QED
      BY <3>1, RuntimeTags DEF FilledNext
  <2> HIDE DEF own, offset
  <2> SUFFICES ASSUME NEW c \in 0..L - 1, c < Len(p[k + 1])
               PROVE  h[k + 1][c] = samples[p[k + 1][c + 1].id]
    OBVIOUS
  <2>6. /\ Len(p[k]) \in Nat /\ Len(own) \in Nat /\ c \in Nat
        /\ c < Len(p[k]) + Len(own)
    BY <1>0, <2>2, <2>3
  <2>7. CASE c < Len(p[k])
    <3>1. c \notin offset..offset + Len(own) - 1
      BY <2>4, <2>6, <2>7
    <3>2. h[k + 1][c] = h[k][c]
      BY <2>5, <3>1
    <3>3. p[k + 1][c + 1] = p[k][c + 1]
      <4>1. c + 1 \in 1..Len(p[k])
        BY <2>6, <2>7
      <4> QED
        BY <2>2, <2>3, <4>1
    <3> QED
      BY <2>7, <3>2, <3>3
  <2>8. CASE ~(c < Len(p[k]))
    <3>1. c \in offset..offset + Len(own) - 1
      BY <2>4, <2>6, <2>8
    <3>2. h[k + 1][c] = samples[own[c - offset + 1].id]
      BY <2>5, <3>1
    <3>3. p[k + 1][c + 1] = own[c - offset + 1]
      <4>1. c + 1 \in Len(p[k]) + 1..Len(p[k]) + Len(own)
        BY <2>6, <2>8
      <4>2. (c + 1) - Len(p[k]) = c - offset + 1
        BY <2>4, <2>6
      <4>3. p[k + 1][c + 1] = own[(c + 1) - Len(p[k])]
        BY <2>2, <2>3, <4>1
      <4> QED
        BY <4>2, <4>3
    <3> QED
      BY <3>2, <3>3
  <2> QED
    BY <2>7, <2>8
<1>7. Holds(N)
  <2>1. N \in S
    <3> HIDE DEF S
    <3> QED
      BY <1>0, <1>5, <1>6, AllNaturals
  <2> QED
    BY <1>0, <2>1
<1>8. h[N] = [c \in 0..L - 1 |-> h[N][c]]
  BY <1>0, <1>4
<1>9. \A c \in 0..L - 1 : h[N][c] = samples[placed[c + 1].id]
  BY <1>0, <1>2, <1>7 DEF L
<1> QED
  BY <1>4, <1>8, <1>9 DEF L, placed

\* All of them are samples, if they are loaded.
LEMMA AssembledAreSamples ==
  ASSUME NEW cfg, IsConfiguration(cfg), NEW V, NEW samples \in [Ids(ToSet(cfg.tags)) -> V]
  PROVE  \A c \in DOMAIN Assembled(cfg, samples) : Assembled(cfg, samples)[c] \in V
<1> DEFINE placed == PlacedTags(cfg)
           W == V \cup {InvalidSignalValue}
<1>1. SampleOf(cfg, samples, W)
  BY DEF SampleOf
<1>2. Assembled(cfg, samples) = [c \in 0..Len(placed) - 1 |-> samples[placed[c + 1].id]]
  <2> HIDE DEF W
  <2> QED
    BY <1>1, SamplesAreInPlace
<1>3. placed \in Seq(TagRows) /\ ToSet(placed) \subseteq ToSet(cfg.tags)
  BY PlacedAreLoaded
<1> HIDE DEF placed
<1>4. ASSUME NEW c \in 0..Len(placed) - 1 PROVE samples[placed[c + 1].id] \in V
  <2>1. c + 1 \in DOMAIN placed
    BY <1>3
  <2>2. placed[c + 1] \in ToSet(cfg.tags)
    BY <1>3, <2>1 DEF ToSet
  <2> QED
    BY <2>2 DEF Ids
<1> QED
  BY <1>2, <1>4

\* A signal of a channel reads the sample of that channel: the layout, which counts the
\* cells module by module, and the assembler, which fills them by the offset of each
\* module, agree about the cell of every tag.
THEOREM SampleOfSignal ==
  ASSUME NEW cfg, IsConfiguration(cfg), LaysOut(cfg), NEW V,
         NEW samples \in [Ids(ToSet(cfg.tags)) -> V], NEW s \in RawSignals(cfg)
  PROVE  Assembled(cfg, samples)[Place(cfg, s).index] = samples[s.tag]
<1> DEFINE placed == PlacedTags(cfg)
           W == V \cup {InvalidSignalValue}
           i == CHOOSE j \in DOMAIN placed : placed[j].id = s.tag
<1>1. SampleOf(cfg, samples, W)
  BY DEF SampleOf
<1>2. Assembled(cfg, samples) = [c \in 0..Len(placed) - 1 |-> samples[placed[c + 1].id]]
  <2> HIDE DEF W
  <2> QED
    BY <1>1, SamplesAreInPlace
<1>3. placed \in Seq(TagRows)
  BY PlacedAreLoaded
<1>4. \E j \in DOMAIN placed : placed[j].id = s.tag
  BY DEF LaysOut, Ids, ToSet
<1>5. Place(cfg, s).index = i - 1
  BY DEF Place, Cell, RawSignals
<1> HIDE DEF placed
<1>6. i \in DOMAIN placed /\ placed[i].id = s.tag
  BY <1>4
<1> HIDE DEF i
<1>7. i - 1 \in 0..Len(placed) - 1 /\ (i - 1) + 1 = i
  BY <1>3, <1>6
<1> QED
  BY <1>2, <1>5, <1>6, <1>7

-----------------------------------------------------------------------------
(* What a formula depends on, and the order of calculation. *)

-----------------------------------------------------------------------------
(* The order of calculation. *)

\* Signals a formula names.
LEMMA NamesAreRead ==
  ASSUME NEW N, NEW nodes \in Seq(N)
  PROVE  NamesRead(nodes) \in Seq(ToSet(NamesRead(nodes)))
<1> DEFINE signals == {node \in ToSet(nodes) : node.op = "signal"}
           kept == Kept(nodes, signals)
<1>1. kept \in Seq(N)
  <2> HIDE DEF signals
  <2> QED
    BY KeptHolds
<1>2. NamesRead(nodes) = [i \in DOMAIN kept |-> kept[i].at]
  BY DEF NamesRead
<1> HIDE DEF kept
<1>3. /\ DOMAIN NamesRead(nodes) = 1..Len(kept) /\ Len(kept) \in Nat
      /\ NamesRead(nodes) = [i \in 1..Len(kept) |-> NamesRead(nodes)[i]]
  BY <1>1, <1>2
<1>4. \A i \in 1..Len(kept) : NamesRead(nodes)[i] \in ToSet(NamesRead(nodes))
  BY <1>3 DEF ToSet
<1> DEFINE names == NamesRead(nodes)
           R == ToSet(names)
<1> HIDE DEF names, R
<1>5. names \in [1..Len(kept) -> R]
  BY <1>3, <1>4 DEF names, R
<1>6. names \in Seq(R)
  BY <1>3, <1>5
<1> QED
  BY <1>6 DEF names, R

\* One name more.
DependsNext(cfg, ids, n) ==
  LET i == SignalNamed(cfg, n).id
  IN IF i \in ToSet(ids) THEN ids ELSE Append(ids, i)


\* The names are resolved one by one.
DependsBy(h, N, cfg, nodes) ==
  /\ h \in [0..N -> Seq(Ids(ToSet(cfg.signals)))]
  /\ h[0] = <<>>
  /\ \A k \in 1..N : h[k] = DependsNext(cfg, h[k - 1], NamesRead(nodes)[k])
  /\ Dependencies(cfg, nodes) = h[N]

LEMMA DependsSteps ==
  ASSUME NEW cfg, IsConfiguration(cfg), NEW N \in Nat, NEW nodes,
         NEW R, NamesRead(nodes) \in [1..N -> R],
         R \subseteq {r.name : r \in ToSet(cfg.signals)}
  PROVE  \E h : DependsBy(h, N, cfg, nodes)
<1> DEFINE base == <<>>
           X == Seq(Ids(ToSet(cfg.signals)))
           F == [p \in X \X (1..N) |-> DependsNext(cfg, p[1], NamesRead(nodes)[p[2]])]
           by(g, s) == IF s = {} THEN base ELSE DependsNext(cfg, g[s \ {Max(s)}], NamesRead(nodes)[Max(s)])
<1>1. base \in X
  BY DEF base, X
<1>2. \A x \in X, k \in 1..N : DependsNext(cfg, x, NamesRead(nodes)[k]) \in X
  <2> SUFFICES ASSUME NEW x \in X, NEW k \in 1..N
               PROVE  DependsNext(cfg, x, NamesRead(nodes)[k]) \in X
    OBVIOUS
  <2> DEFINE n == NamesRead(nodes)[k]
  <2>1. \E s \in ToSet(cfg.signals) : s.name = n
    OBVIOUS
  <2> HIDE DEF n
  <2>2. SignalNamed(cfg, n) \in ToSet(cfg.signals)
    BY <2>1 DEF SignalNamed
  <2>3. SignalNamed(cfg, n).id \in Ids(ToSet(cfg.signals))
    BY <2>2 DEF Ids
  <2>4. DependsNext(cfg, x, n) \in X
    <3> DEFINE I == Ids(ToSet(cfg.signals))
               i == SignalNamed(cfg, n).id
    <3>1. X = Seq(I) /\ i \in I
      BY <2>3 DEF X
    <3>2. DependsNext(cfg, x, n) = IF i \in ToSet(x) THEN x ELSE Append(x, i)
      BY DEF DependsNext
    <3> HIDE DEF I, i, X
    <3>3. Append(x, i) \in Seq(I)
      BY <3>1
    <3> QED
      BY <3>1, <3>2, <3>3
  <2> QED
    BY <2>4 DEF n
<1> HIDE DEF X, base
<1>3. F \in [X \X (1..N) -> X]
  <2>1. \A p \in X \X (1..N) : p[1] \in X /\ p[2] \in 1..N
    OBVIOUS
  <2> QED
    BY <1>2, <2>1
<1>4. PICK g \in [SUBSET (1..N) -> X] : FoldsBy(g, N, base, F)
  <2> HIDE DEF F
  <2> QED
    BY <1>1, <1>3, FoldsExist
<1>5. g = [s \in SUBSET (1..N) |-> by(g, s)]
  <2>1. ASSUME NEW s \in SUBSET (1..N), s # {}
        PROVE  F[<<g[s \ {Max(s)}], Max(s)>>] = DependsNext(cfg, g[s \ {Max(s)}], NamesRead(nodes)[Max(s)])
    <3>1. Max(s) \in 1..N /\ s \ {Max(s)} \in SUBSET (1..N)
      BY <2>1, MaxIsThere
    <3>2. g[s \ {Max(s)}] \in X
      BY <1>4, <3>1
    <3> QED
      BY <3>1, <3>2
  <2> HIDE DEF F
  <2> QED
    BY <1>4, <2>1 DEF FoldsBy
<1> DEFINE iter == CHOOSE i : i = [s \in SUBSET (1..N) |-> by(i, s)]
<1>6. iter = [s \in SUBSET (1..N) |-> by(iter, s)]
  <2> HIDE DEF by
  <2> QED
    BY <1>5
<1>7. Dependencies(cfg, nodes) = iter[1..N]
  <2>1. DOMAIN NamesRead(nodes) = 1..N
    OBVIOUS
  <2> HIDE DEF Max
  <2> QED
    BY <2>1 DEF Dependencies, FoldLeft, MapThenFoldSet, DependsNext, base
<1> HIDE DEF iter
<1> DEFINE h == [k \in 0..N |-> iter[1..k]]
<1>8. h[0] = base
  <2>1. 1..0 = {} /\ 1..0 \in SUBSET (1..N)
    OBVIOUS
  <2> QED
    BY <1>6, <2>1
<1>9. \A k \in 1..N : h[k] = DependsNext(cfg, h[k - 1], NamesRead(nodes)[k])
  <2> TAKE k \in 1..N
  <2>1. Max(1..k) = k /\ 1..k # {} /\ (1..k) \ {k} = 1..(k - 1)
    <3>1. k \in Nat \ {0}
      OBVIOUS
    <3> QED
      BY <3>1, LastOfPrefix
  <2>2. iter[1..k] = by(iter, 1..k)
    <3>1. 1..k \in SUBSET (1..N)
      OBVIOUS
    <3> QED
      BY <1>6, <3>1
  <2>3. by(iter, 1..k) = DependsNext(cfg, iter[1..(k - 1)], NamesRead(nodes)[k])
    BY <2>1
  <2>4. h[k] = iter[1..k] /\ h[k - 1] = iter[1..(k - 1)]
    OBVIOUS
  <2> HIDE DEF h, by
  <2> QED
    BY <2>2, <2>3, <2>4
<1>10. DOMAIN h = 0..N /\ h[N] = iter[1..N]
  OBVIOUS
<1> HIDE DEF h
<1>11. \A k \in 0..N : h[k] \in X
  <2>1. \A k \in 1..N : h[k - 1] \in X => h[k] \in X
    BY <1>2, <1>9
  <2> QED
    BY <1>1, <1>8, <2>1, StepsStay
<1>12. h \in [0..N -> X]
  <2>1. h = [k \in 0..N |-> h[k]]
    BY <1>10 DEF h
  <2> QED
    BY <1>11, <2>1
<1>13. DependsBy(h, N, cfg, nodes)
  BY <1>7, <1>8, <1>9, <1>10, <1>12 DEF X, base, DependsBy
<1> QED
  BY <1>13


LEMMA DependenciesAreSignals ==
  ASSUME NEW cfg, IsConfiguration(cfg), NEW N, NEW nodes \in Seq(N),
         ToSet(NamesRead(nodes)) \subseteq {r.name : r \in ToSet(cfg.signals)}
  PROVE  Dependencies(cfg, nodes) \in Seq(Ids(ToSet(cfg.signals)))
<1> DEFINE names == NamesRead(nodes)
           R == ToSet(names)
           n == Len(names)
<1>1. names \in Seq(R)
  BY NamesAreRead
<1> HIDE DEF names, R
<1>2. n \in Nat /\ names \in [1..n -> R]
  BY <1>1
<1> HIDE DEF n
<1>3. PICK h : DependsBy(h, n, cfg, nodes)
  BY <1>2, DependsSteps DEF names, R
<1> QED
  BY <1>2, <1>3 DEF DependsBy

\* The signals of a loaded configuration are told apart by their ids and names.
SignalsApart(cfg) ==
  \A r, s \in ToSet(cfg.signals) : r.id = s.id \/ r.name = s.name => r = s

LEMMA CalculatedHold ==
  ASSUME NEW cfg, IsConfiguration(cfg)
  PROVE  /\ CalculatedSignals(cfg) \in Seq(SignalRows)
         /\ ToSet(CalculatedSignals(cfg)) = {s \in ToSet(cfg.signals) : s.kind = "Calculated"}
         /\ IdsOf(CalculatedSignals(cfg)) \in Seq(ToSet(IdsOf(CalculatedSignals(cfg))))
         /\ ToSet(IdsOf(CalculatedSignals(cfg))) = Ids(ToSet(CalculatedSignals(cfg)))
         /\ Len(IdsOf(CalculatedSignals(cfg))) = Len(CalculatedSignals(cfg))
<1> DEFINE own == {s \in ToSet(cfg.signals) : s.kind = "Calculated"}
           rows == CalculatedSignals(cfg)
           ids == IdsOf(rows)
           R == ToSet(ids)
<1>1. rows \in Seq(SignalRows) /\ ToSet(rows) = ToSet(cfg.signals) \cap own
  <2>1. rows = Kept(cfg.signals, own) /\ cfg.signals \in Seq(SignalRows)
    BY DEF CalculatedSignals, IsConfiguration
  <2> HIDE DEF own, rows
  <2> QED
    BY <2>1, KeptHolds
<1> HIDE DEF rows
<1>2. /\ DOMAIN ids = 1..Len(rows) /\ Len(rows) \in Nat
      /\ ids = [i \in 1..Len(rows) |-> rows[i].id]
  BY <1>1 DEF IdsOf
<1>3. R = Ids(ToSet(rows))
  BY <1>1, <1>2 DEF ToSet, Ids
<1>4. ids \in [1..Len(rows) -> R]
  <2>1. \A i \in 1..Len(rows) : ids[i] \in R
    BY <1>2 DEF ToSet
  <2> HIDE DEF ids, R
  <2>2. ids = [i \in 1..Len(rows) |-> ids[i]]
    BY <1>2 DEF ids
  <2> QED
    BY <2>1, <2>2
<1> HIDE DEF ids, R
<1>5. ids \in Seq(R) /\ Len(ids) = Len(rows)
  BY <1>2, <1>4
<1> QED
  BY <1>1, <1>3, <1>5 DEF ids, R, rows, own

\* A compiled formula is a list of nodes whose names are those of signals.
LEMMA CompiledHolds ==
  ASSUME NEW cfg, IsConfiguration(cfg), NEW s \in ToSet(cfg.signals), NEW nodes \in Compiled(cfg, s)
  PROVE  /\ nodes \in Parsed(s.formula)
         /\ nodes \in Seq(Nodes(s.formula))
         /\ s.formula \in Seq(STRING)
         /\ ToSet(NamesRead(nodes)) \subseteq {r.name : r \in ToSet(cfg.signals)}
<1>1. s \in SignalRows
  BY DEF IsConfiguration, ToSet
<1>2. s.formula \in Formulas \cup {NoFormula}
  BY <1>1 DEF SignalRows
<1>3. s.formula \in Seq(STRING)
  <2>1. <<>> \in Seq(STRING)
    OBVIOUS
  <2> QED
    BY <1>2, <2>1, BuildAssumption DEF BuildAssumption, NoFormula
<1>4. Len(s.formula) \in Nat
  BY <1>3
<1>5. Parsed(s.formula) \subseteq Seq(Nodes(s.formula))
  BY <1>4, ParsedAreNodes
<1> QED
  BY <1>3, <1>5 DEF Compiled

\* What a signal is calculated from, if every formula can be compiled.
LEMMA DependsOnSignals ==
  ASSUME NEW cfg, IsConfiguration(cfg), SignalsApart(cfg), FormulasBuilt(cfg),
         NEW s \in ToSet(CalculatedSignals(cfg)), NEW nodes,
         nodes = CHOOSE n \in Compiled(cfg, RowIn(cfg.signals, s.id)) : TRUE
  PROVE  /\ RowIn(cfg.signals, s.id) = s
         /\ nodes \in Compiled(cfg, s)
         /\ Dependencies(cfg, nodes) \in Seq(Ids(ToSet(CalculatedSignals(cfg))) \cup Ids(RawSignals(cfg)))
<1>1. s \in ToSet(cfg.signals)
  BY CalculatedHold
<1>2. RowIn(cfg.signals, s.id) = s
  <2>1. \E r \in ToSet(cfg.signals) : r.id = s.id
    BY <1>1
  <2> QED
    BY <1>1, <2>1 DEF RowIn, SignalsApart
<1>3. nodes \in Compiled(cfg, s)
  BY <1>2 DEF FormulasBuilt
<1>4. /\ nodes \in Seq(Nodes(s.formula))
      /\ ToSet(NamesRead(nodes)) \subseteq {r.name : r \in ToSet(cfg.signals)}
  BY <1>1, <1>3, CompiledHolds
<1>5. Dependencies(cfg, nodes) \in Seq(Ids(ToSet(cfg.signals)))
  BY <1>4, DependenciesAreSignals
<1>6. Ids(ToSet(cfg.signals)) = Ids(ToSet(CalculatedSignals(cfg))) \cup Ids(RawSignals(cfg))
  <2>1. \A r \in ToSet(cfg.signals) : r.kind \in {"Raw", "Calculated"}
    <3>1. \A r \in ToSet(cfg.signals) : r \in SignalRows
      BY DEF IsConfiguration, ToSet
    <3> QED
      BY <3>1 DEF SignalRows
  <2>2. ToSet(CalculatedSignals(cfg)) = {r \in ToSet(cfg.signals) : r.kind = "Calculated"}
    BY CalculatedHold
  <2>3. RawSignals(cfg) = {r \in ToSet(cfg.signals) : r.kind = "Raw"}
    BY DEF RawSignals
  <2>4. ToSet(cfg.signals) = ToSet(CalculatedSignals(cfg)) \cup RawSignals(cfg)
    BY <2>1, <2>2, <2>3
  <2> QED
    BY <2>4 DEF Ids
<1> QED
  BY <1>2, <1>3, <1>5, <1>6

\* What visits pass on: the marks of the signals, and the order so far.
VisitMarks(C) == [C -> {"NotVisited", "Visiting", "Visited"}]
Ordered(C) == [marks : VisitMarks(C), order : Seq(C)]
Visits(C) == [id : C, marks : VisitMarks(C), order : Seq(C)]
New(C, marks) == {i \in C : marks[i] = "NotVisited"}

\* Visits of one dependency more.
VisitNext(visit, raw, results, d) ==
  IF d \in raw THEN results
  ELSE UNION {visit[[id |-> d, marks |-> r.marks, order |-> r.order]] : r \in results}

Begun(p) == [marks |-> [p.marks EXCEPT ![p.id] = "Visiting"], order |-> p.order]
AfterVisits(visit, raw, start, list) ==
  FoldLeft(LAMBDA results, d :
             IF d \in raw THEN results
             ELSE UNION {visit[[id |-> d, marks |-> r.marks, order |-> r.order]] : r \in results},
           {start}, list)
Done(p, results) ==
  {[marks |-> [r.marks EXCEPT ![p.id] = "Visited"], order |-> Append(r.order, p.id)] :
     r \in results}

LEMMA VisitParts ==
  ASSUME NEW visit, NEW p, NEW list, NEW raw
  PROVE  Visit(visit, p, list, raw) = Done(p, AfterVisits(visit, raw, Begun(p), list))
BY DEF Visit, Done, AfterVisits, Begun

\* A visit that can only find fewer signals not visited.
Narrows(C, results, marks) ==
  results \in SUBSET Ordered(C) /\ \A r \in results : New(C, r.marks) \subseteq New(C, marks)

\* Visits that find fewer signals not visited than one, all in a set of them.
Fewer(C, f, g, fresh) ==
  \A q \in Visits(C) : New(C, q.marks) \subseteq fresh =>
    f[q] = g[q] /\ Narrows(C, f[q], q.marks)

\* What visits come to that find only some signals not visited.
Within(C, fresh) == {o \in Ordered(C) : New(C, o.marks) \subseteq fresh}

LEMMA VisitNextStays ==
  ASSUME NEW C, NEW raw, NEW fresh, NEW visit, Fewer(C, visit, visit, fresh),
         NEW results \in SUBSET Within(C, fresh), NEW d \in C \cup raw
  PROVE  VisitNext(visit, raw, results, d) \in SUBSET Within(C, fresh)
<1>1. ASSUME NEW r \in results, d \notin raw
      PROVE  visit[[id |-> d, marks |-> r.marks, order |-> r.order]] \in SUBSET Within(C, fresh)
  <2> DEFINE q == [id |-> d, marks |-> r.marks, order |-> r.order]
  <2>1. q \in Visits(C) /\ q.marks = r.marks /\ New(C, r.marks) \subseteq fresh
    BY <1>1 DEF Visits, Within, Ordered
  <2> HIDE DEF q
  <2>2. Narrows(C, visit[q], q.marks) /\ New(C, q.marks) \subseteq fresh
    BY <2>1 DEF Fewer
  <2>3. visit[q] \in SUBSET Within(C, fresh)
    BY <2>2 DEF Narrows, Within
  <2> QED
    BY <2>3 DEF q
<1> QED
  BY <1>1 DEF VisitNext


\* The dependencies are visited one by one.
VisitsBy(h, N, C, raw, fresh, visit, start, list) ==
  /\ h \in [0..N -> SUBSET Within(C, fresh)]
  /\ h[0] = {start}
  /\ \A k \in 1..N : h[k] = VisitNext(visit, raw, h[k - 1], list[k])
  /\ AfterVisits(visit, raw, start, list) = h[N]

LEMMA VisitSteps ==
  ASSUME NEW C, NEW raw, NEW fresh, NEW visit, Fewer(C, visit, visit, fresh),
         NEW N \in Nat, NEW list \in [1..N -> C \cup raw], NEW start \in Within(C, fresh)
  PROVE  \E h : VisitsBy(h, N, C, raw, fresh, visit, start, list)
<1> DEFINE base == {start}
           X == SUBSET Within(C, fresh)
           F == [p \in X \X (1..N) |-> VisitNext(visit, raw, p[1], list[p[2]])]
           by(g, s) == IF s = {} THEN base ELSE VisitNext(visit, raw, g[s \ {Max(s)}], list[Max(s)])
<1>1. base \in X
  BY DEF base, X
<1>2. \A x \in X, k \in 1..N : VisitNext(visit, raw, x, list[k]) \in X
  <2> SUFFICES ASSUME NEW x \in X, NEW k \in 1..N
               PROVE  VisitNext(visit, raw, x, list[k]) \in X
    OBVIOUS
  <2>1. list[k] \in C \cup raw /\ x \in SUBSET Within(C, fresh)
    BY DEF X
  <2>2. VisitNext(visit, raw, x, list[k]) \in SUBSET Within(C, fresh)
    BY <2>1, VisitNextStays
  <2> QED
    BY <2>2 DEF X
<1> HIDE DEF X, base
<1>3. F \in [X \X (1..N) -> X]
  <2>1. \A p \in X \X (1..N) : p[1] \in X /\ p[2] \in 1..N
    OBVIOUS
  <2> QED
    BY <1>2, <2>1
<1>4. PICK g \in [SUBSET (1..N) -> X] : FoldsBy(g, N, base, F)
  <2> HIDE DEF F
  <2> QED
    BY <1>1, <1>3, FoldsExist
<1>5. g = [s \in SUBSET (1..N) |-> by(g, s)]
  <2>1. ASSUME NEW s \in SUBSET (1..N), s # {}
        PROVE  F[<<g[s \ {Max(s)}], Max(s)>>] = VisitNext(visit, raw, g[s \ {Max(s)}], list[Max(s)])
    <3>1. Max(s) \in 1..N /\ s \ {Max(s)} \in SUBSET (1..N)
      BY <2>1, MaxIsThere
    <3>2. g[s \ {Max(s)}] \in X
      BY <1>4, <3>1
    <3> QED
      BY <3>1, <3>2
  <2> HIDE DEF F
  <2> QED
    BY <1>4, <2>1 DEF FoldsBy
<1> DEFINE iter == CHOOSE i : i = [s \in SUBSET (1..N) |-> by(i, s)]
<1>6. iter = [s \in SUBSET (1..N) |-> by(iter, s)]
  <2> HIDE DEF by
  <2> QED
    BY <1>5
<1>7. AfterVisits(visit, raw, start, list) = iter[1..N]
  <2>1. DOMAIN list = 1..N
    OBVIOUS
  <2> HIDE DEF Max
  <2> QED
    BY <2>1 DEF AfterVisits, FoldLeft, MapThenFoldSet, VisitNext, base
<1> HIDE DEF iter
<1> DEFINE h == [k \in 0..N |-> iter[1..k]]
<1>8. h[0] = base
  <2>1. 1..0 = {} /\ 1..0 \in SUBSET (1..N)
    OBVIOUS
  <2> QED
    BY <1>6, <2>1
<1>9. \A k \in 1..N : h[k] = VisitNext(visit, raw, h[k - 1], list[k])
  <2> TAKE k \in 1..N
  <2>1. Max(1..k) = k /\ 1..k # {} /\ (1..k) \ {k} = 1..(k - 1)
    <3>1. k \in Nat \ {0}
      OBVIOUS
    <3> QED
      BY <3>1, LastOfPrefix
  <2>2. iter[1..k] = by(iter, 1..k)
    <3>1. 1..k \in SUBSET (1..N)
      OBVIOUS
    <3> QED
      BY <1>6, <3>1
  <2>3. by(iter, 1..k) = VisitNext(visit, raw, iter[1..(k - 1)], list[k])
    BY <2>1
  <2>4. h[k] = iter[1..k] /\ h[k - 1] = iter[1..(k - 1)]
    OBVIOUS
  <2> HIDE DEF h, by
  <2> QED
    BY <2>2, <2>3, <2>4
<1>10. DOMAIN h = 0..N /\ h[N] = iter[1..N]
  OBVIOUS
<1> HIDE DEF h
<1>11. \A k \in 0..N : h[k] \in X
  <2>1. \A k \in 1..N : h[k - 1] \in X => h[k] \in X
    BY <1>2, <1>9
  <2> QED
    BY <1>1, <1>8, <2>1, StepsStay
<1>12. h \in [0..N -> X]
  <2>1. h = [k \in 0..N |-> h[k]]
    BY <1>10 DEF h
  <2> QED
    BY <1>11, <2>1
<1>13. VisitsBy(h, N, C, raw, fresh, visit, start, list)
  BY <1>7, <1>8, <1>9, <1>10, <1>12 DEF X, base, VisitsBy
<1> QED
  BY <1>13


LEMMA VisitsAgree ==
  ASSUME NEW C, NEW raw, NEW f, NEW g,
         NEW list \in Seq(C \cup raw), NEW start \in Ordered(C),
         Fewer(C, f, g, New(C, start.marks))
  PROVE  /\ AfterVisits(f, raw, start, list) = AfterVisits(g, raw, start, list)
         /\ Narrows(C, AfterVisits(f, raw, start, list), start.marks)
<1> DEFINE N == Len(list)
           fresh == New(C, start.marks)
<1>0. N \in Nat /\ list \in [1..N -> C \cup raw]
  BY SeqIsList
<1> HIDE DEF N
<1>f. Fewer(C, f, f, fresh) /\ Fewer(C, g, g, fresh) /\ start \in Within(C, fresh)
  BY DEF Fewer, Within
<1> HIDE DEF fresh
<1>1. PICK u : VisitsBy(u, N, C, raw, fresh, f, start, list)
  BY <1>0, <1>f, VisitSteps
<1>2. PICK v : VisitsBy(v, N, C, raw, fresh, g, start, list)
  BY <1>0, <1>f, VisitSteps
<1>3. /\ u[0] = {start} /\ v[0] = {start}
      /\ \A k \in 1..N : u[k] = VisitNext(f, raw, u[k - 1], list[k])
      /\ \A k \in 1..N : v[k] = VisitNext(g, raw, v[k - 1], list[k])
      /\ \A k \in 0..N : u[k] \in SUBSET Within(C, fresh)
      /\ AfterVisits(f, raw, start, list) = u[N]
      /\ AfterVisits(g, raw, start, list) = v[N]
  BY <1>1, <1>2 DEF VisitsBy
<1> DEFINE Holds(k) == u[k] = v[k] /\ Narrows(C, u[k], start.marks)
           S == {k \in Nat : k <= N => Holds(k)}
<1>4. 0 \in S
  BY <1>0, <1>3 DEF Narrows
<1>5. \A k \in Nat : k \in S => k + 1 \in S
  <2> SUFFICES ASSUME NEW k \in Nat, k + 1 <= N, Holds(k) PROVE Holds(k + 1)
    <3> HIDE DEF Holds
    <3>1. \A j \in Nat : j + 1 <= N => j <= N
      BY <1>0
    <3> QED
      BY <3>1
  <2> DEFINE d == list[k + 1]
             visit(e, r) == e[[id |-> d, marks |-> r.marks, order |-> r.order]]
  <2>1. k + 1 \in 1..N /\ (k + 1) - 1 = k /\ d \in C \cup raw
    BY <1>0
  <2>2. u[k + 1] = VisitNext(f, raw, u[k], d) /\ v[k + 1] = VisitNext(g, raw, v[k], d)
    BY <1>3, <2>1
  <2>3. u[k] = v[k] /\ u[k] \in SUBSET Ordered(C)
        /\ \A r \in u[k] : New(C, r.marks) \subseteq fresh
    BY DEF Narrows, fresh
  <2> HIDE DEF d
  <2>4. CASE d \in raw
    BY <2>2, <2>3, <2>4 DEF VisitNext, Narrows
  <2>5. CASE d \notin raw
    <3>1. \A r \in u[k] : visit(f, r) = visit(g, r) /\ Narrows(C, visit(f, r), start.marks)
      <4> TAKE r \in u[k]
      <4> DEFINE q == [id |-> d, marks |-> r.marks, order |-> r.order]
      <4>1. q \in Visits(C) /\ q.marks = r.marks
        BY <2>1, <2>3, <2>5 DEF Visits, Ordered
      <4>2. New(C, q.marks) \subseteq fresh
        BY <2>3, <4>1
      <4> HIDE DEF q
      <4>3. f[q] = g[q] /\ Narrows(C, f[q], q.marks)
        BY <4>1, <4>2 DEF Fewer, fresh
      <4>4. Narrows(C, f[q], start.marks)
        BY <4>2, <4>3 DEF Narrows, fresh
      <4> QED
        BY <4>3, <4>4 DEF q
    <3>2. u[k + 1] = UNION {visit(f, r) : r \in u[k]} /\ v[k + 1] = UNION {visit(g, r) : r \in u[k]}
      BY <2>2, <2>3, <2>5 DEF VisitNext
    <3> HIDE DEF visit
    <3> QED
      BY <3>1, <3>2 DEF Narrows
  <2> QED
    BY <2>4, <2>5
<1>6. Holds(N)
  <2>1. N \in S
    <3> HIDE DEF S
    <3> QED
      BY <1>0, <1>4, <1>5, AllNaturals
  <2> QED
    BY <1>0, <2>1
<1> QED
  BY <1>3, <1>6

\* A visit comes to what the visits of what is not visited yet come to.
LEMMA VisitOwes ==
  ASSUME NEW C, NEW raw, NEW depends \in [C -> Seq(C \cup raw)],
         NEW f, NEW g, NEW p \in Visits(C),
         p.marks[p.id] = "NotVisited" => Fewer(C, f, g, New(C, p.marks) \ {p.id})
  PROVE  /\ VisitFrom(f, p, depends, raw) = VisitFrom(g, p, depends, raw)
         /\ Narrows(C, VisitFrom(f, p, depends, raw), p.marks)
<1>0. p.id \in C /\ p.marks \in VisitMarks(C) /\ p.order \in Seq(C)
  BY DEF Visits
<1>1. CASE p.marks[p.id] = "Visited"
  <2>1. \A e : VisitFrom(e, p, depends, raw) = {[marks |-> p.marks, order |-> p.order]}
    BY <1>1 DEF VisitFrom
  <2> QED
    <3> DEFINE r == [marks |-> p.marks, order |-> p.order]
    <3>1. r \in Ordered(C) /\ r.marks = p.marks
      BY <1>0 DEF Ordered
    <3> HIDE DEF r
    <3>2. Narrows(C, {r}, p.marks)
      BY <3>1 DEF Narrows
    <3> QED
      BY <2>1, <3>2 DEF r
<1>2. CASE p.marks[p.id] = "Visiting"
  <2>1. \A e : VisitFrom(e, p, depends, raw) = {}
    BY <1>2 DEF VisitFrom
  <2> QED
    BY <2>1 DEF Narrows
<1>3. CASE p.marks[p.id] = "NotVisited"
  <2> DEFINE start == Begun(p)
             list == depends[p.id]
             after(e) == AfterVisits(e, raw, start, list)
  <2>1. start \in Ordered(C) /\ list \in Seq(C \cup raw)
    BY <1>0 DEF Begun, Ordered, VisitMarks
  <2>2. New(C, start.marks) = New(C, p.marks) \ {p.id}
    BY <1>0, <1>3 DEF Begun, New, VisitMarks
  <2> HIDE DEF start, list
  <2>3. after(f) = after(g) /\ Narrows(C, after(f), start.marks)
    BY <1>3, <2>1, <2>2, VisitsAgree
  <2>4. \A e : VisitFrom(e, p, depends, raw) = Done(p, after(e))
    BY <1>3, VisitParts DEF VisitFrom, start, list
  <2> HIDE DEF after
  <2>5. Narrows(C, Done(p, after(f)), p.marks)
    <3>1. \A r \in after(f) : /\ r.marks \in VisitMarks(C) /\ r.order \in Seq(C)
                              /\ New(C, r.marks) \subseteq New(C, p.marks)
      BY <2>2, <2>3 DEF Narrows, Ordered
    <3> SUFFICES ASSUME NEW r \in after(f), NEW o,
                        o = [marks |-> [r.marks EXCEPT ![p.id] = "Visited"],
                             order |-> Append(r.order, p.id)]
                 PROVE  o \in Ordered(C) /\ New(C, o.marks) \subseteq New(C, p.marks)
      BY DEF Narrows, Done
    <3>2. o.marks \in VisitMarks(C) /\ o.order \in Seq(C)
      BY <1>0, <3>1 DEF VisitMarks
    <3>3. New(C, o.marks) \subseteq New(C, r.marks)
      BY <1>0, <3>1 DEF New, VisitMarks
    <3> QED
      BY <3>1, <3>2, <3>3 DEF Ordered
  <2> QED
    BY <2>3, <2>4, <2>5
<1> QED
  BY <1>0, <1>1, <1>2, <1>3 DEF VisitMarks

\* The method of the order that calls itself.
IsVisit(visit, C, depends, raw) ==
  visit = [p \in Visits(C) |-> VisitFrom(visit, p, depends, raw)]

\* The visits that leave fewer signals than a number are right.
Todo(C, p) == Cardinality(New(C, p.marks))
VisitsRight(C, f, depends, raw, n) ==
  \A p \in Visits(C) : Todo(C, p) < n =>
    f[p] = VisitFrom(f, p, depends, raw) /\ Narrows(C, f[p], p.marks)
VisitStage(C, f, depends, raw) == [p \in Visits(C) |-> VisitFrom(f, p, depends, raw)]

LEMMA TodoIsNumber ==
  ASSUME NEW C, IsFiniteSet(C), NEW p
  PROVE  /\ Todo(C, p) \in Nat /\ Todo(C, p) <= Cardinality(C)
         /\ \A q, i : i \in New(C, p.marks) /\ New(C, q.marks) \subseteq New(C, p.marks) \ {i} =>
                        Todo(C, q) < Todo(C, p)
<1> DEFINE fresh == New(C, p.marks)
<1>1. fresh \subseteq C
  BY DEF New
<1>2. IsFiniteSet(fresh) /\ Cardinality(fresh) \in Nat /\ Cardinality(fresh) <= Cardinality(C)
  BY <1>1, FS_Subset, FS_CardinalityType
<1> HIDE DEF fresh
<1>3. ASSUME NEW q, NEW i, i \in fresh, New(C, q.marks) \subseteq fresh \ {i}
      PROVE  Cardinality(New(C, q.marks)) < Cardinality(fresh)
  <2> DEFINE less == New(C, q.marks)
  <2>1. less \subseteq fresh /\ less # fresh
    BY <1>3
  <2> HIDE DEF less
  <2>2. Cardinality(less) <= Cardinality(fresh) /\ IsFiniteSet(less)
    BY <1>2, <2>1, FS_Subset
  <2>3. Cardinality(less) # Cardinality(fresh)
    BY <1>2, <2>1, FS_Subset
  <2>4. Cardinality(less) \in Nat
    BY <2>2, FS_CardinalityType
  <2> QED
    BY <1>2, <2>2, <2>3, <2>4 DEF less
<1> QED
  BY <1>2, <1>3 DEF Todo, fresh

LEMMA NextVisitStage ==
  ASSUME NEW C, IsFiniteSet(C), NEW raw, NEW depends \in [C -> Seq(C \cup raw)],
         NEW f, NEW n \in Nat,
         VisitsRight(C, f, depends, raw, n)
  PROVE  VisitsRight(C, VisitStage(C, f, depends, raw), depends, raw, n + 1)
<1> DEFINE g == VisitStage(C, f, depends, raw)
<1>1. g = [p \in Visits(C) |-> VisitFrom(f, p, depends, raw)]
  BY DEF VisitStage
<1> HIDE DEF g
<1>4. VisitsRight(C, g, depends, raw, n + 1)
  <2> SUFFICES ASSUME NEW p \in Visits(C), Todo(C, p) < n + 1
               PROVE  g[p] = VisitFrom(g, p, depends, raw) /\ Narrows(C, g[p], p.marks)
    BY DEF VisitsRight
  <2>1. p.marks[p.id] = "NotVisited" => Fewer(C, f, g, New(C, p.marks) \ {p.id})
    <3> SUFFICES ASSUME p.marks[p.id] = "NotVisited", NEW q \in Visits(C),
                        New(C, q.marks) \subseteq New(C, p.marks) \ {p.id}
                 PROVE  f[q] = g[q] /\ Narrows(C, f[q], q.marks)
      BY DEF Fewer
    <3>1. p.id \in New(C, p.marks)
      BY DEF New, Visits
    <3>2. Todo(C, q) < Todo(C, p) /\ Todo(C, q) \in Nat /\ Todo(C, p) \in Nat
      BY <3>1, TodoIsNumber
    <3>3. Todo(C, q) < n
      BY <3>2
    <3>4. f[q] = VisitFrom(f, q, depends, raw) /\ Narrows(C, f[q], q.marks)
      BY <3>3 DEF VisitsRight
    <3> QED
      BY <1>1, <3>4
  <2>2. /\ VisitFrom(f, p, depends, raw) = VisitFrom(g, p, depends, raw)
        /\ Narrows(C, VisitFrom(f, p, depends, raw), p.marks)
    BY <2>1, VisitOwes
  <2>3. g[p] = VisitFrom(f, p, depends, raw)
    BY <1>1
  <2> QED
    BY <2>2, <2>3
<1> QED
  BY <1>4 DEF g

\* CalculationOrder::visit() terminates whatever depends on what, cycles included: the
\* method, which calls itself for every dependency, has an answer to every call.
THEOREM VisitExists ==
  ASSUME NEW C, IsFiniteSet(C), NEW raw, NEW depends \in [C -> Seq(C \cup raw)]
  PROVE  \E f : IsVisit(f, C, depends, raw)
<1> DEFINE IsStage(n) == \E f : VisitsRight(C, f, depends, raw, n)
           S == {n \in Nat : IsStage(n)}
           all == Cardinality(C) + 1
<1>0. all \in Nat /\ \A p : Todo(C, p) < all /\ Todo(C, p) \in Nat
  <2>1. Cardinality(C) \in Nat
    BY FS_CardinalityType
  <2>2. \A p : Todo(C, p) \in Nat /\ Todo(C, p) <= Cardinality(C)
    BY TodoIsNumber
  <2> QED
    BY <2>1, <2>2
<1> HIDE DEF all
<1>1. 0 \in S
  <2>1. \A p : ~(Todo(C, p) < 0)
    BY <1>0
  <2>2. VisitsRight(C, <<>>, depends, raw, 0)
    BY <2>1 DEF VisitsRight
  <2> QED
    BY <2>2
<1>2. \A n \in Nat : n \in S => n + 1 \in S
  <2> SUFFICES ASSUME NEW n \in Nat, IsStage(n) PROVE IsStage(n + 1)
    <3> HIDE DEF IsStage
    <3> QED
      OBVIOUS
  <2>1. PICK f : VisitsRight(C, f, depends, raw, n)
    OBVIOUS
  <2>2. VisitsRight(C, VisitStage(C, f, depends, raw), depends, raw, n + 1)
    BY <2>1, NextVisitStage
  <2> QED
    BY <2>2
<1>3. IsStage(all)
  <2> HIDE DEF S
  <2>1. Nat \subseteq S
    BY <1>1, <1>2, AllNaturals
  <2> QED
    BY <1>0, <2>1 DEF S
<1>4. PICK f : VisitsRight(C, f, depends, raw, all)
  BY <1>3
<1> DEFINE g == VisitStage(C, f, depends, raw)
<1>5. VisitsRight(C, g, depends, raw, all + 1)
  BY <1>0, <1>4, NextVisitStage
<1> HIDE DEF g
<1>6. \A p \in Visits(C) : g[p] = VisitFrom(g, p, depends, raw)
  <2> TAKE p \in Visits(C)
  <2>1. Todo(C, p) < all + 1
    BY <1>0
  <2> QED
    BY <1>5, <2>1 DEF VisitsRight
<1>7. g = [p \in Visits(C) |-> VisitFrom(g, p, depends, raw)]
  <2>1. g = [p \in Visits(C) |-> g[p]]
    BY DEF VisitStage, g
  <2> QED
    BY <1>6, <2>1
<1> QED
  BY <1>7 DEF IsVisit
\* What a method that calls itself comes to.
LEMMA VisitAnswers ==
  ASSUME NEW C, IsFiniteSet(C), NEW raw, NEW depends \in [C -> Seq(C \cup raw)],
         NEW f, IsVisit(f, C, depends, raw), NEW p \in Visits(C)
  PROVE  Narrows(C, f[p], p.marks)
<1> DEFINE S == {n \in Nat : VisitsRight(C, f, depends, raw, n)}
           all == Cardinality(C) + 1
<1>0. all \in Nat /\ \A q : Todo(C, q) < all /\ Todo(C, q) \in Nat
  <2>1. Cardinality(C) \in Nat
    BY FS_CardinalityType
  <2>2. \A q : Todo(C, q) \in Nat /\ Todo(C, q) <= Cardinality(C)
    BY TodoIsNumber
  <2> QED
    BY <2>1, <2>2
<1> HIDE DEF all
<1>1. 0 \in S
  <2>1. \A q : ~(Todo(C, q) < 0)
    BY <1>0
  <2> QED
    BY <2>1 DEF VisitsRight
<1>2. \A n \in Nat : n \in S => n + 1 \in S
  <2> SUFFICES ASSUME NEW n \in Nat, VisitsRight(C, f, depends, raw, n)
               PROVE  VisitsRight(C, f, depends, raw, n + 1)
    OBVIOUS
  <2>1. VisitsRight(C, VisitStage(C, f, depends, raw), depends, raw, n + 1)
    BY NextVisitStage
  <2>2. VisitStage(C, f, depends, raw) = f
    BY DEF VisitStage, IsVisit
  <2> QED
    BY <2>1, <2>2
<1>3. VisitsRight(C, f, depends, raw, all)
  <2> HIDE DEF S
  <2>1. Nat \subseteq S
    BY <1>1, <1>2, AllNaturals
  <2> QED
    BY <1>0, <2>1 DEF S
<1> QED
  BY <1>0, <1>3 DEF VisitsRight

-----------------------------------------------------------------------------
\* The visits of one calculated signal more.
OrderNext(visit, results, i) ==
  UNION {visit[[id |-> i, marks |-> r.marks, order |-> r.order]] : r \in results}
AllVisits(visit, unmarked, list) ==
  FoldLeft(LAMBDA results, i :
             UNION {visit[[id |-> i, marks |-> r.marks, order |-> r.order]] : r \in results},
           {unmarked}, list)


\* The calculated signals are visited one by one.
OrdersBy(h, N, C, visit, unmarked, list) ==
  /\ h \in [0..N -> SUBSET Ordered(C)]
  /\ h[0] = {unmarked}
  /\ \A k \in 1..N : h[k] = OrderNext(visit, h[k - 1], list[k])
  /\ AllVisits(visit, unmarked, list) = h[N]

LEMMA OrderSteps ==
  ASSUME NEW C, NEW visit, \A p \in Visits(C) : visit[p] \in SUBSET Ordered(C),
         NEW N \in Nat, NEW list \in [1..N -> C], NEW unmarked \in Ordered(C)
  PROVE  \E h : OrdersBy(h, N, C, visit, unmarked, list)
<1> DEFINE base == {unmarked}
           X == SUBSET Ordered(C)
           F == [p \in X \X (1..N) |-> OrderNext(visit, p[1], list[p[2]])]
           by(g, s) == IF s = {} THEN base ELSE OrderNext(visit, g[s \ {Max(s)}], list[Max(s)])
<1>1. base \in X
  BY DEF base, X
<1>2. \A x \in X, k \in 1..N : OrderNext(visit, x, list[k]) \in X
  <2> SUFFICES ASSUME NEW x \in X, NEW k \in 1..N, NEW r \in x
               PROVE  visit[[id |-> list[k], marks |-> r.marks, order |-> r.order]] \in SUBSET Ordered(C)
    BY DEF OrderNext, X
  <2>1. list[k] \in C /\ r \in Ordered(C)
    BY DEF X
  <2>2. [id |-> list[k], marks |-> r.marks, order |-> r.order] \in Visits(C)
    BY <2>1 DEF Visits, Ordered
  <2> QED
    BY <2>2
<1> HIDE DEF X, base
<1>3. F \in [X \X (1..N) -> X]
  <2>1. \A p \in X \X (1..N) : p[1] \in X /\ p[2] \in 1..N
    OBVIOUS
  <2> QED
    BY <1>2, <2>1
<1>4. PICK g \in [SUBSET (1..N) -> X] : FoldsBy(g, N, base, F)
  <2> HIDE DEF F
  <2> QED
    BY <1>1, <1>3, FoldsExist
<1>5. g = [s \in SUBSET (1..N) |-> by(g, s)]
  <2>1. ASSUME NEW s \in SUBSET (1..N), s # {}
        PROVE  F[<<g[s \ {Max(s)}], Max(s)>>] = OrderNext(visit, g[s \ {Max(s)}], list[Max(s)])
    <3>1. Max(s) \in 1..N /\ s \ {Max(s)} \in SUBSET (1..N)
      BY <2>1, MaxIsThere
    <3>2. g[s \ {Max(s)}] \in X
      BY <1>4, <3>1
    <3> QED
      BY <3>1, <3>2
  <2> HIDE DEF F
  <2> QED
    BY <1>4, <2>1 DEF FoldsBy
<1> DEFINE iter == CHOOSE i : i = [s \in SUBSET (1..N) |-> by(i, s)]
<1>6. iter = [s \in SUBSET (1..N) |-> by(iter, s)]
  <2> HIDE DEF by
  <2> QED
    BY <1>5
<1>7. AllVisits(visit, unmarked, list) = iter[1..N]
  <2>1. DOMAIN list = 1..N
    OBVIOUS
  <2> HIDE DEF Max
  <2> QED
    BY <2>1 DEF AllVisits, FoldLeft, MapThenFoldSet, OrderNext, base
<1> HIDE DEF iter
<1> DEFINE h == [k \in 0..N |-> iter[1..k]]
<1>8. h[0] = base
  <2>1. 1..0 = {} /\ 1..0 \in SUBSET (1..N)
    OBVIOUS
  <2> QED
    BY <1>6, <2>1
<1>9. \A k \in 1..N : h[k] = OrderNext(visit, h[k - 1], list[k])
  <2> TAKE k \in 1..N
  <2>1. Max(1..k) = k /\ 1..k # {} /\ (1..k) \ {k} = 1..(k - 1)
    <3>1. k \in Nat \ {0}
      OBVIOUS
    <3> QED
      BY <3>1, LastOfPrefix
  <2>2. iter[1..k] = by(iter, 1..k)
    <3>1. 1..k \in SUBSET (1..N)
      OBVIOUS
    <3> QED
      BY <1>6, <3>1
  <2>3. by(iter, 1..k) = OrderNext(visit, iter[1..(k - 1)], list[k])
    BY <2>1
  <2>4. h[k] = iter[1..k] /\ h[k - 1] = iter[1..(k - 1)]
    OBVIOUS
  <2> HIDE DEF h, by
  <2> QED
    BY <2>2, <2>3, <2>4
<1>10. DOMAIN h = 0..N /\ h[N] = iter[1..N]
  OBVIOUS
<1> HIDE DEF h
<1>11. \A k \in 0..N : h[k] \in X
  <2>1. \A k \in 1..N : h[k - 1] \in X => h[k] \in X
    BY <1>2, <1>9
  <2> QED
    BY <1>1, <1>8, <2>1, StepsStay
<1>12. h \in [0..N -> X]
  <2>1. h = [k \in 0..N |-> h[k]]
    BY <1>10 DEF h
  <2> QED
    BY <1>11, <2>1
<1>13. OrdersBy(h, N, C, visit, unmarked, list)
  BY <1>7, <1>8, <1>9, <1>10, <1>12 DEF X, base, OrdersBy
<1> QED
  BY <1>13


\* Where the signals of a formula stand.
CalculatedIds(cfg) == ToSet(IdsOf(CalculatedSignals(cfg)))
DependsOf(cfg) ==
  [i \in CalculatedIds(cfg) |->
     Dependencies(cfg, CHOOSE n \in Compiled(cfg, RowIn(cfg.signals, i)) : TRUE)]
Unmarked(C) == [marks |-> [i \in C |-> "NotVisited"], order |-> <<>>]

LEMMA DependsAreSignals ==
  ASSUME NEW cfg, IsConfiguration(cfg), SignalsApart(cfg), FormulasBuilt(cfg)
  PROVE  /\ DependsOf(cfg) \in [CalculatedIds(cfg) -> Seq(CalculatedIds(cfg) \cup Ids(RawSignals(cfg)))]
         /\ IsFiniteSet(CalculatedIds(cfg))
<1> DEFINE C == CalculatedIds(cfg)
           ids == IdsOf(CalculatedSignals(cfg))
<1>1. C = Ids(ToSet(CalculatedSignals(cfg))) /\ ids \in Seq(C) /\ C = ToSet(ids)
  BY CalculatedHold DEF CalculatedIds
<1> HIDE DEF C
<1>2. ASSUME NEW i \in C
      PROVE  Dependencies(cfg, CHOOSE n \in Compiled(cfg, RowIn(cfg.signals, i)) : TRUE)
               \in Seq(C \cup Ids(RawSignals(cfg)))
  <2>1. PICK s \in ToSet(CalculatedSignals(cfg)) : s.id = i
    BY <1>1 DEF Ids
  <2> QED
    BY <1>1, <2>1, DependsOnSignals
<1>3. DependsOf(cfg) \in [C -> Seq(C \cup Ids(RawSignals(cfg)))]
  BY <1>2 DEF DependsOf, C
<1>4. IsFiniteSet(C)
  <2> DEFINE n == Len(ids)
  <2>1. n \in Nat /\ ids \in [1..n -> C] /\ DOMAIN ids = 1..n
    BY <1>1, SeqIsList
  <2> HIDE DEF ids, n
  <2>2. IsFiniteSet(1..n)
    BY <2>1, FS_Interval
  <2>3. ids \in Surjection(1..n, C)
    BY <1>1, <2>1 DEF Surjection, ToSet
  <2> QED
    BY <2>2, <2>3, FS_Surjection
<1> QED
  BY <1>3, <1>4 DEF C

\* The order of calculation lists calculated signals.
LEMMA OrderIsList ==
  ASSUME NEW cfg, IsConfiguration(cfg), SignalsApart(cfg), FormulasBuilt(cfg),
         NEW plan \in CalculationOrder(cfg)
  PROVE  plan \in Seq(CalculatedIds(cfg))
<1> DEFINE C == CalculatedIds(cfg)
           ids == IdsOf(CalculatedSignals(cfg))
           raw == Ids(RawSignals(cfg))
           depends == DependsOf(cfg)
           visit == CHOOSE f : f = [p \in Visits(C) |-> VisitFrom(f, p, depends, raw)]
           N == Len(ids)
<1>1. IsFiniteSet(C) /\ depends \in [C -> Seq(C \cup raw)]
  BY DependsAreSignals
<1>2. ids \in Seq(C)
  BY CalculatedHold DEF CalculatedIds
<1>3. CalculationOrder(cfg) = {r.order : r \in AllVisits(visit, Unmarked(C), ids)}
  BY DEF CalculationOrder, AllVisits, Unmarked, CalculatedIds, DependsOf, Visits, VisitMarks
<1> HIDE DEF C, ids, raw, depends
<1>4. IsVisit(visit, C, depends, raw)
  <2>1. \E f : f = [p \in Visits(C) |-> VisitFrom(f, p, depends, raw)]
    <3>1. \E f : IsVisit(f, C, depends, raw)
      BY <1>1, VisitExists
    <3> QED
      BY <3>1 DEF IsVisit
  <2> QED
    BY <2>1 DEF IsVisit
<1> HIDE DEF visit
<1>5. \A p \in Visits(C) : visit[p] \in SUBSET Ordered(C)
  BY <1>1, <1>4, VisitAnswers DEF Narrows
<1>6. N \in Nat /\ ids \in [1..N -> C]
  BY <1>2, SeqIsList
<1> HIDE DEF N
<1>7. Unmarked(C) \in Ordered(C)
  BY DEF Unmarked, Ordered, VisitMarks
<1>8. PICK h : OrdersBy(h, N, C, visit, Unmarked(C), ids)
  BY <1>5, <1>6, <1>7, OrderSteps
<1>9. AllVisits(visit, Unmarked(C), ids) \in SUBSET Ordered(C)
  BY <1>6, <1>8 DEF OrdersBy
<1> QED
  BY <1>3, <1>9 DEF Ordered, C

-----------------------------------------------------------------------------
(* The calculation of a frame. *)

\* A frame with one more value in it.
Valued(f, i, y) == [f EXCEPT !.calculated[i] = y]

\* The frames one more signal is calculated in.
CalculatedNext(cfg, frames, i) ==
  LET s == RowIn(cfg.signals, i)
      nodes == CHOOSE n \in Compiled(cfg, s) : TRUE
  IN UNION {UNION {{Valued(f, Place(cfg, s).index, y) :
                      y \in Calibrated(cfg, s, x)} :
                     x \in Evaluated(nodes, ValuesIn(cfg, f))} : f \in frames}

FrameOfSamples(cfg, samples) ==
  [raw |-> Assembled(cfg, samples),
   calculated |-> [c \in 0..Len(CalculatedSignals(cfg)) - 1 |-> InvalidSignalValue]]


\* The calculation of a frame, signal by signal.
CalculatesBy(g, n, cfg, plan, samples) ==
  g = [s \in SUBSET (1..n) |-> IF s = {} THEN {FrameOfSamples(cfg, samples)} ELSE CalculatedNext(cfg, g[s \ {Max(s)}], plan[Max(s)])]

LEMMA CalculatesExist ==
  ASSUME NEW N \in Nat, NEW cfg, NEW plan, NEW samples
  PROVE  \E g : CalculatesBy(g, N, cfg, plan, samples)
<1> DEFINE E(n) == \E g : CalculatesBy(g, n, cfg, plan, samples)
           S == {n \in Nat : E(n)}
<1>1. 0 \in S
  <2> DEFINE g == [s \in SUBSET (1..0) |-> {FrameOfSamples(cfg, samples)}]
  <2>1. \A s \in SUBSET (1..0) : s = {}
    OBVIOUS
  <2>2. CalculatesBy(g, 0, cfg, plan, samples)
    BY <2>1 DEF CalculatesBy
  <2> QED
    BY <2>2
<1>2. \A n \in Nat : n \in S => n + 1 \in S
  <2> SUFFICES ASSUME NEW n \in Nat, E(n)
               PROVE  E(n + 1)
    <3> HIDE DEF E
    <3> QED
      OBVIOUS
  <2>1. PICK g : CalculatesBy(g, n, cfg, plan, samples)
    OBVIOUS
  <2> DEFINE m == n + 1
             T == SUBSET (1..m)
             h == [s \in T |-> IF m \in s THEN CalculatedNext(cfg, g[s \ {m}], plan[m]) ELSE g[s]]
  <2>2. \A s \in T : IF m \in s THEN s \ {m} \in SUBSET (1..n) ELSE s \in SUBSET (1..n)
    OBVIOUS
  <2>3. ASSUME NEW s \in T
        PROVE  h[s] = IF s = {} THEN {FrameOfSamples(cfg, samples)} ELSE CalculatedNext(cfg, h[s \ {Max(s)}], plan[Max(s)])
    <3>1. CASE m \in s
      <4>1. Max(s) = m
        <5>1. m \in Nat /\ s \in SUBSET (1..m) /\ s # {}
          BY <3>1
        <5>2. Max(s) \in s /\ \A y \in s : Max(s) >= y
          <6> HIDE DEF m
          <6> QED
            BY <5>1, MaxIsThere
        <5>3. Max(s) \in 1..m /\ Max(s) >= m
          BY <3>1, <5>1, <5>2
        <5> QED
          BY <5>1, <5>3
      <4>2. s \ {m} \in T /\ m \notin s \ {m}
        OBVIOUS
      <4>3. h[s \ {m}] = g[s \ {m}] /\ h[s] = CalculatedNext(cfg, g[s \ {m}], plan[m])
        BY <3>1, <4>2
      <4> HIDE DEF h, m
      <4> QED
        BY <3>1, <4>1, <4>3
    <3>2. CASE m \notin s
      <4>1. s \in SUBSET (1..n) /\ s \ {Max(s)} \in SUBSET (1..n)
        BY <2>2, <3>2
      <4>2. h[s] = g[s]
        BY <3>2
      <4>3. h[s \ {Max(s)}] = g[s \ {Max(s)}]
        <5>1. s \ {Max(s)} \in T /\ m \notin s \ {Max(s)}
          BY <3>2
        <5> QED
          BY <5>1
      <4>4. g[s] = IF s = {} THEN {FrameOfSamples(cfg, samples)} ELSE CalculatedNext(cfg, g[s \ {Max(s)}], plan[Max(s)])
        BY <2>1, <4>1 DEF CalculatesBy
      <4> HIDE DEF h, T, m
      <4> QED
        BY <4>2, <4>3, <4>4
    <3> QED
      BY <3>1, <3>2
  <2>4. h = [s \in T |-> h[s]]
    OBVIOUS
  <2> HIDE DEF h
  <2>5. CalculatesBy(h, m, cfg, plan, samples)
    BY <2>3, <2>4 DEF CalculatesBy
  <2> QED
    BY <2>5
<1> HIDE DEF S
<1>3. N \in S
  BY <1>1, <1>2, AllNaturals
<1> QED
  BY <1>3 DEF S

CalculatedInTurn(h, N, cfg, plan, samples) ==
  /\ h[0] = {FrameOfSamples(cfg, samples)}
  /\ \A k \in 1..N : h[k] = CalculatedNext(cfg, h[k - 1], plan[k])
  /\ Processed(cfg, plan, samples) = h[N]

LEMMA CalculatesSteps ==
  ASSUME NEW N \in Nat, NEW cfg, NEW samples, NEW C, NEW plan \in [1..N -> C]
  PROVE  \E h : CalculatedInTurn(h, N, cfg, plan, samples)
<1> DEFINE base == {FrameOfSamples(cfg, samples)}
           by(g, s) == IF s = {} THEN base ELSE CalculatedNext(cfg, g[s \ {Max(s)}], plan[Max(s)])
<1>1. \E g : g = [s \in SUBSET (1..N) |-> by(g, s)]
  <2>1. \E g : CalculatesBy(g, N, cfg, plan, samples)
    BY CalculatesExist
  <2> QED
    BY <2>1 DEF CalculatesBy
<1> DEFINE iter == CHOOSE i : i = [s \in SUBSET (1..N) |-> by(i, s)]
<1>2. iter = [s \in SUBSET (1..N) |-> by(iter, s)]
  <2> HIDE DEF by
  <2> QED
    BY <1>1
<1>3. Processed(cfg, plan, samples) = iter[1..N]
  <2>1. DOMAIN plan = 1..N
    OBVIOUS
  <2> HIDE DEF Max
  <2> QED
    BY <2>1 DEF Processed, FoldLeft, MapThenFoldSet, CalculatedNext, FrameOfSamples, Valued, base
<1> HIDE DEF iter, base
<1> DEFINE h == [k \in 0..N |-> iter[1..k]]
<1>4. h[0] = base
  <2>1. 1..0 = {} /\ 1..0 \in SUBSET (1..N)
    OBVIOUS
  <2> QED
    BY <1>2, <2>1
<1>5. \A k \in 1..N : h[k] = CalculatedNext(cfg, h[k - 1], plan[k])
  <2> TAKE k \in 1..N
  <2>1. Max(1..k) = k /\ 1..k # {} /\ (1..k) \ {k} = 1..(k - 1)
    <3>1. k \in Nat \ {0}
      OBVIOUS
    <3> QED
      BY <3>1, LastOfPrefix
  <2>2. iter[1..k] = by(iter, 1..k)
    <3>1. 1..k \in SUBSET (1..N)
      OBVIOUS
    <3> QED
      BY <1>2, <3>1
  <2>3. by(iter, 1..k) = CalculatedNext(cfg, iter[1..(k - 1)], plan[k])
    BY <2>1
  <2>4. h[k] = iter[1..k] /\ h[k - 1] = iter[1..(k - 1)]
    OBVIOUS
  <2> HIDE DEF h, by
  <2> QED
    BY <2>2, <2>3, <2>4
<1>6. h[N] = iter[1..N]
  OBVIOUS
<1> HIDE DEF h
<1>7. CalculatedInTurn(h, N, cfg, plan, samples)
  BY <1>3, <1>4, <1>5, <1>6 DEF base, CalculatedInTurn
<1> QED
  BY <1>7


\* The calculation leaves the samples where the assembler put them.
LEMMA ProcessedKeepsSamples ==
  ASSUME NEW cfg, NEW samples, NEW C, NEW plan \in Seq(C), NEW f \in Processed(cfg, plan, samples)
  PROVE  f.raw = Assembled(cfg, samples)
<1> DEFINE N == Len(plan)
           HasSamples(g) == DOMAIN g = {"raw", "calculated"} /\ g.raw = Assembled(cfg, samples)
           AllHave(k, h) == \A g \in h[k] : HasSamples(g)
<1>1. N \in Nat /\ plan \in [1..N -> C]
  OBVIOUS
<1> HIDE DEF N
<1>2. PICK h : CalculatedInTurn(h, N, cfg, plan, samples)
  BY <1>1, CalculatesSteps
<1>3. AllHave(0, h)
  BY <1>2 DEF CalculatedInTurn, FrameOfSamples
<1>4. ASSUME NEW k \in 1..N, AllHave(k - 1, h) PROVE AllHave(k, h)
  <2>1. h[k] = CalculatedNext(cfg, h[k - 1], plan[k])
    BY <1>2 DEF CalculatedInTurn
  <2>2. ASSUME NEW g \in h[k - 1], HasSamples(g), NEW i, NEW y
        PROVE  HasSamples(Valued(g, i, y))
    BY <2>2 DEF Valued
  <2> HIDE DEF HasSamples
  <2> SUFFICES ASSUME NEW r \in h[k] PROVE HasSamples(r)
    OBVIOUS
  <2>3. \E g \in h[k - 1] : \E i, y : r = Valued(g, i, y)
    BY <2>1 DEF CalculatedNext
  <2> QED
    BY <1>4, <2>2, <2>3
<1> HIDE DEF HasSamples
<1> DEFINE S == {k \in Nat : k <= N => AllHave(k, h)}
<1>5. 0 \in S
  BY <1>3
<1>6. \A k \in Nat : k \in S => k + 1 \in S
  <2> SUFFICES ASSUME NEW k \in Nat, k + 1 <= N, AllHave(k, h) PROVE AllHave(k + 1, h)
    <3> HIDE DEF AllHave
    <3>1. \A k \in Nat : k + 1 <= N => k <= N
      BY <1>1
    <3> QED
      BY <3>1
  <2>1. k + 1 \in 1..N /\ (k + 1) - 1 = k
    BY <1>1
  <2> HIDE DEF AllHave
  <2> QED
    BY <1>4, <2>1
<1> HIDE DEF S
<1>7. N \in S
  BY <1>1, <1>5, <1>6, AllNaturals
<1>8. AllHave(N, h)
  BY <1>1, <1>7 DEF S
<1>9. Processed(cfg, plan, samples) = h[N]
  BY <1>2 DEF CalculatedInTurn
<1> QED
  BY <1>8, <1>9 DEF HasSamples

-----------------------------------------------------------------------------
(* The order is right. *)

\* Every signal of an order comes after what it depends on.
DependedFirst(order, depends, raw) ==
  \A k \in 1..Len(order) :
    \A d \in ToSet(depends[order[k]]) : d \in raw \/ \E j \in 1..(k - 1) : order[j] = d

\* The order has every signal that was visited, once, and after what it depends on.
Sorted(C, depends, raw, r) ==
  /\ \A i \in C : r.marks[i] = "Visited" <=> \E k \in 1..Len(r.order) : r.order[k] = i
  /\ \A j, k \in 1..Len(r.order) : r.order[j] = r.order[k] => j = k
  /\ DependedFirst(r.order, depends, raw)

\* Visits keep the marks of what was visited, and of what is being visited.
Grows(C, p, r) ==
  \A i \in C : /\ p.marks[i] = "Visited" => r.marks[i] = "Visited"
               /\ p.marks[i] = "Visiting" <=> r.marks[i] = "Visiting"

\* Every signal that is being visited depends on another one that is, or on the one
\* to be visited.
Chained(C, depends, raw, marks, i) ==
  \A v \in C : marks[v] = "Visiting" =>
    \E d \in ToSet(depends[v]) \ raw : d = i \/ (d \in C /\ marks[d] = "Visiting")
ChainedBut(C, depends, raw, marks, u) ==
  \A v \in C \ {u} : marks[v] = "Visiting" =>
    \E d \in ToSet(depends[v]) \ raw : d \in C /\ marks[d] = "Visiting"

\* Every set of calculated signals has one that depends on none of the set.
NoLoops(C, depends, raw) ==
  \A S \in SUBSET C : S # {} => \E i \in S : \A d \in ToSet(depends[i]) \ raw : d \notin S

\* What a visit should come to.
VisitsWell(C, depends, raw, p, results) ==
  /\ \A r \in results :
       /\ r \in Ordered(C) /\ Grows(C, p, r) /\ r.marks[p.id] = "Visited"
       /\ Sorted(C, depends, raw, p) => Sorted(C, depends, raw, r)
  /\ NoLoops(C, depends, raw) /\ Chained(C, depends, raw, p.marks, p.id) => results # {}

\* What the visits of the first dependencies of a signal come to.
DependenciesVisited(C, depends, raw, list, start, u, k, results) ==
  /\ \A r \in results :
       /\ r \in Ordered(C) /\ Grows(C, start, r)
       /\ Sorted(C, depends, raw, start) => Sorted(C, depends, raw, r)
       /\ \A j \in 1..k : list[j] \in raw \/ r.marks[list[j]] = "Visited"
  /\ NoLoops(C, depends, raw) /\ ChainedBut(C, depends, raw, start.marks, u) => results # {}

LEMMA GrowsOn ==
  ASSUME NEW C, NEW p, NEW q, NEW r, Grows(C, p, q), Grows(C, q, r)
  PROVE  Grows(C, p, r)
BY DEF Grows

LEMMA OneMoreVisited ==
  ASSUME NEW C, NEW raw, NEW depends, NEW f, NEW start \in Ordered(C),
         NEW u \in C, start.marks[u] = "Visiting",
         NEW N \in Nat, NEW list \in [1..N -> C \cup raw], ToSet(depends[u]) = {list[j] : j \in 1..N},
         NEW k \in 1..N, NEW results \in SUBSET Within(C, New(C, start.marks)),
         \A q \in Visits(C) : New(C, q.marks) \subseteq New(C, start.marks) =>
           VisitsWell(C, depends, raw, q, f[q]),
         DependenciesVisited(C, depends, raw, list, start, u, k - 1, results)
  PROVE  DependenciesVisited(C, depends, raw, list, start, u, k, VisitNext(f, raw, results, list[k]))
<1> DEFINE d == list[k]
           call(r) == [id |-> d, marks |-> r.marks, order |-> r.order]
<1>0. \A j \in 1..k : j = k \/ j \in 1..(k - 1)
  OBVIOUS
<1>1. CASE d \in raw
  <2>1. VisitNext(f, raw, results, d) = results
    BY <1>1 DEF VisitNext
  <2> QED
    BY <1>0, <1>1, <2>1 DEF DependenciesVisited
<1>2. CASE d \notin raw
  <2>1. VisitNext(f, raw, results, d) = UNION {f[call(r)] : r \in results}
    BY <1>2 DEF VisitNext
  <2>2. d \in C
    BY <1>2
  <2>3. ASSUME NEW r \in results
        PROVE  VisitsWell(C, depends, raw, call(r), f[call(r)])
    <3>1. call(r) \in Visits(C) /\ New(C, call(r).marks) \subseteq New(C, start.marks)
      BY <2>2 DEF Visits, Within, Ordered
    <3> HIDE DEF call
    <3> QED
      BY <3>1
  <2>4. ASSUME NEW r \in results, NEW o \in f[call(r)]
        PROVE  /\ o \in Ordered(C) /\ Grows(C, start, o)
               /\ Sorted(C, depends, raw, start) => Sorted(C, depends, raw, o)
               /\ \A j \in 1..k : list[j] \in raw \/ o.marks[list[j]] = "Visited"
    <3>1. /\ o \in Ordered(C) /\ Grows(C, call(r), o) /\ o.marks[d] = "Visited"
          /\ Sorted(C, depends, raw, call(r)) => Sorted(C, depends, raw, o)
      BY <2>3, <2>4 DEF VisitsWell
    <3>2. /\ Grows(C, start, r)
          /\ Sorted(C, depends, raw, start) => Sorted(C, depends, raw, r)
          /\ \A j \in 1..(k - 1) : list[j] \in raw \/ r.marks[list[j]] = "Visited"
      BY DEF DependenciesVisited
    <3>3. Grows(C, r, o)
      BY <3>1 DEF Grows
    <3>4. Sorted(C, depends, raw, r) => Sorted(C, depends, raw, call(r))
      BY DEF Sorted
    <3>5. Grows(C, start, o)
      BY <3>2, <3>3, GrowsOn
    <3>6. \A j \in 1..k : list[j] \in raw \/ o.marks[list[j]] = "Visited"
      <4> TAKE j \in 1..k
      <4>1. CASE j = k
        BY <3>1, <4>1
      <4>2. CASE j \in 1..(k - 1)
        <5>1. list[j] \in raw \/ (list[j] \in C /\ r.marks[list[j]] = "Visited")
          BY <3>2, <4>2
        <5> QED
          BY <3>3, <5>1 DEF Grows
      <4> QED
        BY <1>0, <4>1, <4>2
    <3> QED
      BY <3>1, <3>2, <3>4, <3>5, <3>6
  <2>5. ASSUME NoLoops(C, depends, raw), ChainedBut(C, depends, raw, start.marks, u)
        PROVE  VisitNext(f, raw, results, d) # {}
    <3>1. PICK r \in results : TRUE
      BY <2>5 DEF DependenciesVisited
    <3>2. Grows(C, start, r)
      BY DEF DependenciesVisited
    <3>3. Chained(C, depends, raw, r.marks, d)
      <4> SUFFICES ASSUME NEW v \in C, r.marks[v] = "Visiting"
                   PROVE  \E e \in ToSet(depends[v]) \ raw :
                            e = d \/ (e \in C /\ r.marks[e] = "Visiting")
        BY DEF Chained
      <4>1. CASE v = u
        BY <1>2, <4>1
      <4>2. CASE v # u
        <5>1. start.marks[v] = "Visiting"
          BY <3>2 DEF Grows
        <5>2. PICK e \in ToSet(depends[v]) \ raw : e \in C /\ start.marks[e] = "Visiting"
          BY <2>5, <4>2, <5>1 DEF ChainedBut
        <5>3. r.marks[e] = "Visiting"
          BY <3>2, <5>2 DEF Grows
        <5> QED
          BY <5>2, <5>3
      <4> QED
        BY <4>1, <4>2
    <3>4. f[call(r)] # {}
      BY <2>3, <2>5, <3>3 DEF VisitsWell
    <3> HIDE DEF call
    <3>5. f[call(r)] \subseteq UNION {f[call(o)] : o \in results}
      BY <3>1
    <3> QED
      BY <2>1, <3>4, <3>5
  <2> HIDE DEF call
  <2> QED
    BY <2>1, <2>4, <2>5 DEF DependenciesVisited
<1> QED
  BY <1>1, <1>2

LEMMA AfterVisitsWell ==
  ASSUME NEW C, NEW raw, NEW depends, NEW f, NEW start \in Ordered(C),
         NEW u \in C, start.marks[u] = "Visiting", NEW list \in Seq(C \cup raw), list = depends[u],
         Fewer(C, f, f, New(C, start.marks)),
         \A q \in Visits(C) : New(C, q.marks) \subseteq New(C, start.marks) =>
           VisitsWell(C, depends, raw, q, f[q])
  PROVE  DependenciesVisited(C, depends, raw, list, start, u, Len(list),
                             AfterVisits(f, raw, start, list))
<1> DEFINE N == Len(list)
           fresh == New(C, start.marks)
           Well(k, results) == DependenciesVisited(C, depends, raw, list, start, u, k, results)
<1>1. N \in Nat /\ list \in [1..N -> C \cup raw] /\ ToSet(depends[u]) = {list[j] : j \in 1..N}
  <2>1. N \in Nat /\ list \in [1..N -> C \cup raw] /\ DOMAIN list = 1..N
    BY SeqIsList
  <2> QED
    BY <2>1 DEF ToSet
<1> HIDE DEF N
<1>2. PICK h : VisitsBy(h, N, C, raw, fresh, f, start, list)
  <2>1. start \in Within(C, fresh)
    BY DEF Within
  <2> QED
    BY <1>1, <2>1, VisitSteps
<1>3. /\ h \in [0..N -> SUBSET Within(C, fresh)]
      /\ h[0] = {start}
      /\ \A k \in 1..N : h[k] = VisitNext(f, raw, h[k - 1], list[k])
      /\ AfterVisits(f, raw, start, list) = h[N]
  BY <1>2 DEF VisitsBy
<1>4. Well(0, h[0])
  BY <1>3 DEF DependenciesVisited, Grows
<1>5. ASSUME NEW k \in 1..N, Well(k - 1, h[k - 1]) PROVE Well(k, h[k])
  <2>1. k - 1 \in 0..N
    BY <1>1
  <2>2. h[k - 1] \in SUBSET Within(C, fresh) /\ h[k] = VisitNext(f, raw, h[k - 1], list[k])
    BY <1>3, <2>1
  <2>3. Well(k, VisitNext(f, raw, h[k - 1], list[k]))
    BY <1>1, <1>5, <2>2, OneMoreVisited
  <2> HIDE DEF Well
  <2> QED
    BY <2>2, <2>3
<1> HIDE DEF Well
<1> DEFINE S == {k \in Nat : k <= N => Well(k, h[k])}
<1>6. 0 \in S
  BY <1>4
<1>7. \A k \in Nat : k \in S => k + 1 \in S
  <2> SUFFICES ASSUME NEW k \in Nat, k + 1 <= N, Well(k, h[k]) PROVE Well(k + 1, h[k + 1])
    <3>1. \A k \in Nat : k + 1 <= N => k <= N
      BY <1>1
    <3> QED
      BY <3>1
  <2>1. k + 1 \in 1..N /\ (k + 1) - 1 = k
    BY <1>1
  <2> QED
    BY <1>5, <2>1
<1> HIDE DEF S
<1>8. N \in S
  BY <1>1, <1>6, <1>7, AllNaturals
<1>9. Well(N, h[N])
  BY <1>1, <1>8 DEF S
<1> QED
  BY <1>3, <1>9 DEF Well, N

\* A visit comes to what it should if the visits it makes do.
LEMMA VisitFromWell ==
  ASSUME NEW C, NEW raw, NEW depends \in [C -> Seq(C \cup raw)], NEW f, NEW p \in Visits(C),
         p.marks[p.id] = "NotVisited" =>
           /\ Fewer(C, f, f, New(C, p.marks) \ {p.id})
           /\ \A q \in Visits(C) : New(C, q.marks) \subseteq New(C, p.marks) \ {p.id} =>
                VisitsWell(C, depends, raw, q, f[q])
  PROVE  VisitsWell(C, depends, raw, p, VisitFrom(f, p, depends, raw))
<1>0. p.id \in C /\ p.marks \in VisitMarks(C) /\ p.order \in Seq(C)
  BY DEF Visits
<1>1. CASE p.marks[p.id] = "Visited"
  <2> DEFINE r == [marks |-> p.marks, order |-> p.order]
  <2>1. VisitFrom(f, p, depends, raw) = {r}
    BY <1>1 DEF VisitFrom
  <2>2. r \in Ordered(C) /\ Grows(C, p, r) /\ r.marks[p.id] = "Visited"
    BY <1>0, <1>1 DEF Ordered, Grows
  <2>3. Sorted(C, depends, raw, p) => Sorted(C, depends, raw, r)
    BY DEF Sorted
  <2> HIDE DEF r
  <2> QED
    BY <2>1, <2>2, <2>3 DEF VisitsWell
<1>2. CASE p.marks[p.id] = "Visiting"
  <2>1. VisitFrom(f, p, depends, raw) = {}
    BY <1>2 DEF VisitFrom
  <2>2. ASSUME NoLoops(C, depends, raw), Chained(C, depends, raw, p.marks, p.id)
        PROVE  FALSE
    <3> DEFINE S == {v \in C : p.marks[v] = "Visiting"}
    <3>1. S \in SUBSET C /\ p.id \in S
      BY <1>0, <1>2
    <3>2. \A v \in S : \E d \in ToSet(depends[v]) \ raw : d \in S
      BY <2>2, <3>1 DEF Chained
    <3> HIDE DEF S
    <3> QED
      BY <2>2, <3>1, <3>2 DEF NoLoops
  <2> QED
    BY <2>1, <2>2 DEF VisitsWell
<1>3. CASE p.marks[p.id] = "NotVisited"
  <2> DEFINE start == Begun(p)
             list == depends[p.id]
             u == p.id
             after == AfterVisits(f, raw, start, list)
  <2>1. start \in Ordered(C) /\ list \in Seq(C \cup raw) /\ start.marks[u] = "Visiting"
    BY <1>0 DEF Begun, Ordered, VisitMarks
  <2>2. New(C, start.marks) = New(C, p.marks) \ {p.id}
    BY <1>0, <1>3 DEF Begun, New, VisitMarks
  <2>3. \A i \in C : i # u => start.marks[i] = p.marks[i]
    BY <1>0 DEF Begun, VisitMarks
  <2>4. start.order = p.order
    BY DEF Begun
  <2>5. VisitFrom(f, p, depends, raw) = Done(p, after)
    BY <1>3, VisitParts DEF VisitFrom
  <2>6. u \in C /\ list = depends[u]
    BY <1>0
  <2> HIDE DEF start, list
  <2>7. DependenciesVisited(C, depends, raw, list, start, u, Len(list), after)
    <3>1. /\ Fewer(C, f, f, New(C, start.marks))
          /\ \A q \in Visits(C) : New(C, q.marks) \subseteq New(C, start.marks) =>
               VisitsWell(C, depends, raw, q, f[q])
      BY <1>3, <2>2
    <3> HIDE DEF u, after
    <3>2. DependenciesVisited(C, depends, raw, list, start, u, Len(list),
                              AfterVisits(f, raw, start, list))
      BY <2>1, <2>6, <3>1, AfterVisitsWell
    <3> QED
      BY <3>2 DEF after
  <2> HIDE DEF after
  <2>8. ASSUME NEW r \in after, NEW o,
               o = [marks |-> [r.marks EXCEPT ![p.id] = "Visited"], order |-> Append(r.order, p.id)]
        PROVE  /\ o \in Ordered(C) /\ Grows(C, p, o) /\ o.marks[p.id] = "Visited"
               /\ Sorted(C, depends, raw, p) => Sorted(C, depends, raw, o)
    <3>1. /\ r \in Ordered(C) /\ Grows(C, start, r)
          /\ Sorted(C, depends, raw, start) => Sorted(C, depends, raw, r)
          /\ \A j \in 1..Len(list) : list[j] \in raw \/ r.marks[list[j]] = "Visited"
      BY <2>7 DEF DependenciesVisited
    <3>2. r.marks \in VisitMarks(C) /\ r.order \in Seq(C)
      BY <3>1 DEF Ordered
    <3>3. /\ o.marks \in VisitMarks(C) /\ o.order \in Seq(C) /\ o.marks[u] = "Visited"
          /\ \A i \in C : i # u => o.marks[i] = r.marks[i]
          /\ o.order = Append(r.order, u)
      BY <2>6, <2>8, <3>2 DEF VisitMarks
    <3>4. Grows(C, p, o)
      BY <1>3, <2>3, <3>1, <3>3 DEF Grows
    <3>5. ASSUME Sorted(C, depends, raw, p) PROVE Sorted(C, depends, raw, o)
      <4>1. Sorted(C, depends, raw, start)
        BY <1>3, <2>1, <2>3, <2>4, <3>5 DEF Sorted
      <4>2. Sorted(C, depends, raw, r)
        BY <3>1, <4>1
      <4>3. r.marks[u] = "Visiting"
        BY <2>1, <2>6, <3>1 DEF Grows
      <4> DEFINE n == Len(r.order)
      <4>4. /\ n \in Nat /\ Len(o.order) = n + 1 /\ o.order[n + 1] = u
            /\ \A k \in 1..n : o.order[k] = r.order[k]
        BY <2>6, <3>2, <3>3
      <4>5. \A k \in 1..n : r.order[k] # u
        BY <2>6, <4>2, <4>3 DEF Sorted
      <4> HIDE DEF n
      <4>6. \A i \in C : o.marks[i] = "Visited" <=> \E k \in 1..(n + 1) : o.order[k] = i
        <5> TAKE i \in C
        <5>1. r.marks[i] = "Visited" <=> \E k \in 1..n : r.order[k] = i
          BY <4>2 DEF Sorted, n
        <5>2. CASE i = u
          BY <3>3, <4>4, <5>2
        <5>3. CASE i # u
          <6>0. \A k : k \in 1..(n + 1) <=> k = n + 1 \/ k \in 1..n
            BY <4>4
          <6>1. (\E k \in 1..(n + 1) : o.order[k] = i) <=> \E k \in 1..n : r.order[k] = i
            BY <4>4, <5>3, <6>0, Zenon
          <6> QED
            BY <3>3, <5>1, <5>3, <6>1
        <5> QED
          BY <5>2, <5>3
      <4>7. \A j, k \in 1..(n + 1) : o.order[j] = o.order[k] => j = k
        <5>1. \A j, k \in 1..n : r.order[j] = r.order[k] => j = k
          BY <4>2 DEF Sorted, n
        <5>2. \A k \in 1..(n + 1) : k = n + 1 \/ k \in 1..n
          BY <4>4
        <5> QED
          BY <4>4, <4>5, <5>1, <5>2
      <4>8. DependedFirst(o.order, depends, raw)
        <5> SUFFICES ASSUME NEW k \in 1..(n + 1), NEW d \in ToSet(depends[o.order[k]]), d \notin raw
                     PROVE  \E j \in 1..(k - 1) : o.order[j] = d
          BY <4>4 DEF DependedFirst
        <5>1. CASE k \in 1..n
          <6>1. PICK j \in 1..(k - 1) : r.order[j] = d
            BY <4>2, <4>4, <5>1 DEF Sorted, DependedFirst, n
          <6>2. j \in 1..n
            BY <4>4, <5>1
          <6> QED
            BY <4>4, <6>1, <6>2
        <5>2. CASE k = n + 1
          <6>1. d \in ToSet(list) /\ (k - 1) = n
            BY <2>6, <4>4, <5>2
          <6>2. d \in C /\ r.marks[d] = "Visited"
            <7>1. PICK j \in 1..Len(list) : list[j] = d
              BY <2>1, <6>1 DEF ToSet
            <7> QED
              BY <2>1, <3>1, <7>1
          <6>3. PICK j \in 1..n : r.order[j] = d
            BY <4>2, <6>2 DEF Sorted, n
          <6> QED
            BY <4>4, <6>1, <6>3
        <5> QED
          BY <4>4, <5>1, <5>2
      <4> QED
        BY <4>4, <4>6, <4>7, <4>8 DEF Sorted
    <3> QED
      BY <3>3, <3>4, <3>5, <2>6, <2>8 DEF Ordered
  <2>9. ASSUME NoLoops(C, depends, raw), Chained(C, depends, raw, p.marks, p.id)
        PROVE  after # {}
    <3>1. ChainedBut(C, depends, raw, start.marks, u)
      <4> SUFFICES ASSUME NEW v \in C \ {u}, start.marks[v] = "Visiting"
                   PROVE  \E d \in ToSet(depends[v]) \ raw : d \in C /\ start.marks[d] = "Visiting"
        BY DEF ChainedBut
      <4>1. PICK d \in ToSet(depends[v]) \ raw : d = u \/ (d \in C /\ p.marks[d] = "Visiting")
        BY <2>3, <2>9 DEF Chained
      <4> QED
        BY <2>1, <2>3, <2>6, <4>1
    <3> QED
      BY <2>7, <2>9, <3>1 DEF DependenciesVisited
  <2>10. Done(p, after) # {} <=> after # {}
    BY DEF Done
  <2> QED
    <3>1. \A o \in Done(p, after) : /\ o \in Ordered(C) /\ Grows(C, p, o) /\ o.marks[p.id] = "Visited"
                                    /\ Sorted(C, depends, raw, p) => Sorted(C, depends, raw, o)
      BY <2>8 DEF Done
    <3> QED
      BY <2>5, <2>9, <2>10, <3>1 DEF VisitsWell
<1> QED
  BY <1>0, <1>1, <1>2, <1>3 DEF VisitMarks

\* Every visit comes to what it should.
LEMMA EveryVisitWell ==
  ASSUME NEW C, IsFiniteSet(C), NEW raw, NEW depends \in [C -> Seq(C \cup raw)],
         NEW f, IsVisit(f, C, depends, raw), NEW p \in Visits(C)
  PROVE  VisitsWell(C, depends, raw, p, f[p])
<1> DEFINE Good(n) == \A q \in Visits(C) : Todo(C, q) < n => VisitsWell(C, depends, raw, q, f[q])
           S == {n \in Nat : Good(n)}
           all == Cardinality(C) + 1
<1>0. all \in Nat /\ \A q : Todo(C, q) < all /\ Todo(C, q) \in Nat
  <2>1. Cardinality(C) \in Nat
    BY FS_CardinalityType
  <2>2. \A q : Todo(C, q) \in Nat /\ Todo(C, q) <= Cardinality(C)
    BY TodoIsNumber
  <2> QED
    BY <2>1, <2>2
<1> HIDE DEF all
<1>1. 0 \in S
  <2>1. \A q : ~(Todo(C, q) < 0)
    BY <1>0
  <2> QED
    BY <2>1
<1>2. \A n \in Nat : n \in S => n + 1 \in S
  <2> SUFFICES ASSUME NEW n \in Nat, Good(n), NEW q \in Visits(C), Todo(C, q) < n + 1
               PROVE  VisitsWell(C, depends, raw, q, f[q])
    OBVIOUS
  <2>1. \A o \in Visits(C) : Narrows(C, f[o], o.marks)
    BY VisitAnswers
  <2>2. Fewer(C, f, f, New(C, q.marks) \ {q.id})
    BY <2>1 DEF Fewer
  <2>3. ASSUME q.marks[q.id] = "NotVisited", NEW o \in Visits(C),
               New(C, o.marks) \subseteq New(C, q.marks) \ {q.id}
        PROVE  VisitsWell(C, depends, raw, o, f[o])
    <3>1. q.id \in New(C, q.marks)
      BY <2>3 DEF New, Visits
    <3>2. Todo(C, o) < Todo(C, q) /\ Todo(C, o) \in Nat /\ Todo(C, q) \in Nat
      BY <2>3, <3>1, TodoIsNumber
    <3>3. Todo(C, o) < n
      BY <3>2
    <3> QED
      BY <3>3
  <2>4. VisitsWell(C, depends, raw, q, VisitFrom(f, q, depends, raw))
    BY <2>2, <2>3, VisitFromWell
  <2>5. f[q] = VisitFrom(f, q, depends, raw)
    BY DEF IsVisit
  <2> QED
    BY <2>4, <2>5
<1>3. all \in S
  <2> HIDE DEF S
  <2> QED
    BY <1>0, <1>1, <1>2, AllNaturals
<1> QED
  BY <1>0, <1>3

\* What the visits of the first calculated signals come to.
SignalsVisited(C, depends, raw, list, k, results) ==
  /\ \A r \in results :
       /\ r \in Ordered(C) /\ Sorted(C, depends, raw, r)
       /\ \A i \in C : r.marks[i] # "Visiting"
       /\ \A j \in 1..k : r.marks[list[j]] = "Visited"
  /\ NoLoops(C, depends, raw) => results # {}

LEMMA OneMoreSignalVisited ==
  ASSUME NEW C, NEW raw, NEW depends, NEW visit,
         \A q \in Visits(C) : VisitsWell(C, depends, raw, q, visit[q]),
         NEW N \in Nat, NEW list \in [1..N -> C], NEW k \in 1..N, NEW results,
         SignalsVisited(C, depends, raw, list, k - 1, results)
  PROVE  SignalsVisited(C, depends, raw, list, k, OrderNext(visit, results, list[k]))
<1> DEFINE i == list[k]
           call(r) == [id |-> i, marks |-> r.marks, order |-> r.order]
<1>0. i \in C /\ \A j \in 1..k : j = k \/ j \in 1..(k - 1)
  OBVIOUS
<1>1. OrderNext(visit, results, i) = UNION {visit[call(r)] : r \in results}
  BY DEF OrderNext
<1>2. ASSUME NEW r \in results
      PROVE  /\ VisitsWell(C, depends, raw, call(r), visit[call(r)])
             /\ r \in Ordered(C) /\ Sorted(C, depends, raw, call(r))
             /\ \A c \in C : r.marks[c] # "Visiting"
             /\ \A j \in 1..(k - 1) : r.marks[list[j]] = "Visited"
  <2>1. /\ r \in Ordered(C) /\ Sorted(C, depends, raw, r)
        /\ \A c \in C : r.marks[c] # "Visiting"
        /\ \A j \in 1..(k - 1) : r.marks[list[j]] = "Visited"
    BY DEF SignalsVisited
  <2>2. call(r) \in Visits(C)
    BY <1>0, <2>1 DEF Visits, Ordered
  <2>3. Sorted(C, depends, raw, call(r))
    BY <2>1 DEF Sorted
  <2> HIDE DEF call
  <2> QED
    BY <2>1, <2>2, <2>3
<1>3. ASSUME NEW r \in results, NEW o \in visit[call(r)]
      PROVE  /\ o \in Ordered(C) /\ Sorted(C, depends, raw, o)
             /\ \A c \in C : o.marks[c] # "Visiting"
             /\ \A j \in 1..k : o.marks[list[j]] = "Visited"
  <2>1. /\ o \in Ordered(C) /\ Grows(C, call(r), o) /\ o.marks[i] = "Visited"
        /\ Sorted(C, depends, raw, o)
    BY <1>2, <1>3 DEF VisitsWell
  <2>2. \A c \in C : /\ r.marks[c] = "Visited" => o.marks[c] = "Visited"
                     /\ r.marks[c] = "Visiting" <=> o.marks[c] = "Visiting"
    BY <2>1 DEF Grows
  <2>3. \A j \in 1..k : o.marks[list[j]] = "Visited"
    <3> TAKE j \in 1..k
    <3>1. CASE j = k
      BY <2>1, <3>1
    <3>2. CASE j \in 1..(k - 1)
      <4>1. list[j] \in C /\ r.marks[list[j]] = "Visited"
        BY <1>2, <3>2
      <4> QED
        BY <2>2, <4>1
    <3> QED
      BY <1>0, <3>1, <3>2
  <2> HIDE DEF call
  <2> QED
    BY <1>2, <2>1, <2>2, <2>3
<1>4. ASSUME NoLoops(C, depends, raw) PROVE OrderNext(visit, results, i) # {}
  <2>1. PICK r \in results : TRUE
    BY <1>4 DEF SignalsVisited
  <2>2. Chained(C, depends, raw, r.marks, i)
    BY <1>2 DEF Chained
  <2>3. visit[call(r)] # {}
    BY <1>2, <1>4, <2>2 DEF VisitsWell
  <2> HIDE DEF call
  <2>4. visit[call(r)] \subseteq UNION {visit[call(o)] : o \in results}
    BY <2>1
  <2> QED
    BY <1>1, <2>3, <2>4
<1> HIDE DEF call
<1> QED
  BY <1>1, <1>3, <1>4 DEF SignalsVisited

LEMMA AllVisitsWell ==
  ASSUME NEW C, IsFiniteSet(C), NEW raw, NEW depends \in [C -> Seq(C \cup raw)],
         NEW visit, IsVisit(visit, C, depends, raw), NEW list \in Seq(C)
  PROVE  SignalsVisited(C, depends, raw, list, Len(list), AllVisits(visit, Unmarked(C), list))
<1> DEFINE N == Len(list)
           Well(k, results) == SignalsVisited(C, depends, raw, list, k, results)
<1>1. N \in Nat /\ list \in [1..N -> C]
  BY SeqIsList
<1>2. \A p \in Visits(C) : visit[p] \in SUBSET Ordered(C)
  BY VisitAnswers DEF Narrows
<1>3. Unmarked(C) \in Ordered(C)
  BY DEF Unmarked, Ordered, VisitMarks
<1> HIDE DEF N
<1>4. PICK h : OrdersBy(h, N, C, visit, Unmarked(C), list)
  BY <1>1, <1>2, <1>3, OrderSteps
<1>5. /\ h[0] = {Unmarked(C)}
      /\ \A k \in 1..N : h[k] = OrderNext(visit, h[k - 1], list[k])
      /\ AllVisits(visit, Unmarked(C), list) = h[N]
  BY <1>4 DEF OrdersBy
<1>6. Well(0, h[0])
  <2>1. Sorted(C, depends, raw, Unmarked(C)) /\ \A i \in C : Unmarked(C).marks[i] = "NotVisited"
    BY DEF Sorted, Unmarked, DependedFirst
  <2> QED
    BY <1>3, <1>5, <2>1 DEF SignalsVisited
<1>7. ASSUME NEW k \in 1..N, Well(k - 1, h[k - 1]) PROVE Well(k, h[k])
  <2>1. \A q \in Visits(C) : VisitsWell(C, depends, raw, q, visit[q])
    BY EveryVisitWell
  <2>2. Well(k, OrderNext(visit, h[k - 1], list[k]))
    BY <1>1, <1>7, <2>1, OneMoreSignalVisited
  <2> HIDE DEF Well
  <2> QED
    BY <1>5, <2>2
<1> HIDE DEF Well
<1> DEFINE S == {k \in Nat : k <= N => Well(k, h[k])}
<1>8. 0 \in S
  BY <1>6
<1>9. \A k \in Nat : k \in S => k + 1 \in S
  <2> SUFFICES ASSUME NEW k \in Nat, k + 1 <= N, Well(k, h[k]) PROVE Well(k + 1, h[k + 1])
    <3>1. \A k \in Nat : k + 1 <= N => k <= N
      BY <1>1
    <3> QED
      BY <3>1
  <2>1. k + 1 \in 1..N /\ (k + 1) - 1 = k
    BY <1>1
  <2> QED
    BY <1>7, <2>1
<1> HIDE DEF S
<1>10. N \in S
  BY <1>1, <1>8, <1>9, AllNaturals
<1>11. Well(N, h[N])
  BY <1>1, <1>10 DEF S
<1> QED
  BY <1>5, <1>11 DEF Well, N

\* A plan that calculates every signal, once, and after the ones it reads.
IsPlan(cfg, plan) ==
  LET C == CalculatedIds(cfg)
  IN /\ plan \in Seq(C)
     /\ \A i \in C : \E k \in 1..Len(plan) : plan[k] = i
     /\ \A j, k \in 1..Len(plan) : plan[j] = plan[k] => j = k
     /\ DependedFirst(plan, DependsOf(cfg), Ids(RawSignals(cfg)))

\* CalculationOrder::build() yields an order only if it calculates every signal, once,
\* after the ones it reads, and it yields one whenever no signals depend on one another
\* in a circle.
THEOREM OrderIsRight ==
  ASSUME NEW cfg, IsConfiguration(cfg), SignalsApart(cfg), FormulasBuilt(cfg)
  PROVE  /\ \A plan \in CalculationOrder(cfg) : IsPlan(cfg, plan)
         /\ NoLoops(CalculatedIds(cfg), DependsOf(cfg), Ids(RawSignals(cfg))) =>
              CalculationOrder(cfg) # {}
<1> DEFINE C == CalculatedIds(cfg)
           ids == IdsOf(CalculatedSignals(cfg))
           raw == Ids(RawSignals(cfg))
           depends == DependsOf(cfg)
           visit == CHOOSE f : f = [p \in Visits(C) |-> VisitFrom(f, p, depends, raw)]
           results == AllVisits(visit, Unmarked(C), ids)
<1>1. IsFiniteSet(C) /\ depends \in [C -> Seq(C \cup raw)]
  BY DependsAreSignals
<1>2. ids \in Seq(C) /\ C = ToSet(ids)
  BY CalculatedHold DEF CalculatedIds
<1>3. CalculationOrder(cfg) = {r.order : r \in results}
  BY DEF CalculationOrder, AllVisits, Unmarked, CalculatedIds, DependsOf, Visits, VisitMarks
<1> HIDE DEF C, ids, raw, depends
<1>4. IsVisit(visit, C, depends, raw)
  <2>1. \E f : f = [p \in Visits(C) |-> VisitFrom(f, p, depends, raw)]
    <3>1. \E f : IsVisit(f, C, depends, raw)
      BY <1>1, VisitExists
    <3> QED
      BY <3>1 DEF IsVisit
  <2> QED
    BY <2>1 DEF IsVisit
<1> HIDE DEF visit
<1>5. SignalsVisited(C, depends, raw, ids, Len(ids), results)
  BY <1>1, <1>2, <1>4, AllVisitsWell
<1> HIDE DEF results
<1>6. ASSUME NEW r \in results PROVE IsPlan(cfg, r.order)
  <2>1. /\ r \in Ordered(C) /\ Sorted(C, depends, raw, r)
        /\ \A j \in 1..Len(ids) : r.marks[ids[j]] = "Visited"
    BY <1>5 DEF SignalsVisited
  <2>2. \A i \in C : \E k \in 1..Len(r.order) : r.order[k] = i
    <3> TAKE i \in C
    <3>1. PICK j \in 1..Len(ids) : ids[j] = i
      BY <1>2 DEF ToSet
    <3> QED
      BY <2>1, <3>1 DEF Sorted
  <2> QED
    BY <2>1, <2>2 DEF IsPlan, Sorted, Ordered, C, depends, raw
<1>7. NoLoops(C, depends, raw) => results # {}
  BY <1>5 DEF SignalsVisited
<1> QED
  BY <1>3, <1>6, <1>7 DEF C, depends, raw

-----------------------------------------------------------------------------
(* The evaluation of a formula. *)

\* A list of values, of whatever kind they are.
IsStack(s) == \E S : s \in Seq(S)

\* The stacks after one node more.
NodeDone(stacks, node, values) ==
  UNION {LET rest == Len(s) - node.operands
         IN {Append(SubSeq(s, 1, rest), v) :
               v \in NodeValue(node, SubSeq(s, rest + 1, Len(s)), values)} : s \in stacks}

Run(nodes, stacks, values) ==
  FoldLeft(LAMBDA before, node : NodeDone(before, node, values), stacks, nodes)

LEMMA EvaluatedRuns ==
  ASSUME NEW nodes, NEW values
  PROVE  Evaluated(nodes, values) = {s[1] : s \in Run(nodes, {<<>>}, values)}
BY DEF Evaluated, Run, NodeDone, FoldLeft, MapThenFoldSet

LEMMA StacksJoin ==
  ASSUME NEW s, IsStack(s), NEW t, IsStack(t), NEW v
  PROVE  /\ IsStack(<<>>) /\ IsStack(<<v>>)
         /\ Len(<<v>>) = 1
         /\ IsStack(s \o t) /\ Len(s \o t) = Len(s) + Len(t)
         /\ IsStack(Append(s, v)) /\ Append(s, v) = s \o <<v>>
         /\ Len(s) \in Nat
         /\ SubSeq(s \o t, 1, Len(s)) = s
         /\ SubSeq(s \o t, Len(s) + 1, Len(s \o t)) = t
         /\ s \o <<>> = s /\ <<>> \o s = s
<1>1. PICK S, T : s \in Seq(S) /\ t \in Seq(T)
  BY DEF IsStack
<1> DEFINE U == S \cup T \cup {v}
<1>2. s \in Seq(U) /\ t \in Seq(U) /\ v \in U
  BY <1>1
<1> HIDE DEF U
<1>3. IsStack(<<>>) /\ IsStack(<<v>>) /\ Len(<<v>>) = 1
  <2>1. <<>> \in Seq(U) /\ <<v>> \in Seq(U)
    BY <1>2
  <2> QED
    BY <2>1 DEF IsStack
<1>4. IsStack(s \o t) /\ Len(s \o t) = Len(s) + Len(t) /\ Len(s) \in Nat /\ Len(t) \in Nat
  <2>1. s \o t \in Seq(U)
    BY <1>2
  <2> QED
    BY <1>2, <2>1 DEF IsStack
<1>5. IsStack(Append(s, v)) /\ Append(s, v) = s \o <<v>>
  <2>1. Append(s, v) \in Seq(U)
    BY <1>2
  <2> QED
    BY <1>2, <2>1 DEF IsStack
<1>6. SubSeq(s \o t, 1, Len(s)) = s
  BY <1>2, <1>4
<1>7. SubSeq(s \o t, Len(s) + 1, Len(s \o t)) = t
  BY <1>2, <1>4
<1>8. s \o <<>> = s /\ <<>> \o s = s
  BY <1>2
<1> QED
  BY <1>3, <1>4, <1>5, <1>6, <1>7, <1>8

LEMMA StacksAssociate ==
  ASSUME NEW s, IsStack(s), NEW t, IsStack(t), NEW u, IsStack(u)
  PROVE  (s \o t) \o u = s \o (t \o u)
<1>1. PICK S, T, U : s \in Seq(S) /\ t \in Seq(T) /\ u \in Seq(U)
  BY DEF IsStack
<1> DEFINE W == S \cup T \cup U
<1>2. s \in Seq(W) /\ t \in Seq(W) /\ u \in Seq(W)
  BY <1>1
<1> HIDE DEF W
<1> QED
  BY <1>2

\* The nodes are visited one by one.
RunsBy(g, n, nodes, stacks, values) ==
  g = [s \in SUBSET (1..n) |-> IF s = {} THEN stacks ELSE NodeDone(g[s \ {Max(s)}], nodes[Max(s)], values)]

LEMMA RunsExist ==
  ASSUME NEW N \in Nat, NEW nodes, NEW stacks, NEW values
  PROVE  \E g : RunsBy(g, N, nodes, stacks, values)
<1> DEFINE E(n) == \E g : RunsBy(g, n, nodes, stacks, values)
           S == {n \in Nat : E(n)}
<1>1. 0 \in S
  <2> DEFINE g == [s \in SUBSET (1..0) |-> stacks]
  <2>1. \A s \in SUBSET (1..0) : s = {}
    OBVIOUS
  <2>2. RunsBy(g, 0, nodes, stacks, values)
    BY <2>1 DEF RunsBy
  <2> QED
    BY <2>2
<1>2. \A n \in Nat : n \in S => n + 1 \in S
  <2> SUFFICES ASSUME NEW n \in Nat, E(n)
               PROVE  E(n + 1)
    <3> HIDE DEF E
    <3> QED
      OBVIOUS
  <2>1. PICK g : RunsBy(g, n, nodes, stacks, values)
    OBVIOUS
  <2> DEFINE m == n + 1
             T == SUBSET (1..m)
             h == [s \in T |-> IF m \in s THEN NodeDone(g[s \ {m}], nodes[m], values) ELSE g[s]]
  <2>2. \A s \in T : IF m \in s THEN s \ {m} \in SUBSET (1..n) ELSE s \in SUBSET (1..n)
    OBVIOUS
  <2>3. ASSUME NEW s \in T
        PROVE  h[s] = IF s = {} THEN stacks ELSE NodeDone(h[s \ {Max(s)}], nodes[Max(s)], values)
    <3>1. CASE m \in s
      <4>1. Max(s) = m
        <5>1. m \in Nat /\ s \in SUBSET (1..m) /\ s # {}
          BY <3>1
        <5>2. Max(s) \in s /\ \A y \in s : Max(s) >= y
          <6> HIDE DEF m
          <6> QED
            BY <5>1, MaxIsThere
        <5>3. Max(s) \in 1..m /\ Max(s) >= m
          BY <3>1, <5>1, <5>2
        <5> QED
          BY <5>1, <5>3
      <4>2. s \ {m} \in T /\ m \notin s \ {m}
        OBVIOUS
      <4>3. h[s \ {m}] = g[s \ {m}] /\ h[s] = NodeDone(g[s \ {m}], nodes[m], values)
        BY <3>1, <4>2
      <4> HIDE DEF h, m
      <4> QED
        BY <3>1, <4>1, <4>3
    <3>2. CASE m \notin s
      <4>1. s \in SUBSET (1..n) /\ s \ {Max(s)} \in SUBSET (1..n)
        BY <2>2, <3>2
      <4>2. h[s] = g[s]
        BY <3>2
      <4>3. h[s \ {Max(s)}] = g[s \ {Max(s)}]
        <5>1. s \ {Max(s)} \in T /\ m \notin s \ {Max(s)}
          BY <3>2
        <5> QED
          BY <5>1
      <4>4. g[s] = IF s = {} THEN stacks ELSE NodeDone(g[s \ {Max(s)}], nodes[Max(s)], values)
        BY <2>1, <4>1 DEF RunsBy
      <4> HIDE DEF h, T, m
      <4> QED
        BY <4>2, <4>3, <4>4
    <3> QED
      BY <3>1, <3>2
  <2>4. h = [s \in T |-> h[s]]
    OBVIOUS
  <2> HIDE DEF h
  <2>5. RunsBy(h, m, nodes, stacks, values)
    BY <2>3, <2>4 DEF RunsBy
  <2> QED
    BY <2>5
<1> HIDE DEF S
<1>3. N \in S
  BY <1>1, <1>2, AllNaturals
<1> QED
  BY <1>3 DEF S

RunInTurn(h, N, nodes, stacks, values) ==
  /\ h[0] = stacks
  /\ \A k \in 1..N : h[k] = NodeDone(h[k - 1], nodes[k], values)
  /\ Run(nodes, stacks, values) = h[N]

LEMMA RunsSteps ==
  ASSUME NEW N \in Nat, NEW C, NEW nodes \in [1..N -> C], NEW stacks, NEW values
  PROVE  \E h : RunInTurn(h, N, nodes, stacks, values)
<1> DEFINE base == stacks
           by(g, s) == IF s = {} THEN base ELSE NodeDone(g[s \ {Max(s)}], nodes[Max(s)], values)
<1>1. \E g : g = [s \in SUBSET (1..N) |-> by(g, s)]
  <2>1. \E g : RunsBy(g, N, nodes, stacks, values)
    BY RunsExist
  <2> QED
    BY <2>1 DEF RunsBy
<1> DEFINE iter == CHOOSE i : i = [s \in SUBSET (1..N) |-> by(i, s)]
<1>2. iter = [s \in SUBSET (1..N) |-> by(iter, s)]
  <2> HIDE DEF by
  <2> QED
    BY <1>1
<1>3. Run(nodes, stacks, values) = iter[1..N]
  <2>1. DOMAIN nodes = 1..N
    OBVIOUS
  <2> HIDE DEF Max
  <2> QED
    BY <2>1 DEF Run, FoldLeft, MapThenFoldSet, base
<1> HIDE DEF iter, base
<1> DEFINE h == [k \in 0..N |-> iter[1..k]]
<1>4. h[0] = base
  <2>1. 1..0 = {} /\ 1..0 \in SUBSET (1..N)
    OBVIOUS
  <2> QED
    BY <1>2, <2>1
<1>5. \A k \in 1..N : h[k] = NodeDone(h[k - 1], nodes[k], values)
  <2> TAKE k \in 1..N
  <2>1. Max(1..k) = k /\ 1..k # {} /\ (1..k) \ {k} = 1..(k - 1)
    <3>1. k \in Nat \ {0}
      OBVIOUS
    <3> QED
      BY <3>1, LastOfPrefix
  <2>2. iter[1..k] = by(iter, 1..k)
    <3>1. 1..k \in SUBSET (1..N)
      OBVIOUS
    <3> QED
      BY <1>2, <3>1
  <2>3. by(iter, 1..k) = NodeDone(iter[1..(k - 1)], nodes[k], values)
    BY <2>1
  <2>4. h[k] = iter[1..k] /\ h[k - 1] = iter[1..(k - 1)]
    OBVIOUS
  <2> HIDE DEF h, by
  <2> QED
    BY <2>2, <2>3, <2>4
<1>6. h[N] = iter[1..N]
  OBVIOUS
<1> HIDE DEF h
<1>7. RunInTurn(h, N, nodes, stacks, values)
  BY <1>3, <1>4, <1>5, <1>6 DEF base, RunInTurn
<1> QED
  BY <1>7


\* There is one way to visit the nodes.
IsRun(h, N, nodes, stacks, values) ==
  /\ h[0] = stacks
  /\ \A k \in 1..N : h[k] = NodeDone(h[k - 1], nodes[k], values)

LEMMA RunIs ==
  ASSUME NEW N \in Nat, NEW C, NEW nodes \in [1..N -> C], NEW stacks, NEW values, NEW h,
         IsRun(h, N, nodes, stacks, values)
  PROVE  Run(nodes, stacks, values) = h[N]
<1>1. PICK g : RunInTurn(g, N, nodes, stacks, values)
  BY RunsSteps
<1> DEFINE S == {k \in Nat : k <= N => g[k] = h[k]}
<1>2. 0 \in S
  BY <1>1 DEF RunInTurn, IsRun
<1>3. \A k \in Nat : k \in S => k + 1 \in S
  <2> SUFFICES ASSUME NEW k \in Nat, k + 1 <= N, g[k] = h[k] PROVE g[k + 1] = h[k + 1]
    OBVIOUS
  <2>1. k + 1 \in 1..N /\ (k + 1) - 1 = k
    OBVIOUS
  <2>2. g[k + 1] = NodeDone(g[k], nodes[k + 1], values)
    BY <1>1, <2>1 DEF RunInTurn
  <2>3. h[k + 1] = NodeDone(h[k], nodes[k + 1], values)
    BY <2>1 DEF IsRun
  <2> QED
    BY <2>2, <2>3
<1> HIDE DEF S
<1>4. N \in S
  BY <1>2, <1>3, AllNaturals
<1> QED
  BY <1>1, <1>4 DEF RunInTurn, S

\* First some nodes, and then others.
LEMMA RunJoined ==
  ASSUME NEW C, NEW a \in Seq(C), NEW b \in Seq(C), NEW stacks, NEW values
  PROVE  Run(a \o b, stacks, values) = Run(b, Run(a, stacks, values), values)
<1> DEFINE M == Len(a)
           N == Len(b)
           c == a \o b
<1>1. /\ M \in Nat /\ N \in Nat /\ a \in [1..M -> C] /\ b \in [1..N -> C]
      /\ c \in [1..(M + N) -> C]
      /\ \A k \in 1..M : c[k] = a[k]
      /\ \A k \in 1..N : c[M + k] = b[k]
  <2>1. M \in Nat /\ N \in Nat /\ a \in [1..M -> C] /\ b \in [1..N -> C]
    OBVIOUS
  <2>2. c \in Seq(C) /\ Len(c) = M + N
    OBVIOUS
  <2>3. c \in [1..(M + N) -> C]
    <3> HIDE DEF c
    <3>1. Len(c) \in Nat /\ c \in [1..Len(c) -> C]
      BY <2>2, SeqIsList
    <3> QED
      BY <2>2, <3>1
  <2>4. \A k \in 1..M : c[k] = a[k]
    OBVIOUS
  <2>5. \A k \in 1..N : c[M + k] = b[k]
    OBVIOUS
  <2> QED
    BY <2>1, <2>3, <2>4, <2>5
<1> HIDE DEF M, N, c
<1>2. PICK h : RunInTurn(h, M + N, c, stacks, values)
  <2>1. M + N \in Nat
    BY <1>1
  <2> QED
    BY <1>1, <2>1, RunsSteps
<1>3. Run(a, stacks, values) = h[M]
  <2>1. \A k \in 1..M : h[k] = NodeDone(h[k - 1], a[k], values)
    <3> TAKE k \in 1..M
    <3>1. k \in 1..(M + N) /\ c[k] = a[k]
      BY <1>1
    <3>2. h[k] = NodeDone(h[k - 1], c[k], values)
      BY <1>2, <3>1 DEF RunInTurn
    <3> QED
      BY <3>1, <3>2
  <2>2. h[0] = stacks
    BY <1>2 DEF RunInTurn
  <2>3. IsRun(h, M, a, stacks, values)
    BY <2>1, <2>2 DEF IsRun
  <2>4. M \in Nat /\ N \in Nat /\ a \in [1..M -> C] /\ b \in [1..N -> C]
    BY <1>1
  <2> QED
    BY <2>3, <2>4, RunIs
<1> DEFINE g == [k \in 0..N |-> h[M + k]]
<1>4. Run(b, h[M], values) = g[N]
  <2>1. g[0] = h[M]
    BY <1>1
  <2>2. \A k \in 1..N : g[k] = NodeDone(g[k - 1], b[k], values)
    <3> TAKE k \in 1..N
    <3>1. M + k \in 1..(M + N) /\ c[M + k] = b[k] /\ (M + k) - 1 = M + (k - 1)
      BY <1>1
    <3>2. h[M + k] = NodeDone(h[(M + k) - 1], c[M + k], values)
      BY <1>2, <3>1 DEF RunInTurn
    <3>3. g[k] = h[M + k] /\ g[k - 1] = h[M + (k - 1)]
      BY <1>1
    <3> QED
      BY <3>1, <3>2, <3>3
  <2> HIDE DEF g
  <2>3. IsRun(g, N, b, h[M], values)
    BY <2>1, <2>2 DEF IsRun
  <2>4. M \in Nat /\ N \in Nat /\ a \in [1..M -> C] /\ b \in [1..N -> C]
    BY <1>1
  <2> QED
    BY <2>3, <2>4, RunIs
<1>5. g[N] = h[M + N]
  BY <1>1
<1>6. Run(c, stacks, values) = h[M + N]
  BY <1>2 DEF RunInTurn
<1> QED
  BY <1>3, <1>4, <1>5, <1>6 DEF c

\* No nodes, and one.
LEMMA RunNone ==
  ASSUME NEW stacks, NEW values
  PROVE  Run(<<>>, stacks, values) = stacks
<1> DEFINE h == [k \in {0} |-> stacks]
           none == <<>>
<1>1. IsRun(h, 0, none, stacks, values)
  BY DEF IsRun
<1>2. none \in [1..0 -> {}] /\ 0 \in Nat /\ h[0] = stacks
  OBVIOUS
<1> HIDE DEF h, none
<1>3. Run(none, stacks, values) = h[0]
  BY <1>1, <1>2, RunIs
<1> QED
  BY <1>2, <1>3 DEF none

LEMMA RunOne ==
  ASSUME NEW node, NEW stacks, NEW values
  PROVE  Run(<<node>>, stacks, values) = NodeDone(stacks, node, values)
<1> DEFINE h == [k \in 0..1 |-> IF k = 0 THEN stacks ELSE NodeDone(stacks, node, values)]
           one == <<node>>
           n == 1
<1>1. h[0] = stacks /\ h[1] = NodeDone(stacks, node, values)
  OBVIOUS
<1> HIDE DEF h
<1>2. IsRun(h, n, one, stacks, values)
  BY <1>1 DEF IsRun
<1>3. one \in [1..n -> {node}] /\ n \in Nat
  OBVIOUS
<1> HIDE DEF one, n
<1>4. Run(one, stacks, values) = h[n]
  BY <1>2, <1>3, RunIs
<1> QED
  BY <1>1, <1>4 DEF one, n

LEMMA RunPushed ==
  ASSUME NEW C, NEW a \in Seq(C), NEW node \in C, NEW stacks, NEW values
  PROVE  Run(Append(a, node), stacks, values) = NodeDone(Run(a, stacks, values), node, values)
<1> DEFINE one == <<node>>
<1>1. Append(a, node) = a \o one /\ one \in Seq(C)
  OBVIOUS
<1>2. \A t : Run(one, t, values) = NodeDone(t, node, values)
  BY RunOne
<1> HIDE DEF one
<1>3. Run(a \o one, stacks, values) = Run(one, Run(a, stacks, values), values)
  BY <1>1, RunJoined
<1> QED
  BY <1>1, <1>2, <1>3

\* Every stack is visited for itself.
LEMMA RunSpread ==
  ASSUME NEW C, NEW nodes \in Seq(C), NEW stacks, NEW values
  PROVE  Run(nodes, stacks, values) = UNION {Run(nodes, {s}, values) : s \in stacks}
<1> DEFINE N == Len(nodes)
<1>1. N \in Nat /\ nodes \in [1..N -> C]
  OBVIOUS
<1> HIDE DEF N
<1>2. \A s : \E g : RunInTurn(g, N, nodes, {s}, values)
  BY <1>1, RunsSteps
<1> DEFINE turns(s) == CHOOSE g : RunInTurn(g, N, nodes, {s}, values)
           h == [k \in 0..N |-> UNION {turns(s)[k] : s \in stacks}]
<1>3. \A s : RunInTurn(turns(s), N, nodes, {s}, values)
  BY <1>2
<1> HIDE DEF turns
<1>4. h[0] = stacks
  <2>1. \A s : turns(s)[0] = {s}
    BY <1>3 DEF RunInTurn
  <2> QED
    BY <1>1, <2>1
<1>5. \A k \in 1..N : h[k] = NodeDone(h[k - 1], nodes[k], values)
  <2> TAKE k \in 1..N
  <2>1. \A s : turns(s)[k] = NodeDone(turns(s)[k - 1], nodes[k], values)
    BY <1>3 DEF RunInTurn
  <2>2. h[k] = UNION {turns(s)[k] : s \in stacks} /\ h[k - 1] = UNION {turns(s)[k - 1] : s \in stacks}
    BY <1>1
  <2>3. h[k] = UNION {NodeDone(turns(s)[k - 1], nodes[k], values) : s \in stacks}
    BY <2>1, <2>2
  <2> DEFINE done(s) == {Append(SubSeq(s, 1, Len(s) - nodes[k].operands), v) :
                           v \in NodeValue(nodes[k], SubSeq(s, Len(s) - nodes[k].operands + 1, Len(s)), values)}
  <2>4. \A X : NodeDone(X, nodes[k], values) = UNION {done(s) : s \in X}
    BY DEF NodeDone
  <2> HIDE DEF done, h
  <2>5. \A X, x : x \in NodeDone(X, nodes[k], values) <=> \E t \in X : x \in done(t)
    BY <2>4
  <2>6. ASSUME NEW x \in h[k] PROVE x \in NodeDone(h[k - 1], nodes[k], values)
    <3>1. PICK s \in stacks : x \in NodeDone(turns(s)[k - 1], nodes[k], values)
      BY <2>3, <2>6
    <3>2. PICK t \in turns(s)[k - 1] : x \in done(t)
      BY <2>5, <3>1
    <3>3. t \in h[k - 1]
      BY <2>2, <3>2
    <3> QED
      BY <2>5, <3>2, <3>3
  <2>7. ASSUME NEW x \in NodeDone(h[k - 1], nodes[k], values) PROVE x \in h[k]
    <3>1. PICK t \in h[k - 1] : x \in done(t)
      BY <2>5, <2>7
    <3>2. PICK s \in stacks : t \in turns(s)[k - 1]
      BY <2>2, <3>1
    <3>3. x \in NodeDone(turns(s)[k - 1], nodes[k], values)
      BY <2>5, <3>1, <3>2
    <3> QED
      BY <2>3, <3>3
  <2> QED
    BY <2>6, <2>7
<1> HIDE DEF h
<1>6. Run(nodes, stacks, values) = h[N]
  <2>1. IsRun(h, N, nodes, stacks, values)
    BY <1>4, <1>5 DEF IsRun
  <2> QED
    BY <1>1, <2>1, RunIs
<1>7. \A s : Run(nodes, {s}, values) = turns(s)[N]
  BY <1>3 DEF RunInTurn
<1> QED
  BY <1>1, <1>6, <1>7 DEF h

\* Lists put above a stack, and the lists of one value.
Above(s, lists) == {s \o x : x \in lists}
Singles(V) == {<<v>> : v \in V}
AreStacks(lists) == \A x \in lists : IsStack(x)

\* Nodes turn some lists above a stack, any stack, into others.
Turns(nodes, before, after, values) ==
  \A s : IsStack(s) => Run(nodes, Above(s, before), values) = Above(s, after)

\* Nodes push what they come to.
Pushes(nodes, lists, values) == Turns(nodes, {<<>>}, lists, values)

LEMMA TurnsNone ==
  ASSUME NEW lists, NEW values
  PROVE  Turns(<<>>, lists, lists, values)
BY RunNone DEF Turns

LEMMA TurnsJoined ==
  ASSUME NEW C, NEW a \in Seq(C), NEW b \in Seq(C), NEW values, NEW before, NEW between, NEW after,
         Turns(a, before, between, values), Turns(b, between, after, values)
  PROVE  Turns(a \o b, before, after, values)
<1> SUFFICES ASSUME NEW s, IsStack(s)
             PROVE  Run(a \o b, Above(s, before), values) = Above(s, after)
  BY DEF Turns
<1>1. Run(a \o b, Above(s, before), values) = Run(b, Run(a, Above(s, before), values), values)
  BY RunJoined
<1>2. Run(a, Above(s, before), values) = Above(s, between)
  BY DEF Turns
<1>3. Run(b, Above(s, between), values) = Above(s, after)
  BY DEF Turns
<1> QED
  BY <1>1, <1>2, <1>3

\* A node takes its operands off the stacks.
LEMMA NodeTakes ==
  ASSUME NEW lists, AreStacks(lists), NEW node, NEW values, NEW s, IsStack(s),
         \A x \in lists : Len(x) = node.operands
  PROVE  NodeDone(Above(s, lists), node, values) =
           Above(s, Singles(UNION {NodeValue(node, x, values) : x \in lists}))
<1> DEFINE rest(t) == Len(t) - node.operands
           done(t) == {Append(SubSeq(t, 1, rest(t)), v) :
                         v \in NodeValue(node, SubSeq(t, rest(t) + 1, Len(t)), values)}
           own(x) == {s \o <<v>> : v \in NodeValue(node, x, values)}
           all == UNION {NodeValue(node, x, values) : x \in lists}
<1>1. NodeDone(Above(s, lists), node, values) = UNION {done(t) : t \in Above(s, lists)}
  BY DEF NodeDone
<1>2. ASSUME NEW x \in lists PROVE done(s \o x) = own(x)
  <2> DEFINE t == s \o x
  <2>1. IsStack(x) /\ Len(x) = node.operands
    BY DEF AreStacks
  <2>2. /\ Len(t) = Len(s) + Len(x) /\ Len(s) \in Nat /\ Len(x) \in Nat
        /\ SubSeq(t, 1, Len(s)) = s /\ SubSeq(t, Len(s) + 1, Len(t)) = x
    BY <2>1, StacksJoin
  <2>3. \A v : Append(s, v) = s \o <<v>>
    BY StacksJoin
  <2> HIDE DEF t
  <2>4. rest(t) = Len(s)
    BY <2>1, <2>2
  <2> HIDE DEF rest
  <2>5. done(t) = {Append(s, v) : v \in NodeValue(node, x, values)}
    BY <2>2, <2>4
  <2> QED
    BY <2>3, <2>5 DEF t
<1> HIDE DEF done
<1>3. UNION {done(t) : t \in Above(s, lists)} = UNION {own(x) : x \in lists}
  BY <1>2 DEF Above
<1>4. UNION {own(x) : x \in lists} = Above(s, Singles(all))
  <2>1. Above(s, Singles(all)) = {s \o <<v>> : v \in all}
    <3> HIDE DEF all
    <3> QED
      BY DEF Above, Singles
  <2> DEFINE put(v) == s \o <<v>>
  <2>2. /\ {s \o <<v>> : v \in all} = {put(v) : v \in all}
        /\ \A x : own(x) = {put(v) : v \in NodeValue(node, x, values)}
    OBVIOUS
  <2> DEFINE nv(x) == NodeValue(node, x, values)
  <2>3. all = UNION {nv(x) : x \in lists} /\ \A x : own(x) = {put(v) : v \in nv(x)}
    BY <2>2
  <2> HIDE DEF put, own, nv, all
  <2>4. UNION {own(x) : x \in lists} = {put(v) : v \in all}
    <3>1. UNION {own(x) : x \in lists} = UNION {{put(v) : v \in nv(x)} : x \in lists}
      BY <2>3
    <3> QED
      BY <2>3, <3>1
  <2> QED
    BY <2>1, <2>2, <2>4
<1> QED
  BY <1>1, <1>3, <1>4

LEMMA TurnsNode ==
  ASSUME NEW C, NEW a \in Seq(C), NEW node \in C, NEW values, NEW before, NEW lists,
         Turns(a, before, lists, values), AreStacks(lists),
         \A x \in lists : Len(x) = node.operands
  PROVE  Turns(Append(a, node), before,
               Singles(UNION {NodeValue(node, x, values) : x \in lists}), values)
<1> DEFINE after == Singles(UNION {NodeValue(node, x, values) : x \in lists})
<1> SUFFICES ASSUME NEW s, IsStack(s)
             PROVE  Run(Append(a, node), Above(s, before), values) = Above(s, after)
  BY DEF Turns
<1>1. Run(Append(a, node), Above(s, before), values) =
        NodeDone(Run(a, Above(s, before), values), node, values)
  BY RunPushed
<1>2. Run(a, Above(s, before), values) = Above(s, lists)
  BY DEF Turns
<1>3. NodeDone(Above(s, lists), node, values) = Above(s, after)
  BY NodeTakes
<1> QED
  BY <1>1, <1>2, <1>3

\* What is pushed does not depend on what is below.
Joins(before, after) == {x \o y : x \in before, y \in after}

LEMMA PushesAbove ==
  ASSUME NEW C, NEW a \in Seq(C), NEW values, NEW before, AreStacks(before),
         NEW lists, AreStacks(lists), Pushes(a, lists, values)
  PROVE  Turns(a, before, Joins(before, lists), values)
<1> SUFFICES ASSUME NEW s, IsStack(s)
             PROVE  Run(a, Above(s, before), values) = Above(s, Joins(before, lists))
  BY DEF Turns
<1>1. Run(a, Above(s, before), values) = UNION {Run(a, {t}, values) : t \in Above(s, before)}
  BY RunSpread
<1>2. ASSUME NEW x \in before PROVE Run(a, {s \o x}, values) = {s \o (x \o y) : y \in lists}
  <2>1. IsStack(x) /\ IsStack(s \o x)
    BY StacksJoin DEF AreStacks
  <2>2. Above(s \o x, {<<>>}) = {s \o x}
    <3>1. (s \o x) \o <<>> = s \o x
      <4> DEFINE t == s \o x
      <4>1. IsStack(t)
        BY <2>1
      <4> HIDE DEF t
      <4>2. t \o <<>> = t
        BY <4>1, StacksJoin
      <4> QED
        BY <4>2 DEF t
    <3> QED
      BY <3>1 DEF Above
  <2>3. Run(a, {s \o x}, values) = Above(s \o x, lists)
    BY <2>1, <2>2 DEF Pushes, Turns
  <2>4. \A y \in lists : (s \o x) \o y = s \o (x \o y)
    BY <2>1, StacksAssociate DEF AreStacks
  <2> QED
    BY <2>3, <2>4 DEF Above
<1>3. UNION {Run(a, {t}, values) : t \in Above(s, before)} =
        UNION {{s \o (x \o y) : y \in lists} : x \in before}
  <2> DEFINE run(t) == Run(a, {t}, values)
             put(x) == {s \o (x \o y) : y \in lists}
  <2>1. \A x \in before : run(s \o x) = put(x)
    BY <1>2
  <2> HIDE DEF run, put
  <2>2. UNION {run(t) : t \in Above(s, before)} = UNION {put(x) : x \in before}
    BY <2>1 DEF Above
  <2> QED
    BY <2>2 DEF run, put
<1>4. UNION {{s \o (x \o y) : y \in lists} : x \in before} = Above(s, Joins(before, lists))
  <2> DEFINE put(x) == s \o x
  <2>1. /\ UNION {{s \o (x \o y) : y \in lists} : x \in before} =
              UNION {{put(x \o y) : y \in lists} : x \in before}
        /\ \A T : Above(s, T) = {put(x) : x \in T}
    BY DEF Above
  <2> DEFINE join(x, y) == x \o y
  <2>2. UNION {{put(x \o y) : y \in lists} : x \in before} =
          UNION {{put(join(x, y)) : y \in lists} : x \in before}
    OBVIOUS
  <2>3. Joins(before, lists) = {join(x, y) : x \in before, y \in lists}
    BY DEF Joins
  <2> HIDE DEF put, join
  <2>4. UNION {{put(join(x, y)) : y \in lists} : x \in before} =
          {put(z) : z \in Joins(before, lists)}
    BY <2>3
  <2> QED
    BY <2>1, <2>2, <2>4
<1> QED
  BY <1>1, <1>3, <1>4

LEMMA SinglesAreStacks ==
  ASSUME NEW V
  PROVE  AreStacks(Singles(V)) /\ \A x \in Singles(V) : Len(x) = 1
<1>1. ASSUME NEW v PROVE IsStack(<<v>>) /\ Len(<<v>>) = 1
  <2>1. <<v>> \in Seq({v}) /\ Len(<<v>>) = 1
    OBVIOUS
  <2> QED
    BY <2>1 DEF IsStack
<1> QED
  BY <1>1 DEF AreStacks, Singles

LEMMA JoinsAreStacks ==
  ASSUME NEW a, AreStacks(a), NEW b, AreStacks(b)
  PROVE  AreStacks(Joins(a, b)) /\ (a = {<<>>} => Joins(a, b) = b)
<1>1. \A x \in a, y \in b : IsStack(x \o y)
  BY StacksJoin DEF AreStacks
<1>2. ASSUME NEW y \in b PROVE <<>> \o y = y
  <2>1. IsStack(y)
    BY DEF AreStacks
  <2> QED
    BY <2>1, StacksJoin
<1>3. AreStacks(Joins(a, b))
  <2> SUFFICES ASSUME NEW z \in Joins(a, b) PROVE IsStack(z)
    BY DEF AreStacks
  <2>1. PICK x \in a, y \in b : z = x \o y
    BY DEF Joins
  <2> QED
    BY <1>1, <2>1
<1>4. a = {<<>>} => Joins(a, b) = b
  <2> SUFFICES ASSUME a = {<<>>} PROVE Joins(a, b) = b
    OBVIOUS
  <2>1. Joins(a, b) = {<<>> \o y : y \in b}
    BY DEF Joins
  <2> QED
    BY <1>2, <2>1
<1> QED
  BY <1>3, <1>4

\* A formula evaluates to what it pushes on an empty stack.
LEMMA PushesOne ==
  ASSUME NEW nodes, NEW values, NEW V, Pushes(nodes, Singles(V), values)
  PROVE  Evaluated(nodes, values) = V
<1>1. IsStack(<<>>) /\ \A v : IsStack(<<v>>) /\ <<>> \o <<v>> = <<v>> /\ <<v>>[1] = v
  <2>1. IsStack(<<>>)
    <3>1. <<>> \in Seq({})
      OBVIOUS
    <3> QED
      BY <3>1 DEF IsStack
  <2>2. ASSUME NEW v PROVE IsStack(<<v>>) /\ <<>> \o <<v>> = <<v>> /\ <<v>>[1] = v
    <3>1. <<v>> \in Seq({v}) /\ <<>> \o <<v>> = <<v>> /\ <<v>>[1] = v
      OBVIOUS
    <3>2. IsStack(<<v>>)
      BY <3>1 DEF IsStack
    <3> QED
      BY <3>1, <3>2
  <2> QED
    BY <2>1, <2>2
<1>2. Above(<<>>, {<<>>}) = {<<>>} /\ Above(<<>>, Singles(V)) = Singles(V)
  BY <1>1 DEF Above, Singles
<1>3. Run(nodes, {<<>>}, values) = Singles(V)
  BY <1>1, <1>2 DEF Pushes, Turns
<1>4. {s[1] : s \in Singles(V)} = V
  BY <1>1 DEF Singles
<1> QED
  BY <1>3, <1>4, EvaluatedRuns

-----------------------------------------------------------------------------
(* The grammar. *)

\* How long a phrase is, and then what is a part of what.
Rank(kind) ==
  CASE kind = "list" -> 4 [] kind = "sum" -> 3 [] kind = "product" -> 2
    [] kind = "signed" -> 1 [] kind = "primary" -> 0
Span(kind, i, j) == IF j > i THEN 5 * (j - i) + Rank(kind) ELSE 0

LEMMA SpanIsNatural ==
  ASSUME NEW kind \in Phrases, NEW i \in Nat, NEW j \in Nat
  PROVE  Span(kind, i, j) \in Nat /\ Rank(kind) \in 0..4
<1>1. Rank(kind) \in 0..4
  BY DEF Rank, Phrases
<1> QED
  BY <1>1 DEF Span

LEMMA ShorterSpan ==
  ASSUME NEW kind \in Phrases, NEW i \in Nat, NEW j \in Nat, i < j,
         NEW other \in Phrases, NEW k \in Nat, NEW l \in Nat
  PROVE  /\ l - k < j - i => Span(other, k, l) < Span(kind, i, j)
         /\ k = i /\ l = j /\ Rank(other) < Rank(kind) => Span(other, k, l) < Span(kind, i, j)
<1>1. Rank(kind) \in 0..4 /\ Rank(other) \in 0..4
  BY SpanIsNatural
<1>2. Span(kind, i, j) = 5 * (j - i) + Rank(kind)
  BY DEF Span
<1>3. Span(other, k, l) = IF l > k THEN 5 * (l - k) + Rank(other) ELSE 0
  BY DEF Span
<1>4. \A x, y \in Int : \A a, b \in 0..4 : x > 0 /\ y < x => 5 * y + b < 5 * x + a /\ 0 < 5 * x + a
  OBVIOUS
<1> DEFINE x == j - i
           y == l - k
<1>5. x \in Int /\ y \in Int /\ x > 0
  OBVIOUS
<1>6. y < x => 5 * y + Rank(other) < 5 * x + Rank(kind) /\ 0 < 5 * x + Rank(kind)
  <2> HIDE DEF x, y
  <2> QED
    BY <1>1, <1>4, <1>5
<1>7. l - k < j - i => Span(other, k, l) < Span(kind, i, j)
  BY <1>2, <1>3, <1>6
<1>8. k = i /\ l = j /\ Rank(other) < Rank(kind) => Span(other, k, l) < Span(kind, i, j)
  BY <1>1, <1>2, <1>3
<1> QED
  BY <1>7, <1>8

\* What is read of two functions that agree on what is shorter.
ReadsAgree(f, g, w) ==
  \A kind \in Phrases, i \in Nat, j \in Nat :
    Span(kind, i, j) < w => f[<<kind, i, j>>] = g[<<kind, i, j>>]

LEMMA SplitsAgree ==
  ASSUME NEW f, NEW g, NEW ts, NEW values, NEW i \in Nat, NEW j \in Nat, NEW ops, NEW left, NEW right,
         \A k \in i + 1..j - 2 : /\ f[<<left, i, k>>] = g[<<left, i, k>>]
                                 /\ f[<<right, k + 1, j>>] = g[<<right, k + 1, j>>]
  PROVE  Splits(f, ts, values, i, j, ops, left, right) = Splits(g, ts, values, i, j, ops, left, right)
<1> DEFINE at(h, k) == {Both(a, b, ts[k], values) : a \in h[<<left, i, k>>], b \in h[<<right, k + 1, j>>]}
           K == {m \in i + 1..j - 2 : ts[m] \in ops}
<1>1. \A k \in K : at(f, k) = at(g, k)
  OBVIOUS
<1>2. \A h : Splits(h, ts, values, i, j, ops, left, right) = UNION {at(h, k) : k \in K}
  BY DEF Splits
<1> HIDE DEF at, K
<1> QED
  BY <1>1, <1>2

\* Lists with one value more.
Appended(a, b) == {Append(xs, x) : xs \in a, x \in b}
ListsOf(A, B) == {Appended(a, b) : a \in A, b \in B}
ListsAt(f, i, j, k) == ListsOf(f[<<"list", i, k>>], f[<<"sum", k + 1, j>>])

LEMMA ListFromIs ==
  ASSUME NEW f, NEW ts, NEW i, NEW j
  PROVE  ListFrom(f, ts, i, j) = {Singles(a) : a \in f[<<"sum", i, j>>]} \cup
                                 UNION {ListsAt(f, i, j, k) : k \in {m \in i + 1..j - 2 : ts[m] = ","}}
BY DEF ListFrom, Singles, ListsAt, ListsOf, Appended

LEMMA ListsAgree ==
  ASSUME NEW f, NEW g, NEW ts, NEW i \in Nat, NEW j \in Nat, f[<<"sum", i, j>>] = g[<<"sum", i, j>>],
         \A k \in i + 1..j - 2 : /\ f[<<"list", i, k>>] = g[<<"list", i, k>>]
                                 /\ f[<<"sum", k + 1, j>>] = g[<<"sum", k + 1, j>>]
  PROVE  ListFrom(f, ts, i, j) = ListFrom(g, ts, i, j)
<1> DEFINE K == {m \in i + 1..j - 2 : ts[m] = ","}
<1>1. ASSUME NEW k \in K PROVE ListsAt(f, i, j, k) = ListsAt(g, i, j, k)
  <2>1. k \in i + 1..j - 2
    OBVIOUS
  <2>2. f[<<"list", i, k>>] = g[<<"list", i, k>>] /\ f[<<"sum", k + 1, j>>] = g[<<"sum", k + 1, j>>]
    BY <2>1
  <2> QED
    BY <2>2 DEF ListsAt
<1> HIDE DEF K
<1>2. UNION {ListsAt(f, i, j, k) : k \in K} = UNION {ListsAt(g, i, j, k) : k \in K}
  BY <1>1
<1> QED
  BY <1>2, ListFromIs DEF K

LEMMA ReadOwes ==
  ASSUME NEW f, NEW g, NEW ts, NEW values, NEW kind \in Phrases, NEW i \in Nat, NEW j \in Nat,
         ReadsAgree(f, g, Span(kind, i, j))
  PROVE  ReadFrom(f, ts, values, kind, i, j) = ReadFrom(g, ts, values, kind, i, j)
<1>1. CASE i >= j
  BY <1>1 DEF ReadFrom
<1>2. CASE i < j
  <2>1. ASSUME NEW other \in Phrases, NEW k \in Nat, NEW l \in Nat,
               l - k < j - i \/ (k = i /\ l = j /\ Rank(other) < Rank(kind))
        PROVE  f[<<other, k, l>>] = g[<<other, k, l>>]
    <3>1. Span(other, k, l) < Span(kind, i, j)
      BY <1>2, <2>1, ShorterSpan
    <3> QED
      BY <3>1 DEF ReadsAgree
  <2>2. \A k \in i + 1..j - 2, left \in Phrases, right \in Phrases :
          f[<<left, i, k>>] = g[<<left, i, k>>] /\ f[<<right, k + 1, j>>] = g[<<right, k + 1, j>>]
    <3> TAKE k \in i + 1..j - 2, left \in Phrases, right \in Phrases
    <3>1. k \in Nat /\ k + 1 \in Nat /\ k - i < j - i /\ j - (k + 1) < j - i
      OBVIOUS
    <3> QED
      BY <2>1, <3>1
  <2>3. ASSUME NEW other \in Phrases, Rank(other) < Rank(kind)
        PROVE  f[<<other, i, j>>] = g[<<other, i, j>>]
    BY <2>1, <2>3
  <2>4. \A other \in Phrases : f[<<other, i + 1, j>>] = g[<<other, i + 1, j>>]
    <3>1. i + 1 \in Nat /\ j - (i + 1) < j - i
      OBVIOUS
    <3> QED
      BY <2>1, <3>1
  <2>5. ~(i >= j)
    BY <1>2
  <2>6. CASE kind = "sum"
    <3>1. Rank("product") < Rank("sum") /\ "product" \in Phrases /\ "sum" \in Phrases
      BY DEF Rank, Phrases
    <3>2. f[<<"product", i, j>>] = g[<<"product", i, j>>]
      BY <2>3, <2>6, <3>1
    <3>3. Splits(f, ts, values, i, j, {"+", "-"}, "sum", "product") =
            Splits(g, ts, values, i, j, {"+", "-"}, "sum", "product")
      BY <2>2, <3>1, SplitsAgree
    <3> QED
      BY <2>5, <2>6, <3>2, <3>3 DEF ReadFrom
  <2>7. CASE kind = "product"
    <3>1. Rank("signed") < Rank("product") /\ "product" \in Phrases /\ "signed" \in Phrases
      BY DEF Rank, Phrases
    <3>2. f[<<"signed", i, j>>] = g[<<"signed", i, j>>]
      BY <2>3, <2>7, <3>1
    <3>3. Splits(f, ts, values, i, j, {"*", "/"}, "product", "signed") =
            Splits(g, ts, values, i, j, {"*", "/"}, "product", "signed")
      BY <2>2, <3>1, SplitsAgree
    <3> QED
      BY <2>5, <2>7, <3>2, <3>3 DEF ReadFrom
  <2>8. CASE kind = "signed"
    <3>1. Rank("primary") < Rank("signed") /\ "primary" \in Phrases /\ "signed" \in Phrases
      BY DEF Rank, Phrases
    <3>2. f[<<"primary", i, j>>] = g[<<"primary", i, j>>]
      BY <2>3, <2>8, <3>1
    <3>3. f[<<"signed", i + 1, j>>] = g[<<"signed", i + 1, j>>]
      BY <2>4, <3>1
    <3>4. SignedFrom(f, ts, i, j) = SignedFrom(g, ts, i, j)
      BY <3>2, <3>3 DEF SignedFrom
    <3>5. \A h : ReadFrom(h, ts, values, kind, i, j) = SignedFrom(h, ts, i, j)
      BY <2>5, <2>8 DEF ReadFrom
    <3> QED
      BY <3>4, <3>5
  <2>9. CASE kind = "primary"
    <3>1. {"sum", "list"} \subseteq Phrases
      BY DEF Phrases
    <3>2. f[<<"sum", i + 1, j - 1>>] = g[<<"sum", i + 1, j - 1>>]
      <4>1. i + 1 \in Nat /\ j - 1 \in Nat /\ (j - 1) - (i + 1) < j - i
        BY <1>2
      <4> QED
        BY <2>1, <3>1, <4>1
    <3>3. f[<<"list", i + 2, j - 1>>] = g[<<"list", i + 2, j - 1>>]
      <4>1. i + 2 \in Nat /\ j - 1 \in Nat /\ (j - 1) - (i + 2) < j - i
        BY <1>2
      <4> QED
        BY <2>1, <3>1, <4>1
    <3>4. PrimaryFrom(f, ts, values, i, j) = PrimaryFrom(g, ts, values, i, j)
      BY <3>2, <3>3 DEF PrimaryFrom, CallFrom
    <3>5. \A h : ReadFrom(h, ts, values, kind, i, j) = PrimaryFrom(h, ts, values, i, j)
      BY <2>5, <2>9 DEF ReadFrom
    <3> QED
      BY <3>4, <3>5
  <2>10. CASE kind = "list"
    <3>1. Rank("sum") < Rank("list") /\ "sum" \in Phrases /\ "list" \in Phrases
      BY DEF Rank, Phrases
    <3>2. f[<<"sum", i, j>>] = g[<<"sum", i, j>>]
      BY <2>3, <2>10, <3>1
    <3>3. \A k \in i + 1..j - 2 : /\ f[<<"list", i, k>>] = g[<<"list", i, k>>]
                                  /\ f[<<"sum", k + 1, j>>] = g[<<"sum", k + 1, j>>]
      BY <2>2, <3>1
    <3>6. ListFrom(f, ts, i, j) = ListFrom(g, ts, i, j)
      BY <3>2, <3>3, ListsAgree
    <3>7. \A h : ReadFrom(h, ts, values, kind, i, j) = ListFrom(h, ts, i, j)
      BY <2>5, <2>10 DEF ReadFrom
    <3> QED
      BY <3>6, <3>7
  <2> QED
    BY <2>6, <2>7, <2>8, <2>9, <2>10 DEF Phrases
<1> QED
  BY <1>1, <1>2

\* The phrases shorter than some length are read right.
ReadsRight(f, ts, values, n) ==
  \A kind \in Phrases, i \in Nat, j \in Nat :
    Span(kind, i, j) < n => f[<<kind, i, j>>] = ReadFrom(f, ts, values, kind, i, j)

\* The reading that goes by shorter ones.
IsReading(f, ts, values) ==
  f = [p \in Phrases \X Nat \X Nat |-> ReadFrom(f, ts, values, p[1], p[2], p[3])]

ReadStage(f, ts, values) ==
  [p \in Phrases \X Nat \X Nat |-> ReadFrom(f, ts, values, p[1], p[2], p[3])]

LEMMA StageAgrees ==
  ASSUME NEW f, NEW ts, NEW values, NEW n \in Nat, ReadsRight(f, ts, values, n)
  PROVE  ReadsRight(ReadStage(f, ts, values), ts, values, n + 1)
<1> DEFINE g == ReadStage(f, ts, values)
<1>1. \A kind \in Phrases, i \in Nat, j \in Nat :
        g[<<kind, i, j>>] = ReadFrom(f, ts, values, kind, i, j)
  BY DEF ReadStage
<1> HIDE DEF g
<1>2. ReadsAgree(f, g, n)
  BY <1>1 DEF ReadsAgree, ReadsRight
<1> SUFFICES ASSUME NEW kind \in Phrases, NEW i \in Nat, NEW j \in Nat, Span(kind, i, j) < n + 1
             PROVE  g[<<kind, i, j>>] = ReadFrom(g, ts, values, kind, i, j)
  BY DEF ReadsRight, g
<1> DEFINE w == Span(kind, i, j)
<1>3. ReadsAgree(f, g, w)
  <2> SUFFICES ASSUME NEW other \in Phrases, NEW k \in Nat, NEW l \in Nat, Span(other, k, l) < w
               PROVE  f[<<other, k, l>>] = g[<<other, k, l>>]
    BY DEF ReadsAgree
  <2>1. Span(other, k, l) \in Nat /\ w \in Nat /\ w < n + 1
    BY SpanIsNatural
  <2> HIDE DEF w
  <2>2. Span(other, k, l) < n
    BY <2>1
  <2> QED
    BY <1>2, <2>2 DEF ReadsAgree
<1>4. ReadFrom(f, ts, values, kind, i, j) = ReadFrom(g, ts, values, kind, i, j)
  BY <1>3, ReadOwes
<1> QED
  BY <1>1, <1>4

LEMMA StagesExist ==
  ASSUME NEW ts, NEW values, NEW n \in Nat
  PROVE  \E f : ReadsRight(f, ts, values, n)
<1> DEFINE E(m) == \E f : ReadsRight(f, ts, values, m)
           S == {m \in Nat : E(m)}
<1>1. 0 \in S
  <2>1. ReadsRight(<<>>, ts, values, 0)
    <3>1. \A kind \in Phrases, i \in Nat, j \in Nat : ~(Span(kind, i, j) < 0)
      BY SpanIsNatural
    <3> QED
      BY <3>1 DEF ReadsRight
  <2> QED
    BY <2>1
<1>2. \A m \in Nat : m \in S => m + 1 \in S
  <2> SUFFICES ASSUME NEW m \in Nat, E(m) PROVE E(m + 1)
    <3> HIDE DEF E
    <3> QED
      OBVIOUS
  <2>1. PICK f : ReadsRight(f, ts, values, m)
    OBVIOUS
  <2>2. ReadsRight(ReadStage(f, ts, values), ts, values, m + 1)
    BY <2>1, StageAgrees
  <2> QED
    BY <2>2
<1> HIDE DEF S
<1>3. n \in S
  BY <1>1, <1>2, AllNaturals
<1> QED
  BY <1>3 DEF S

\* There is one reading of what is shorter.
LEMMA ReadsAreOne ==
  ASSUME NEW ts, NEW values, NEW n \in Nat, NEW f, NEW g,
         ReadsRight(f, ts, values, n), ReadsRight(g, ts, values, n)
  PROVE  ReadsAgree(f, g, n)
<1> DEFINE S == {m \in Nat : m <= n => ReadsAgree(f, g, m)}
<1>1. 0 \in S
  <2>1. \A kind \in Phrases, i \in Nat, j \in Nat : ~(Span(kind, i, j) < 0)
    BY SpanIsNatural
  <2> QED
    BY <2>1 DEF ReadsAgree
<1>2. \A m \in Nat : m \in S => m + 1 \in S
  <2> SUFFICES ASSUME NEW m \in Nat, m + 1 <= n, ReadsAgree(f, g, m) PROVE ReadsAgree(f, g, m + 1)
    <3>1. \A m \in Nat : m + 1 <= n => m <= n
      OBVIOUS
    <3> QED
      BY <3>1
  <2> SUFFICES ASSUME NEW kind \in Phrases, NEW i \in Nat, NEW j \in Nat, Span(kind, i, j) < m + 1
               PROVE  f[<<kind, i, j>>] = g[<<kind, i, j>>]
    BY DEF ReadsAgree
  <2> DEFINE w == Span(kind, i, j)
  <2>0. w \in Nat /\ w < m + 1
    BY SpanIsNatural
  <2>1. ReadsAgree(f, g, w)
    <3> SUFFICES ASSUME NEW other \in Phrases, NEW k \in Nat, NEW l \in Nat, Span(other, k, l) < w
                 PROVE  f[<<other, k, l>>] = g[<<other, k, l>>]
      BY DEF ReadsAgree
    <3>1. Span(other, k, l) \in Nat
      BY SpanIsNatural
    <3> HIDE DEF w
    <3>2. Span(other, k, l) < m
      BY <2>0, <3>1
    <3> QED
      BY <3>2 DEF ReadsAgree
  <2>2. ReadFrom(f, ts, values, kind, i, j) = ReadFrom(g, ts, values, kind, i, j)
    BY <2>1, ReadOwes
  <2>3. w < n
    <3> HIDE DEF w
    <3> QED
      BY <2>0
  <2> QED
    BY <2>2, <2>3 DEF ReadsRight
<1> HIDE DEF S
<1>3. n \in S
  BY <1>1, <1>2, AllNaturals
<1> QED
  BY <1>3 DEF S

\* The grammar has a reading of every phrase.
LEMMA ReadingExists ==
  ASSUME NEW ts, NEW values
  PROVE  \E f : IsReading(f, ts, values)
<1> DEFINE G(n) == CHOOSE f : ReadsRight(f, ts, values, n)
           P == Phrases \X Nat \X Nat
           h == [p \in P |-> G(Span(p[1], p[2], p[3]) + 1)[p]]
<1>1. \A n \in Nat : ReadsRight(G(n), ts, values, n)
  BY StagesExist
<1> HIDE DEF G
<1>2. \A kind \in Phrases, i \in Nat, j \in Nat : h[<<kind, i, j>>] = G(Span(kind, i, j) + 1)[<<kind, i, j>>]
  OBVIOUS
<1>3. h = [p \in P |-> h[p]]
  OBVIOUS
<1> HIDE DEF h
<1>4. ASSUME NEW kind \in Phrases, NEW i \in Nat, NEW j \in Nat
      PROVE  h[<<kind, i, j>>] = ReadFrom(h, ts, values, kind, i, j)
  <2> DEFINE w == Span(kind, i, j)
             f == G(w + 1)
  <2>0. w \in Nat
    BY SpanIsNatural
  <2>1. ReadsRight(f, ts, values, w + 1)
    BY <1>1, <2>0
  <2>2. f[<<kind, i, j>>] = ReadFrom(f, ts, values, kind, i, j)
    <3>1. w < w + 1
      BY <2>0
    <3> HIDE DEF f
    <3> QED
      BY <2>1, <3>1 DEF ReadsRight
  <2>3. ReadsAgree(f, h, w)
    <3> SUFFICES ASSUME NEW other \in Phrases, NEW k \in Nat, NEW l \in Nat, Span(other, k, l) < w
                 PROVE  f[<<other, k, l>>] = h[<<other, k, l>>]
      BY DEF ReadsAgree
    <3> DEFINE v == Span(other, k, l)
               g == G(v + 1)
    <3>1. v \in Nat /\ v < w
      BY SpanIsNatural
    <3>2. ReadsRight(g, ts, values, v + 1)
      BY <1>1, <3>1
    <3>3. ReadsRight(f, ts, values, v + 1)
      <4> SUFFICES ASSUME NEW q \in Phrases, NEW x \in Nat, NEW y \in Nat, Span(q, x, y) < v + 1
                   PROVE  f[<<q, x, y>>] = ReadFrom(f, ts, values, q, x, y)
        BY DEF ReadsRight
      <4>1. Span(q, x, y) \in Nat
        BY SpanIsNatural
      <4> HIDE DEF f, g, w, v
      <4>2. Span(q, x, y) < w + 1
        <5>1. Span(q, x, y) < v + 1
          BY DEF v
        <5> QED
          BY <2>0, <3>1, <4>1, <5>1
      <4> QED
        BY <2>1, <4>2 DEF ReadsRight
    <3>4. ReadsAgree(f, g, v + 1)
      <4> HIDE DEF f, g, v
      <4> QED
        BY <3>1, <3>2, <3>3, ReadsAreOne
    <3>5. f[<<other, k, l>>] = g[<<other, k, l>>]
      <4>1. v < v + 1
        BY <3>1
      <4> HIDE DEF f, g
      <4> QED
        BY <3>4, <4>1 DEF ReadsAgree
    <3> QED
      BY <1>2, <3>5
  <2>4. ReadFrom(f, ts, values, kind, i, j) = ReadFrom(h, ts, values, kind, i, j)
    <3> HIDE DEF f
    <3> QED
      BY <2>3, ReadOwes
  <2>5. h[<<kind, i, j>>] = f[<<kind, i, j>>]
    BY <1>2
  <2> QED
    BY <2>2, <2>4, <2>5
<1>5. \A p \in P : h[p] = ReadFrom(h, ts, values, p[1], p[2], p[3])
  <2> TAKE p \in P
  <2>1. p[1] \in Phrases /\ p[2] \in Nat /\ p[3] \in Nat /\ p = <<p[1], p[2], p[3]>>
    OBVIOUS
  <2> QED
    BY <1>4, <2>1
<1>6. IsReading(h, ts, values)
  BY <1>3, <1>5 DEF IsReading
<1> QED
  BY <1>6

LEMMA MeaningsRead ==
  ASSUME NEW ts, NEW values
  PROVE  \E read : /\ \A kind \in Phrases, i \in Nat, j \in Nat :
                        read[<<kind, i, j>>] = ReadFrom(read, ts, values, kind, i, j)
                   /\ Meanings(ts, values) = read[<<"sum", 1, Len(ts) + 1>>]
<1> DEFINE read == CHOOSE f : f = [p \in Phrases \X Nat \X Nat |->
                                    ReadFrom(f, ts, values, p[1], p[2], p[3])]
<1>1. read = [p \in Phrases \X Nat \X Nat |-> ReadFrom(read, ts, values, p[1], p[2], p[3])]
  <2>1. \E f : f = [p \in Phrases \X Nat \X Nat |-> ReadFrom(f, ts, values, p[1], p[2], p[3])]
    <3>1. \E f : IsReading(f, ts, values)
      BY ReadingExists
    <3> QED
      BY <3>1 DEF IsReading
  <2> QED
    BY <2>1
<1>2. Meanings(ts, values) = read[<<"sum", 1, Len(ts) + 1>>]
  BY DEF Meanings
<1> HIDE DEF read
<1>3. \A kind \in Phrases, i \in Nat, j \in Nat :
        read[<<kind, i, j>>] = ReadFrom(read, ts, values, kind, i, j)
  BY <1>1
<1> QED
  BY <1>2, <1>3

-----------------------------------------------------------------------------
(* The parser reads by the grammar. *)

\* A reading of the phrases of a list of tokens.
Reading(read, ts, values) ==
  \A kind \in Phrases, i \in Nat, j \in Nat :
    read[<<kind, i, j>>] = ReadFrom(read, ts, values, kind, i, j)

\* The nodes of a result push what the phrase it stands for means.
Means(read, values, kind, i, r) ==
  \E V \in read[<<kind, i, r.next>>] : Pushes(r.nodes, Singles(V), values)

\* The nodes of a result go on from a phrase that stops where they start.
GoesOn(read, values, kind, k, r) ==
  \A i \in Nat : i < k =>
    \A V \in read[<<kind, i, k>>] :
      \E W \in read[<<kind, i, r.next>>] : Turns(r.nodes, Singles(V), Singles(W), values)

\* Lists that are read on from an argument to others.
ListsOn(read, ts, i, L, last) ==
  \A first \in Nat : first < i - 1 /\ ts[i - 1] = "," =>
    \A M \in read[<<"list", first, i - 1>>] :
      AreStacks(M) => Joins(M, L) \in read[<<"list", first, last>>]

MeansList(read, ts, values, i, r) ==
  /\ r.next > i + 1
  /\ TokenAt(ts, r.next - 1) = ")"
  /\ \E L \in read[<<"list", i, r.next - 1>>] :
       /\ AreStacks(L)
       /\ \A x \in L : Len(x) = r.count
       /\ Pushes(r.nodes, L, values)
       /\ ListsOn(read, ts, i, L, r.next - 1)

\* What the nodes of a result are to the grammar.
Fits(read, ts, values, rule, i, r) ==
  /\ rule = "expression" => Means(read, values, "sum", i, r)
  /\ rule = "term"       => Means(read, values, "product", i, r)
  /\ rule = "unary"      => Means(read, values, "signed", i, r)
  /\ rule = "primary"    => Means(read, values, "primary", i, r)
  /\ rule = "terms"      => GoesOn(read, values, "sum", i, r)
  /\ rule = "factors"    => GoesOn(read, values, "product", i, r)
  /\ rule = "arguments"  => MeansList(read, ts, values, i, r)
  /\ rule # "arguments"  => r.count = 0

\* The calls closer to the end than a distance fit.
CallsFit(f, read, ts, values, w) ==
  \A rule \in Rules, i \in Nat : Weight(ts, rule, i) < w =>
    \A r \in f[<<rule, i>>] : Fits(read, ts, values, rule, i, r)

\* Every call after results answers with results.
CallsAnswer(ts, results, f, rule) == \A a \in results : f[<<rule, a.next>>] \subseteq Results(ts)

\* A result that follows another one, or that has one node more.
IsFollowed(r, results, f, rule) ==
  \E a \in results : \E b \in f[<<rule, a.next>>] :
    r.nodes = a.nodes \o b.nodes /\ r.next = b.next /\ r.count = b.count
HasOneMore(r, results, node) ==
  \E a \in results : r.nodes = Append(a.nodes, node) /\ r.next = a.next /\ r.count = a.count

IsClosed(r, results, ts) ==
  \E a \in results : /\ TokenAt(ts, a.next) = ")"
                     /\ r.nodes = a.nodes /\ r.next = a.next + 1 /\ r.count = a.count

LEMMA FollowedIs ==
  ASSUME NEW ts, NEW results, NEW f, NEW rule, CallsAnswer(ts, results, f, rule),
         NEW r \in Followed(results, f, rule)
  PROVE  IsFollowed(r, results, f, rule)
<1>1. PICK a \in results : \E b \in f[<<rule, a.next>>] : r = [b EXCEPT !.nodes = a.nodes \o @]
  BY DEF Followed
<1>2. PICK b \in f[<<rule, a.next>>] : r = [b EXCEPT !.nodes = a.nodes \o @]
  BY <1>1
<1>3. b \in Results(ts)
  BY <1>1, <1>2 DEF CallsAnswer
<1>4. r.nodes = a.nodes \o b.nodes /\ r.next = b.next /\ r.count = b.count
  BY <1>2, <1>3 DEF Results
<1> QED
  BY <1>2, <1>4 DEF IsFollowed

LEMMA WithNodeIs ==
  ASSUME NEW ts, NEW results, results \subseteq Results(ts), NEW op, NEW at, NEW operands,
         NEW r \in WithNode(results, op, at, operands)
  PROVE  HasOneMore(r, results, Node(op, at, operands))
<1>1. PICK a \in results : r = [a EXCEPT !.nodes = Append(@, Node(op, at, operands))]
  BY DEF WithNode
<1>2. a \in Results(ts)
  OBVIOUS
<1>3. r.nodes = Append(a.nodes, Node(op, at, operands)) /\ r.next = a.next /\ r.count = a.count
  BY <1>1, <1>2 DEF Results
<1> QED
  BY <1>3 DEF HasOneMore

LEMMA ClosedIs ==
  ASSUME NEW ts, NEW results, results \subseteq Results(ts), NEW r \in Closed(results, ts)
  PROVE  IsClosed(r, results, ts)
<1>1. PICK a \in results : TokenAt(ts, a.next) = ")" /\ r = [a EXCEPT !.next = @ + 1]
  BY DEF Closed, Skipped
<1>2. a \in Results(ts)
  OBVIOUS
<1>3. r.nodes = a.nodes /\ r.next = a.next + 1 /\ r.count = a.count
  BY <1>1, <1>2 DEF Results
<1> QED
  BY <1>1, <1>3 DEF IsClosed

\* What is known of an answer.
LEMMA AnswersAre ==
  ASSUME NEW ts, Len(ts) \in Nat, NEW f, IsParse(ts, f), NEW rule \in Rules, NEW i \in Nat
  PROVE  /\ f[<<rule, i>>] \subseteq Results(ts)
         /\ f[<<rule, i>>] = ParseFrom(ts, f, rule, i)
         /\ \A r \in f[<<rule, i>>] :
              /\ r.nodes \in Seq(Nodes(ts)) /\ r.next \in Nat /\ r.count \in Nat
              /\ r.next >= i
              /\ rule \notin {"terms", "factors"} => i <= Len(ts) /\ r.next > i
<1>1. Answer(ts, f[<<rule, i>>], rule, i)
  BY ParseAnswers
<1>2. f[<<rule, i>>] = ParseFrom(ts, f, rule, i)
  BY DEF IsParse
<1>3. Reach(ts, f[<<rule, i>>], After(rule, i))
  BY <1>1 DEF Answer
<1>4. ASSUME NEW r \in f[<<rule, i>>]
      PROVE  /\ r.nodes \in Seq(Nodes(ts)) /\ r.next \in Nat /\ r.count \in Nat
             /\ r.next >= After(rule, i)
  BY <1>3 DEF Reach, Results
<1>5. rule \notin {"terms", "factors"} /\ i > Len(ts) => f[<<rule, i>>] = {}
  BY <1>1 DEF Answer
<1>6. After(rule, i) \in Nat /\ After(rule, i) >= i /\ (rule \notin {"terms", "factors"} => After(rule, i) = i + 1)
  BY DEF After
<1>7. \A r \in f[<<rule, i>>] :
        /\ r.nodes \in Seq(Nodes(ts)) /\ r.next \in Nat /\ r.count \in Nat
        /\ r.next >= i
        /\ rule \notin {"terms", "factors"} => i <= Len(ts) /\ r.next > i
  BY <1>4, <1>5, <1>6
<1> QED
  BY <1>2, <1>3, <1>7 DEF Reach

\* The smaller phrases of a reading.
LEMMA ReadsLower ==
  ASSUME NEW read, NEW ts, NEW values, Reading(read, ts, values), NEW i \in Nat, NEW j \in Nat, i < j
  PROVE  /\ read[<<"product", i, j>>] \subseteq read[<<"sum", i, j>>]
         /\ read[<<"signed", i, j>>] \subseteq read[<<"product", i, j>>]
         /\ Splits(read, ts, values, i, j, {"+", "-"}, "sum", "product") \subseteq read[<<"sum", i, j>>]
         /\ Splits(read, ts, values, i, j, {"*", "/"}, "product", "signed") \subseteq read[<<"product", i, j>>]
         /\ read[<<"signed", i, j>>] = SignedFrom(read, ts, i, j)
         /\ read[<<"primary", i, j>>] = PrimaryFrom(read, ts, values, i, j)
         /\ read[<<"list", i, j>>] = ListFrom(read, ts, i, j)
<1>0. {"sum", "product", "signed", "primary", "list"} \subseteq Phrases /\ ~(i >= j)
  BY DEF Phrases
<1>1. \A kind \in Phrases : read[<<kind, i, j>>] = ReadFrom(read, ts, values, kind, i, j)
  BY DEF Reading
<1>2. read[<<"sum", i, j>>] = read[<<"product", i, j>>] \cup
                              Splits(read, ts, values, i, j, {"+", "-"}, "sum", "product")
  BY <1>0, <1>1 DEF ReadFrom
<1>3. read[<<"product", i, j>>] = read[<<"signed", i, j>>] \cup
                                  Splits(read, ts, values, i, j, {"*", "/"}, "product", "signed")
  BY <1>0, <1>1 DEF ReadFrom
<1>4. read[<<"signed", i, j>>] = SignedFrom(read, ts, i, j)
  BY <1>0, <1>1 DEF ReadFrom
<1>5. read[<<"primary", i, j>>] = PrimaryFrom(read, ts, values, i, j)
  BY <1>0, <1>1 DEF ReadFrom
<1>6. read[<<"list", i, j>>] = ListFrom(read, ts, i, j)
  BY <1>0, <1>1 DEF ReadFrom
<1> QED
  BY <1>2, <1>3, <1>4, <1>5, <1>6

LEMMA SplitIs ==
  ASSUME NEW read, NEW ts, NEW values, NEW i \in Nat, NEW j \in Nat, NEW ops, NEW left, NEW right,
         NEW k \in i + 1..j - 2, ts[k] \in ops,
         NEW V \in read[<<left, i, k>>], NEW W \in read[<<right, k + 1, j>>]
  PROVE  Both(V, W, ts[k], values) \in Splits(read, ts, values, i, j, ops, left, right)
<1> DEFINE at(m) == {Both(a, b, ts[m], values) :
                       a \in read[<<left, i, m>>], b \in read[<<right, m + 1, j>>]}
<1>1. k \in {m \in i + 1..j - 2 : ts[m] \in ops}
  OBVIOUS
<1>2. Both(V, W, ts[k], values) \in at(k)
  OBVIOUS
<1>3. Splits(read, ts, values, i, j, ops, left, right) =
        UNION {at(m) : m \in {m \in i + 1..j - 2 : ts[m] \in ops}}
  BY DEF Splits
<1> HIDE DEF at
<1> QED
  BY <1>1, <1>2, <1>3

\* A value, an operator and a value.
LEMMA BothOnTop ==
  ASSUME NEW V, NEW W, NEW op, NEW values
  PROVE  /\ AreStacks(Joins(Singles(V), Singles(W)))
         /\ \A x \in Joins(Singles(V), Singles(W)) : Len(x) = 2
         /\ UNION {NodeValue(Node(op, "", 2), x, values) : x \in Joins(Singles(V), Singles(W))} =
              Both(V, W, op, values)
<1>1. AreStacks(Joins(Singles(V), Singles(W)))
  BY SinglesAreStacks, JoinsAreStacks
<1>2. ASSUME NEW v, NEW w PROVE <<v>> \o <<w>> = <<v, w>> /\ Len(<<v, w>>) = 2
  <2> DEFINE a == <<v>>
             b == <<w>>
             c == <<v, w>>
             U == {v, w}
  <2>1. a \in Seq(U) /\ b \in Seq(U) /\ c \in Seq(U)
    OBVIOUS
  <2>2. Len(a) = 1 /\ Len(b) = 1 /\ Len(c) = 2 /\ a[1] = v /\ b[1] = w /\ c[1] = v /\ c[2] = w
    OBVIOUS
  <2> HIDE DEF a, b, c, U
  <2>3. a \o b \in Seq(U) /\ Len(a \o b) = 2 /\ (a \o b)[1] = v /\ (a \o b)[2] = w
    <3>1. a \o b \in Seq(U) /\ Len(a \o b) = Len(a) + Len(b)
      BY <2>1
    <3>2. \A k \in 1..(Len(a) + Len(b)) : (a \o b)[k] = IF k <= Len(a) THEN a[k] ELSE b[k - Len(a)]
      BY <2>1
    <3>3. (a \o b)[1] = a[1] /\ (a \o b)[2] = b[1]
      <4>1. 1 \in 1..(Len(a) + Len(b)) /\ 1 <= Len(a)
        BY <2>2
      <4>2. 2 \in 1..(Len(a) + Len(b)) /\ ~(2 <= Len(a)) /\ 2 - Len(a) = 1
        BY <2>2
      <4>3. (a \o b)[1] = a[1]
        BY <3>2, <4>1
      <4>4. (a \o b)[2] = b[2 - Len(a)]
        BY <3>2, <4>2
      <4> QED
        BY <4>2, <4>3, <4>4
    <3> QED
      BY <2>2, <3>1, <3>3
  <2>4. a \o b = c
    <3> DEFINE d == a \o b
    <3>1. d \in [1..2 -> U] /\ c \in [1..2 -> U]
      BY <2>1, <2>2, <2>3, SeqIsList
    <3>2. \A k \in 1..2 : d[k] = c[k]
      BY <2>2, <2>3
    <3> HIDE DEF d
    <3>3. d = c
      BY <3>1, <3>2
    <3> QED
      BY <3>3 DEF d
  <2> QED
    BY <2>2, <2>4 DEF a, b, c
<1>3. Joins(Singles(V), Singles(W)) = {<<v, w>> : v \in V, w \in W}
  <2> DEFINE pair(v, w) == <<v, w>>
             one(v) == <<v>>
  <2>1. Joins(Singles(V), Singles(W)) = {x \o y : x \in {one(v) : v \in V}, y \in {one(w) : w \in W}}
    BY DEF Joins, Singles
  <2>2. \A v, w : one(v) \o one(w) = pair(v, w)
    BY <1>2
  <2> HIDE DEF one, pair
  <2>3. Joins(Singles(V), Singles(W)) = {pair(v, w) : v \in V, w \in W}
    <3> DEFINE join(x, y) == x \o y
    <3>1. Joins(Singles(V), Singles(W)) = {join(x, y) : x \in {one(v) : v \in V}, y \in {one(w) : w \in W}}
      BY <2>1
    <3>2. \A v, w : join(one(v), one(w)) = pair(v, w)
      BY <2>2
    <3> HIDE DEF join
    <3> QED
      BY <3>1, <3>2
  <2> QED
    BY <2>3 DEF pair
<1>4. \A x \in Joins(Singles(V), Singles(W)) : Len(x) = 2
  BY <1>2, <1>3
<1>5. UNION {NodeValue(Node(op, "", 2), x, values) : x \in Joins(Singles(V), Singles(W))} =
        Both(V, W, op, values)
  <2> DEFINE pair(v, w) == <<v, w>>
             nv(x) == NodeValue(Node(op, "", 2), x, values)
  <2>1. Both(V, W, op, values) = UNION {nv(pair(x, y)) : x \in V, y \in W}
    BY DEF Both
  <2>2. Joins(Singles(V), Singles(W)) = {pair(v, w) : v \in V, w \in W}
    BY <1>3
  <2> HIDE DEF pair, nv
  <2>3. UNION {nv(x) : x \in {pair(v, w) : v \in V, w \in W}} = UNION {nv(pair(x, y)) : x \in V, y \in W}
    OBVIOUS
  <2>4. UNION {nv(x) : x \in Joins(Singles(V), Singles(W))} = Both(V, W, op, values)
    BY <2>1, <2>2, <2>3
  <2> QED
    BY <2>4 DEF nv
<1> QED
  BY <1>1, <1>4, <1>5

\* The kinds of phrases that are split, and how.
SplitKinds(read, ts, values, kind, lower, ops) ==
  \A i \in Nat, j \in Nat : i < j =>
    /\ read[<<lower, i, j>>] \subseteq read[<<kind, i, j>>]
    /\ Splits(read, ts, values, i, j, ops, kind, lower) \subseteq read[<<kind, i, j>>]

LEMMA SumsSplit ==
  ASSUME NEW read, NEW ts, NEW values, Reading(read, ts, values)
  PROVE  /\ SplitKinds(read, ts, values, "sum", "product", {"+", "-"})
         /\ SplitKinds(read, ts, values, "product", "signed", {"*", "/"})
<1>1. SplitKinds(read, ts, values, "sum", "product", {"+", "-"})
  <2> SUFFICES ASSUME NEW i \in Nat, NEW j \in Nat, i < j
               PROVE  /\ read[<<"product", i, j>>] \subseteq read[<<"sum", i, j>>]
                      /\ Splits(read, ts, values, i, j, {"+", "-"}, "sum", "product") \subseteq
                           read[<<"sum", i, j>>]
    BY DEF SplitKinds
  <2> QED
    BY ReadsLower
<1>2. SplitKinds(read, ts, values, "product", "signed", {"*", "/"})
  <2> SUFFICES ASSUME NEW i \in Nat, NEW j \in Nat, i < j
               PROVE  /\ read[<<"signed", i, j>>] \subseteq read[<<"product", i, j>>]
                      /\ Splits(read, ts, values, i, j, {"*", "/"}, "product", "signed") \subseteq
                           read[<<"product", i, j>>]
    BY DEF SplitKinds
  <2> QED
    BY ReadsLower
<1> QED
  BY <1>1, <1>2

\* Nodes that push a phrase, and then nodes that go on from it.
LEMMA MeansThenGoesOn ==
  ASSUME NEW ts, NEW read, NEW values, NEW kind, NEW lower, NEW i \in Nat,
         NEW a, NEW b, NEW r, a.nodes \in Seq(Nodes(ts)), b.nodes \in Seq(Nodes(ts)),
         a.next \in Nat, a.next > i,
         read[<<lower, i, a.next>>] \subseteq read[<<kind, i, a.next>>],
         Means(read, values, lower, i, a), GoesOn(read, values, kind, a.next, b),
         r.nodes = a.nodes \o b.nodes, r.next = b.next
  PROVE  Means(read, values, kind, i, r)
<1>1. PICK V \in read[<<lower, i, a.next>>] : Pushes(a.nodes, Singles(V), values)
  BY DEF Means
<1>2. V \in read[<<kind, i, a.next>>]
  BY <1>1
<1>3. PICK W \in read[<<kind, i, b.next>>] : Turns(b.nodes, Singles(V), Singles(W), values)
  BY <1>2 DEF GoesOn
<1>4. Turns(a.nodes \o b.nodes, {<<>>}, Singles(W), values)
  BY <1>1, <1>3, TurnsJoined DEF Pushes
<1> QED
  BY <1>3, <1>4 DEF Means, Pushes

LEMMA FirstThenFits ==
  ASSUME NEW ts, Len(ts) \in Nat, NEW f, IsParse(ts, f), NEW read, NEW values, NEW w,
         CallsFit(f, read, ts, values, w), NEW i \in Nat,
         NEW kind, NEW lower, NEW first \in Rules \ {"terms", "factors"}, NEW rest \in {"terms", "factors"},
         NEW ops, SplitKinds(read, ts, values, kind, lower, ops),
         Weight(ts, first, i) < w, i <= Len(ts) => \A j \in Nat : j > i => Weight(ts, rest, j) < w,
         \A a : Fits(read, ts, values, first, i, a) => Means(read, values, lower, i, a),
         \A b, j : Fits(read, ts, values, rest, j, b) => GoesOn(read, values, kind, j, b),
         NEW r \in Followed(f[<<first, i>>], f, rest)
  PROVE  Means(read, values, kind, i, r)
<1>0. rest \in Rules /\ first \in Rules
  BY DEF Rules
<1>1. \A a \in f[<<first, i>>] :
        /\ a.nodes \in Seq(Nodes(ts)) /\ a.next \in Nat /\ i <= Len(ts) /\ a.next > i
  BY <1>0, AnswersAre
<1>2. CallsAnswer(ts, f[<<first, i>>], f, rest)
  <2>1. \A a \in f[<<first, i>>] : f[<<rest, a.next>>] \subseteq Results(ts)
    BY <1>0, <1>1, AnswersAre
  <2> QED
    BY <2>1 DEF CallsAnswer
<1>3. PICK a \in f[<<first, i>>] : \E b \in f[<<rest, a.next>>] :
        r.nodes = a.nodes \o b.nodes /\ r.next = b.next /\ r.count = b.count
  <2>1. IsFollowed(r, f[<<first, i>>], f, rest)
    BY <1>2, FollowedIs
  <2> QED
    BY <2>1 DEF IsFollowed
<1>4. PICK b \in f[<<rest, a.next>>] : r.nodes = a.nodes \o b.nodes /\ r.next = b.next
  BY <1>3
<1>5. /\ a.nodes \in Seq(Nodes(ts)) /\ a.next \in Nat /\ i <= Len(ts) /\ a.next > i
      /\ b.nodes \in Seq(Nodes(ts))
  BY <1>0, <1>1, AnswersAre
<1>6. Means(read, values, lower, i, a)
  <2>1. Fits(read, ts, values, first, i, a)
    BY <1>0 DEF CallsFit
  <2> QED
    BY <2>1
<1>7. GoesOn(read, values, kind, a.next, b)
  <2>1. Weight(ts, rest, a.next) < w
    BY <1>5
  <2>2. Fits(read, ts, values, rest, a.next, b)
    BY <1>0, <1>5, <2>1 DEF CallsFit
  <2> QED
    BY <2>2
<1>8. read[<<lower, i, a.next>>] \subseteq read[<<kind, i, a.next>>]
  BY <1>5 DEF SplitKinds
<1> QED
  BY <1>4, <1>5, <1>6, <1>7, <1>8, MeansThenGoesOn

LEMMA SplitBetween ==
  ASSUME NEW i \in Nat, NEW k \in Nat, NEW n \in Nat, i < k, n > k + 1
  PROVE  i < n /\ k \in i + 1..n - 2
OBVIOUS

LEMMA NodeAppended ==
  ASSUME NEW C, NEW a \in Seq(C), NEW node \in C
  PROVE  Append(a, node) \in Seq(C)
OBVIOUS

\* An operator, its right side, and what goes on from there.
LEMMA OperatorGoesOn ==
  ASSUME NEW ts, Len(ts) \in Nat, NEW read, NEW values, NEW kind, NEW lower, NEW ops,
         SplitKinds(read, ts, values, kind, lower, ops),
         NEW k \in Nat, k <= Len(ts), TokenAt(ts, k) \in ops, NEW a, NEW b, NEW r,
         a.nodes \in Seq(Nodes(ts)), b.nodes \in Seq(Nodes(ts)),
         a.next \in Nat, a.next > k + 1,
         Means(read, values, lower, k + 1, a), GoesOn(read, values, kind, a.next, b),
         r.nodes = Append(a.nodes, Node(TokenAt(ts, k), "", 2)) \o b.nodes, r.next = b.next
  PROVE  GoesOn(read, values, kind, k, r)
<1> SUFFICES ASSUME NEW i \in Nat, i < k, NEW V \in read[<<kind, i, k>>]
             PROVE  \E W \in read[<<kind, i, r.next>>] : Turns(r.nodes, Singles(V), Singles(W), values)
  BY DEF GoesOn
<1> DEFINE n == a.next
<1>0. n \in Nat /\ n > k + 1 /\ i < n /\ k \in i + 1..n - 2
  BY SplitBetween
<1> DEFINE op == TokenAt(ts, k)
           node == Node(op, "", 2)
<1>1. PICK X \in read[<<lower, k + 1, a.next>>] : Pushes(a.nodes, Singles(X), values)
  BY DEF Means
<1>2. op = ts[k] /\ op \in Texts(ts) /\ node \in Nodes(ts) /\ node.operands = 2
  <2>1. op = ts[k]
    BY DEF TokenAt
  <2>2. op \in Texts(ts) /\ "" \in Texts(ts)
    BY Tokens
  <2> HIDE DEF op
  <2> QED
    BY <2>1, <2>2 DEF Node, Nodes
<1> DEFINE both == Both(V, X, op, values)
<1>3. both \in read[<<kind, i, a.next>>]
  <2>1. k \in i + 1..a.next - 2
    BY <1>0
  <2>2. Both(V, X, ts[k], values) \in Splits(read, ts, values, i, a.next, ops, kind, lower)
    BY <1>1, <1>2, <2>1, SplitIs
  <2>3. i < a.next
    BY <1>0
  <2>4. Splits(read, ts, values, i, a.next, ops, kind, lower) \subseteq read[<<kind, i, a.next>>]
    BY <2>3 DEF SplitKinds
  <2> QED
    BY <1>2, <2>2, <2>4
<1>4. Turns(Append(a.nodes, node), Singles(V), Singles(both), values)
  <2> DEFINE pairs == Joins(Singles(V), Singles(X))
  <2>1. Turns(a.nodes, Singles(V), pairs, values)
    BY <1>1, SinglesAreStacks, PushesAbove
  <2>2. /\ AreStacks(pairs)
        /\ \A x \in pairs : Len(x) = 2
        /\ UNION {NodeValue(node, x, values) : x \in pairs} = both
    BY BothOnTop
  <2> HIDE DEF pairs, both, node
  <2>3. \A x \in pairs : Len(x) = node.operands
    BY <1>2, <2>2
  <2>4. Turns(Append(a.nodes, node), Singles(V),
              Singles(UNION {NodeValue(node, x, values) : x \in pairs}), values)
    BY <1>2, <2>1, <2>2, <2>3, TurnsNode
  <2> QED
    BY <2>2, <2>4
<1>5. PICK W \in read[<<kind, i, b.next>>] : Turns(b.nodes, Singles(both), Singles(W), values)
  <2>1. i < a.next
    BY <1>0
  <2> HIDE DEF both
  <2> QED
    BY <1>3, <2>1 DEF GoesOn
<1> HIDE DEF both, node
<1>6. Append(a.nodes, node) \in Seq(Nodes(ts))
  BY <1>2, NodeAppended
<1>7. Turns(Append(a.nodes, node) \o b.nodes, Singles(V), Singles(W), values)
  BY <1>4, <1>5, <1>6, TurnsJoined
<1> QED
  BY <1>5, <1>7 DEF node, op

LEMMA RepeatedFits ==
  ASSUME NEW ts, Len(ts) \in Nat, NEW f, IsParse(ts, f), NEW read, NEW values, NEW k \in Nat,
         NEW operand \in {"term", "unary"}, NEW rule \in {"terms", "factors"},
         CallsFit(f, read, ts, values, Weight(ts, rule, k)),
         NEW kind, NEW lower, NEW ops, "end" \notin ops, SplitKinds(read, ts, values, kind, lower, ops),
         \A a, j : Fits(read, ts, values, operand, j, a) => Means(read, values, lower, j, a),
         \A b, j : Fits(read, ts, values, rule, j, b) => GoesOn(read, values, kind, j, b),
         NEW r \in Repeated(ts, k, f, ops, operand, rule)
  PROVE  GoesOn(read, values, kind, k, r)
<1>0. rule \in Rules /\ operand \in Rules /\ operand \notin {"terms", "factors"} /\ k + 1 \in Nat
  BY DEF Rules
<1>1. CASE TokenAt(ts, k) \notin ops
  <2>1. r.nodes = <<>> /\ r.next = k
    BY <1>1 DEF Repeated, Made
  <2>2. \A V : Turns(r.nodes, Singles(V), Singles(V), values)
    BY <2>1, TurnsNone
  <2> QED
    BY <2>1, <2>2 DEF GoesOn
<1>2. CASE TokenAt(ts, k) \in ops
  <2> DEFINE made == WithNode(f[<<operand, k + 1>>], TokenAt(ts, k), "", 2)
  <2>1. k <= Len(ts)
    <3>1. k > Len(ts) => TokenAt(ts, k) = "end"
      BY Tokens
    <3> QED
      BY <1>2, <3>1
  <2>2. \A other \in Rules, j \in Nat : j > k => Weight(ts, other, j) < Weight(ts, rule, k)
    BY <1>0, <2>1, SmallerWeight
  <2>3. /\ f[<<operand, k + 1>>] \subseteq Results(ts)
        /\ \A a \in f[<<operand, k + 1>>] :
             a.nodes \in Seq(Nodes(ts)) /\ a.next \in Nat /\ a.next > k + 1
    BY <1>0, AnswersAre
  <2>4. \A m \in made : \E a \in f[<<operand, k + 1>>] :
          /\ m.nodes = Append(a.nodes, Node(TokenAt(ts, k), "", 2))
          /\ m.next = a.next
    <3> DEFINE read1 == f[<<operand, k + 1>>]
    <3>1. read1 \subseteq Results(ts)
      BY <2>3
    <3> HIDE DEF read1
    <3> SUFFICES ASSUME NEW m \in made PROVE HasOneMore(m, read1, Node(TokenAt(ts, k), "", 2))
      BY DEF HasOneMore, read1
    <3>2. m \in WithNode(read1, TokenAt(ts, k), "", 2)
      BY DEF read1, made
    <3> QED
      BY <3>1, <3>2, WithNodeIs
  <2>5. r \in Followed(made, f, rule)
    BY <1>2 DEF Repeated
  <2> HIDE DEF made
  <2>6. CallsAnswer(ts, made, f, rule)
    <3> SUFFICES ASSUME NEW m \in made PROVE f[<<rule, m.next>>] \subseteq Results(ts)
      BY DEF CallsAnswer
    <3>1. m.next \in Nat
      BY <2>3, <2>4
    <3> QED
      BY <1>0, <3>1, AnswersAre
  <2>7. PICK m \in made : \E b \in f[<<rule, m.next>>] :
          r.nodes = m.nodes \o b.nodes /\ r.next = b.next /\ r.count = b.count
    <3>1. IsFollowed(r, made, f, rule)
      BY <2>5, <2>6, FollowedIs
    <3> QED
      BY <3>1 DEF IsFollowed
  <2>8. PICK b \in f[<<rule, m.next>>] : r.nodes = m.nodes \o b.nodes /\ r.next = b.next
    BY <2>7
  <2>9. PICK a \in f[<<operand, k + 1>>] :
          /\ m.nodes = Append(a.nodes, Node(TokenAt(ts, k), "", 2))
          /\ m.next = a.next
    BY <2>4
  <2>10. /\ a.nodes \in Seq(Nodes(ts)) /\ a.next \in Nat /\ a.next > k + 1
         /\ b \in f[<<rule, a.next>>]
         /\ r.nodes = Append(a.nodes, Node(TokenAt(ts, k), "", 2)) \o b.nodes
    BY <2>3, <2>8, <2>9
  <2>11. b.nodes \in Seq(Nodes(ts))
    BY <1>0, <2>10, AnswersAre
  <2>12. Means(read, values, lower, k + 1, a)
    <3>1. k + 1 > k
      OBVIOUS
    <3>2. Weight(ts, operand, k + 1) < Weight(ts, rule, k)
      BY <1>0, <2>2, <3>1
    <3>3. Fits(read, ts, values, operand, k + 1, a)
      BY <1>0, <3>2 DEF CallsFit
    <3> QED
      BY <3>3
  <2>13. GoesOn(read, values, kind, a.next, b)
    <3>1. Weight(ts, rule, a.next) < Weight(ts, rule, k)
      <4> DEFINE n == a.next
      <4>1. n \in Nat /\ n > k + 1
        BY <2>10
      <4> HIDE DEF n
      <4>2. n > k
        BY <4>1
      <4>3. Weight(ts, rule, n) < Weight(ts, rule, k)
        BY <1>0, <2>2, <4>1, <4>2
      <4> QED
        BY <4>3 DEF n
    <3>2. Fits(read, ts, values, rule, a.next, b)
      BY <1>0, <2>10, <3>1 DEF CallsFit
    <3> QED
      BY <3>2
  <2> QED
    BY <1>2, <2>1, <2>8, <2>10, <2>11, <2>12, <2>13, OperatorGoesOn
<1> QED
  BY <1>1, <1>2

LEMMA FitsIs ==
  ASSUME NEW read, NEW ts, NEW values, NEW i, NEW r
  PROVE  /\ Fits(read, ts, values, "expression", i, r) => Means(read, values, "sum", i, r)
         /\ Fits(read, ts, values, "term", i, r) => Means(read, values, "product", i, r)
         /\ Fits(read, ts, values, "unary", i, r) => Means(read, values, "signed", i, r)
         /\ Fits(read, ts, values, "primary", i, r) => Means(read, values, "primary", i, r)
         /\ Fits(read, ts, values, "terms", i, r) => GoesOn(read, values, "sum", i, r)
         /\ Fits(read, ts, values, "factors", i, r) => GoesOn(read, values, "product", i, r)
         /\ Fits(read, ts, values, "arguments", i, r) => MeansList(read, ts, values, i, r)
BY DEF Fits

LEMMA SumFits ==
  ASSUME NEW ts, Len(ts) \in Nat, NEW f, IsParse(ts, f), NEW read, NEW values,
         Reading(read, ts, values), NEW i \in Nat,
         CallsFit(f, read, ts, values, Weight(ts, "expression", i)), NEW r \in Sum(ts, i, f)
  PROVE  Means(read, values, "sum", i, r)
<1> DEFINE w == Weight(ts, "expression", i)
<1>0. {"expression", "term", "terms"} \subseteq Rules
  BY DEF Rules
<1>1. Weight(ts, "term", i) < w
  <2>1. Below("term") < Below("expression")
    BY DEF Below
  <2> QED
    BY <1>0, <2>1, SmallerWeight
<1>2. i <= Len(ts) => \A j \in Nat : j > i => Weight(ts, "terms", j) < w
  BY <1>0, SmallerWeight
<1>3. SplitKinds(read, ts, values, "sum", "product", {"+", "-"})
  BY SumsSplit
<1>4. r \in Followed(f[<<"term", i>>], f, "terms")
  BY DEF Sum
<1>5. /\ \A a : Fits(read, ts, values, "term", i, a) => Means(read, values, "product", i, a)
      /\ \A b, j : Fits(read, ts, values, "terms", j, b) => GoesOn(read, values, "sum", j, b)
  BY FitsIs
<1> HIDE DEF w
<1>6. CallsFit(f, read, ts, values, w)
  BY DEF w
<1>7. "term" \in Rules \ {"terms", "factors"} /\ "terms" \in {"terms", "factors"}
  BY <1>0
<1> QED
  BY <1>1, <1>2, <1>3, <1>4, <1>5, <1>6, <1>7, FirstThenFits

LEMMA ProductFits ==
  ASSUME NEW ts, Len(ts) \in Nat, NEW f, IsParse(ts, f), NEW read, NEW values,
         Reading(read, ts, values), NEW i \in Nat,
         CallsFit(f, read, ts, values, Weight(ts, "term", i)), NEW r \in Product(ts, i, f)
  PROVE  Means(read, values, "product", i, r)
<1> DEFINE w == Weight(ts, "term", i)
<1>0. {"unary", "term", "factors"} \subseteq Rules
  BY DEF Rules
<1>1. Weight(ts, "unary", i) < w
  <2>1. Below("unary") < Below("term")
    BY DEF Below
  <2> QED
    BY <1>0, <2>1, SmallerWeight
<1>2. i <= Len(ts) => \A j \in Nat : j > i => Weight(ts, "factors", j) < w
  BY <1>0, SmallerWeight
<1>3. SplitKinds(read, ts, values, "product", "signed", {"*", "/"})
  BY SumsSplit
<1>4. r \in Followed(f[<<"unary", i>>], f, "factors")
  BY DEF Product
<1>5. /\ \A a : Fits(read, ts, values, "unary", i, a) => Means(read, values, "signed", i, a)
      /\ \A b, j : Fits(read, ts, values, "factors", j, b) => GoesOn(read, values, "product", j, b)
  BY FitsIs
<1> HIDE DEF w
<1>6. CallsFit(f, read, ts, values, w)
  BY DEF w
<1>7. "unary" \in Rules \ {"terms", "factors"} /\ "factors" \in {"terms", "factors"}
  BY <1>0
<1> QED
  BY <1>1, <1>2, <1>3, <1>4, <1>5, <1>6, <1>7, FirstThenFits

\* A node that is applied to the one value of a phrase.
LEMMA OneOperand ==
  ASSUME NEW ts, NEW values, NEW V, NEW nodes \in Seq(Nodes(ts)), NEW node \in Nodes(ts),
         node.operands = 1, Pushes(nodes, Singles(V), values)
  PROVE  Pushes(Append(nodes, node), Singles(UNION {NodeValue(node, <<v>>, values) : v \in V}), values)
<1>1. AreStacks(Singles(V)) /\ \A x \in Singles(V) : Len(x) = node.operands
  BY SinglesAreStacks
<1>2. Turns(Append(nodes, node), {<<>>},
            Singles(UNION {NodeValue(node, x, values) : x \in Singles(V)}), values)
  BY <1>1, TurnsNode DEF Pushes
<1>3. UNION {NodeValue(node, x, values) : x \in Singles(V)} = UNION {NodeValue(node, <<v>>, values) : v \in V}
  <2> DEFINE nv(x) == NodeValue(node, x, values)
             one(v) == <<v>>
  <2>1. Singles(V) = {one(v) : v \in V}
    BY DEF Singles
  <2> HIDE DEF nv, one
  <2>2. UNION {nv(x) : x \in Singles(V)} = UNION {nv(one(v)) : v \in V}
    BY <2>1
  <2> QED
    BY <2>2 DEF nv, one
<1> QED
  BY <1>2, <1>3 DEF Pushes

LEMMA UnaryFits ==
  ASSUME NEW ts, Len(ts) \in Nat, NEW f, IsParse(ts, f), NEW read, NEW values,
         Reading(read, ts, values), NEW i \in Nat,
         CallsFit(f, read, ts, values, Weight(ts, "unary", i)), NEW r \in Unary(ts, i, f)
  PROVE  Means(read, values, "signed", i, r)
<1>0. {"unary", "primary"} \subseteq Rules /\ i + 1 \in Nat /\ i + 1 > i
  BY DEF Rules
<1>1. CASE TokenAt(ts, i) \in {"+", "-"}
  <2>1. i <= Len(ts)
    <3>1. i > Len(ts) => TokenAt(ts, i) = "end"
      BY Tokens
    <3> QED
      BY <1>1, <3>1
  <2>2. Weight(ts, "unary", i + 1) < Weight(ts, "unary", i)
    BY <1>0, <2>1, SmallerWeight
  <2> DEFINE calls == f[<<"unary", i + 1>>]
  <2>3. \A a \in calls : Means(read, values, "signed", i + 1, a)
    BY <1>0, <2>2, FitsIs DEF CallsFit
  <2>4. /\ calls \subseteq Results(ts)
        /\ \A a \in calls : a.nodes \in Seq(Nodes(ts)) /\ a.next \in Nat /\ a.next > i + 1
    BY <1>0, AnswersAre
  <2>5. ts[i] = TokenAt(ts, i)
    BY <2>1 DEF TokenAt
  <2>6. \A j \in Nat : j > i + 1 => i < j
    OBVIOUS
  <2> HIDE DEF calls
  <2>7. CASE TokenAt(ts, i) = "+"
    <3>1. r \in calls
      BY <2>7 DEF Unary, calls
    <3>2. PICK V \in read[<<"signed", i + 1, r.next>>] : Pushes(r.nodes, Singles(V), values)
      BY <2>3, <3>1 DEF Means
    <3>3. r.next \in Nat /\ i < r.next
      BY <2>4, <2>6, <3>1
    <3>4. read[<<"signed", i, r.next>>] = read[<<"signed", i + 1, r.next>>]
      <4>1. read[<<"signed", i, r.next>>] = SignedFrom(read, ts, i, r.next)
        <5> DEFINE n == r.next
        <5>1. n \in Nat /\ i < n
          BY <3>3
        <5> HIDE DEF n
        <5>2. read[<<"signed", i, n>>] = SignedFrom(read, ts, i, n)
          BY <5>1, ReadsLower
        <5> QED
          BY <5>2 DEF n
      <4> QED
        BY <2>5, <2>7, <4>1 DEF SignedFrom
    <3> QED
      BY <3>2, <3>4 DEF Means
  <2>8. CASE TokenAt(ts, i) = "-"
    <3> DEFINE node == Node("negate", "", 1)
    <3>1. r \in WithNode(calls, "negate", "", 1)
      BY <2>8 DEF Unary, calls
    <3>2. HasOneMore(r, calls, node)
      BY <2>4, <3>1, WithNodeIs
    <3>3. PICK a \in calls : r.nodes = Append(a.nodes, node) /\ r.next = a.next
      BY <3>2 DEF HasOneMore
    <3>4. PICK V \in read[<<"signed", i + 1, a.next>>] : Pushes(a.nodes, Singles(V), values)
      BY <2>3 DEF Means
    <3>5. a.next \in Nat /\ i < a.next /\ a.nodes \in Seq(Nodes(ts))
      BY <2>4, <2>6
    <3>6. node \in Nodes(ts) /\ node.operands = 1
      <4>1. "negate" \in Texts(ts) /\ "" \in Texts(ts)
        BY Tokens
      <4> QED
        BY <4>1 DEF Node, Nodes
    <3>7. \A x : NodeValue(node, <<x>>, values) = {-x}
      BY DEF NodeValue, Node
    <3> HIDE DEF node
    <3>8. Pushes(r.nodes, Singles(UNION {NodeValue(node, <<v>>, values) : v \in V}), values)
      <4> DEFINE t == a.nodes
      <4>1. t \in Seq(Nodes(ts)) /\ Pushes(t, Singles(V), values) /\ r.nodes = Append(t, node)
        BY <3>3, <3>4, <3>5
      <4> HIDE DEF t
      <4>2. Pushes(Append(t, node), Singles(UNION {NodeValue(node, <<v>>, values) : v \in V}), values)
        BY <3>6, <4>1, OneOperand
      <4> QED
        BY <4>1, <4>2
    <3>9. UNION {NodeValue(node, <<v>>, values) : v \in V} = {-v : v \in V}
      BY <3>7
    <3>10. {-v : v \in V} \in read[<<"signed", i, a.next>>]
      <4>1. read[<<"signed", i, a.next>>] = SignedFrom(read, ts, i, a.next)
        <5> DEFINE n == a.next
        <5>1. n \in Nat /\ i < n
          BY <3>5
        <5> HIDE DEF n
        <5>2. read[<<"signed", i, n>>] = SignedFrom(read, ts, i, n)
          BY <5>1, ReadsLower
        <5> QED
          BY <5>2 DEF n
      <4>2. SignedFrom(read, ts, i, a.next) = {{-x : x \in b} : b \in read[<<"signed", i + 1, a.next>>]}
        BY <2>5, <2>8 DEF SignedFrom
      <4> QED
        BY <3>4, <4>1, <4>2
    <3> QED
      BY <3>3, <3>8, <3>9, <3>10 DEF Means
  <2> QED
    BY <1>1, <2>7, <2>8
<1>2. CASE TokenAt(ts, i) \notin {"+", "-"}
  <2>1. Below("primary") < Below("unary")
    BY DEF Below
  <2>2. Weight(ts, "primary", i) < Weight(ts, "unary", i)
    BY <1>0, <2>1, SmallerWeight
  <2>3. r \in f[<<"primary", i>>]
    BY <1>2 DEF Unary
  <2>4. Means(read, values, "primary", i, r)
    BY <1>0, <2>2, <2>3, FitsIs DEF CallsFit
  <2>5. r.next \in Nat /\ i <= Len(ts) /\ r.next > i
    BY <1>0, <2>3, AnswersAre
  <2>6. ts[i] = TokenAt(ts, i) /\ i < r.next
    BY <2>5 DEF TokenAt
  <2>7. read[<<"signed", i, r.next>>] = read[<<"primary", i, r.next>>]
    <3>1. read[<<"signed", i, r.next>>] = SignedFrom(read, ts, i, r.next)
      <4> DEFINE n == r.next
      <4>1. n \in Nat /\ i < n
        BY <2>5, <2>6
      <4> HIDE DEF n
      <4>2. read[<<"signed", i, n>>] = SignedFrom(read, ts, i, n)
        BY <4>1, ReadsLower
      <4> QED
        BY <4>2 DEF n
    <3> QED
      BY <1>2, <2>6, <3>1 DEF SignedFrom
  <2> QED
    BY <2>4, <2>7 DEF Means
<1> QED
  BY <1>1, <1>2

LEMMA JoinsAssociate ==
  ASSUME NEW a, AreStacks(a), NEW b, AreStacks(b), NEW c, AreStacks(c)
  PROVE  Joins(Joins(a, b), c) = Joins(a, Joins(b, c))
<1> DEFINE join(x, y) == x \o y
<1>1. \A x \in a, y \in b, z \in c : join(join(x, y), z) = join(x, join(y, z))
  BY StacksAssociate DEF AreStacks
<1>2. \A X, Y : Joins(X, Y) = {join(x, y) : x \in X, y \in Y}
  BY DEF Joins
<1> HIDE DEF join
<1>3. Joins(Joins(a, b), c) \subseteq Joins(a, Joins(b, c))
  <2> SUFFICES ASSUME NEW x \in a, NEW y \in b, NEW z \in c
               PROVE  join(join(x, y), z) \in Joins(a, Joins(b, c))
    BY <1>2
  <2> QED
    BY <1>1, <1>2
<1>4. Joins(a, Joins(b, c)) \subseteq Joins(Joins(a, b), c)
  <2> SUFFICES ASSUME NEW x \in a, NEW y \in b, NEW z \in c
               PROVE  join(x, join(y, z)) \in Joins(Joins(a, b), c)
    BY <1>2
  <2>1. join(join(x, y), z) \in Joins(Joins(a, b), c)
    BY <1>2
  <2> QED
    BY <1>1, <2>1
<1> QED
  BY <1>3, <1>4

LEMMA CommaBetween ==
  ASSUME NEW first \in Nat, NEW i \in Nat, NEW n \in Nat, first < i - 1, i < n
  PROVE  i - 1 \in Nat /\ i - 1 \in first + 1..n - 2 /\ (i - 1) + 1 = i /\ first < n
OBVIOUS

LEMMA JoinsAppend ==
  ASSUME NEW M, AreStacks(M), NEW V
  PROVE  Joins(M, Singles(V)) = Appended(M, V)
<1> DEFINE put(x, v) == Append(x, v)
           join(x, y) == x \o y
           one(v) == <<v>>
<1>1. \A x \in M : \A v : put(x, v) = join(x, one(v))
  BY StacksJoin DEF AreStacks
<1>2. Joins(M, Singles(V)) = {join(x, y) : x \in M, y \in {one(v) : v \in V}}
  BY DEF Joins, Singles
<1>3. Appended(M, V) = {put(x, v) : x \in M, v \in V}
  BY DEF Appended
<1> HIDE DEF put, join, one
<1> QED
  BY <1>1, <1>2, <1>3

LEMMA AppendedIsOne ==
  ASSUME NEW A, NEW B, NEW M \in A, NEW V \in B
  PROVE  Appended(M, V) \in ListsOf(A, B)
BY DEF ListsOf

LEMMA ResultsReach ==
  ASSUME NEW ts, NEW results, results \subseteq Results(ts)
  PROVE  Reach(ts, results, 0)
BY DEF Reach, Results

\* An argument after others.
LEMMA ListGoesOn ==
  ASSUME NEW read, NEW ts, NEW values, Reading(read, ts, values), NEW i \in Nat, NEW n \in Nat, i < n,
         NEW V \in read[<<"sum", i, n>>]
  PROVE  /\ Singles(V) \in read[<<"list", i, n>>]
         /\ ListsOn(read, ts, i, Singles(V), n)
<1>1. Singles(V) \in read[<<"list", i, n>>]
  <2>1. read[<<"list", i, n>>] = ListFrom(read, ts, i, n)
    BY ReadsLower
  <2> QED
    BY <2>1, ListFromIs
<1>2. ListsOn(read, ts, i, Singles(V), n)
  <2> SUFFICES ASSUME NEW first \in Nat, first < i - 1, ts[i - 1] = ",",
                      NEW M \in read[<<"list", first, i - 1>>], AreStacks(M)
               PROVE  Joins(M, Singles(V)) \in read[<<"list", first, n>>]
    BY DEF ListsOn
  <2> DEFINE k == i - 1
  <2>0. k \in Nat /\ k \in first + 1..n - 2 /\ ts[k] = "," /\ k + 1 = i /\ first < n
    BY CommaBetween
  <2>1. Joins(M, Singles(V)) = Appended(M, V)
    BY JoinsAppend
  <2>2. Appended(M, V) \in ListsAt(read, first, n, k)
    <3> HIDE DEF k
    <3>1. M \in read[<<"list", first, k>>] /\ V \in read[<<"sum", k + 1, n>>]
      BY <2>0 DEF k
    <3> DEFINE A == read[<<"list", first, k>>]
               B == read[<<"sum", k + 1, n>>]
    <3>2. ListsAt(read, first, n, k) = ListsOf(A, B)
      BY DEF ListsAt
    <3>3. M \in A /\ V \in B
      BY <3>1
    <3> HIDE DEF A, B
    <3>4. Appended(M, V) \in ListsOf(A, B)
      BY <3>3, AppendedIsOne
    <3> QED
      BY <3>2, <3>4
  <2>3. read[<<"list", first, n>>] = ListFrom(read, ts, first, n)
    BY <2>0, ReadsLower
  <2>4. k \in {m \in first + 1..n - 2 : ts[m] = ","}
    BY <2>0
  <2> HIDE DEF k
  <2>5. ListsAt(read, first, n, k) \subseteq ListFrom(read, ts, first, n)
    BY <2>4, ListFromIs
  <2> QED
    BY <2>1, <2>2, <2>3, <2>5
<1> QED
  BY <1>1, <1>2

\* The arguments are one, or one and others.
OneArgument(ts, f, i, r) ==
  \E a \in f[<<"expression", i>>] :
    TokenAt(ts, a.next) = ")" /\ r.nodes = a.nodes /\ r.next = a.next + 1 /\ r.count = a.count + 1
MoreArguments(ts, f, i, r) ==
  \E a \in f[<<"expression", i>>] : TokenAt(ts, a.next) = "," /\
    \E b \in f[<<"arguments", a.next + 1>>] :
      r.nodes = a.nodes \o b.nodes /\ r.next = b.next /\ r.count = b.count + 1

LEMMA ArgumentsAre ==
  ASSUME NEW ts, Len(ts) \in Nat, NEW f, IsParse(ts, f), NEW i \in Nat, NEW r \in Arguments(ts, i, f)
  PROVE  OneArgument(ts, f, i, r) \/ MoreArguments(ts, f, i, r)
<1> DEFINE first == f[<<"expression", i>>]
           calls(a) == IF TokenAt(ts, a.next) = "," THEN f[<<"arguments", a.next + 1>>] ELSE {}
           more(a) == {[b EXCEPT !.nodes = a.nodes \o @] : b \in calls(a)}
<1>0. {"expression", "arguments"} \subseteq Rules
  BY DEF Rules
<1>1. first \subseteq Results(ts) /\ \A a \in first : a.next \in Nat /\ a.nodes \in Seq(Nodes(ts))
  BY <1>0, AnswersAre
<1>2. \A a \in first : calls(a) \subseteq Results(ts)
  <2> SUFFICES ASSUME NEW a \in first PROVE calls(a) \subseteq Results(ts)
    OBVIOUS
  <2>1. a.next + 1 \in Nat
    BY <1>1
  <2>2. f[<<"arguments", a.next + 1>>] \subseteq Results(ts)
    BY <1>0, <2>1, AnswersAre
  <2> QED
    BY <2>2
<1>3. PICK q \in Closed(first, ts) \cup UNION {more(a) : a \in first} : r = [q EXCEPT !.count = @ + 1]
  BY DEF Arguments
<1>4. CASE q \in Closed(first, ts)
  <2> HIDE DEF first
  <2>1. \E a \in first : TokenAt(ts, a.next) = ")" /\ q.nodes = a.nodes /\ q.next = a.next + 1
                         /\ q.count = a.count
    <3>1. IsClosed(q, first, ts)
      BY <1>1, <1>4, ClosedIs
    <3> QED
      BY <3>1 DEF IsClosed
  <2>2. q \in Results(ts)
    <3>1. Reach(ts, first, 0)
      BY <1>1, ResultsReach
    <3>2. Reach(ts, Closed(first, ts), 0)
      BY <3>1, ClosedReaches
    <3> QED
      BY <1>4, <3>2 DEF Reach
  <2>3. r.nodes = q.nodes /\ r.next = q.next /\ r.count = q.count + 1
    BY <1>3, <2>2 DEF Results
  <2>4. OneArgument(ts, f, i, r)
    BY <2>1, <2>3 DEF OneArgument, first
  <2> QED
    BY <2>4
<1>5. CASE q \in UNION {more(a) : a \in first}
  <2>1. PICK a \in first : q \in more(a)
    BY <1>5
  <2>2. PICK b \in calls(a) : q = [b EXCEPT !.nodes = a.nodes \o @]
    BY <2>1
  <2>3. b \in Results(ts)
    BY <1>2, <2>2
  <2>4. r.nodes = a.nodes \o b.nodes /\ r.next = b.next /\ r.count = b.count + 1
    <3>1. /\ q.nodes = a.nodes \o b.nodes /\ q.next = b.next /\ q.count = b.count
          /\ DOMAIN q = {"nodes", "next", "count"}
      BY <2>2, <2>3 DEF Results
    <3>2. r.nodes = q.nodes /\ r.next = q.next /\ r.count = q.count + 1
      BY <1>3, <3>1
    <3> QED
      BY <3>1, <3>2
  <2>5. TokenAt(ts, a.next) = "," /\ b \in f[<<"arguments", a.next + 1>>]
    BY <2>2
  <2>6. MoreArguments(ts, f, i, r)
    <3> HIDE DEF more, calls
    <3> QED
      BY <2>4, <2>5 DEF MoreArguments
  <2> QED
    BY <2>6
<1> QED
  BY <1>3, <1>4, <1>5

LEMMA OneArgumentFits ==
  ASSUME NEW ts, NEW read, NEW values, Reading(read, ts, values), NEW i \in Nat, NEW n \in Nat, i < n,
         NEW a, a.next = n, a.count = 0, TokenAt(ts, n) = ")", Means(read, values, "sum", i, a),
         NEW r, r.nodes = a.nodes, r.next = n + 1, r.count = a.count + 1
  PROVE  MeansList(read, ts, values, i, r)
<1>1. PICK V \in read[<<"sum", i, n>>] : Pushes(r.nodes, Singles(V), values)
  BY DEF Means
<1>2. r.next > i + 1 /\ r.next - 1 = n /\ r.count = 1
  OBVIOUS
<1>3. Singles(V) \in read[<<"list", i, n>>] /\ ListsOn(read, ts, i, Singles(V), n)
  BY ListGoesOn
<1>4. AreStacks(Singles(V)) /\ \A x \in Singles(V) : Len(x) = 1
  BY SinglesAreStacks
<1> QED
  BY <1>1, <1>2, <1>3, <1>4 DEF MeansList

LEMMA AfterComma ==
  ASSUME NEW n \in Nat
  PROVE  (n + 1) - 1 = n /\ \A k \in Nat : k < n => k < (n + 1) - 1
OBVIOUS

LEMMA BehindComma ==
  ASSUME NEW i \in Nat, NEW n \in Nat, i < n, NEW e \in Nat, e > (n + 1) + 1, NEW c \in Nat
  PROVE  e > i + 1 /\ e > n + 2 /\ 1 + c = c + 1
OBVIOUS

\* Lists read on to an argument are read on to those after it.
LEMMA ListsOnAgain ==
  ASSUME NEW ts, Len(ts) \in Nat, NEW read, NEW i \in Nat, NEW n \in Nat, i < n, TokenAt(ts, n) = ",",
         NEW one, AreStacks(one), ListsOn(read, ts, i, one, n), one \in read[<<"list", i, n>>],
         NEW others, AreStacks(others), NEW last, ListsOn(read, ts, n + 1, others, last)
  PROVE  /\ Joins(one, others) \in read[<<"list", i, last>>]
         /\ ListsOn(read, ts, i, Joins(one, others), last)
<1>0. (n + 1) - 1 = n /\ \A k \in Nat : k < n => k < (n + 1) - 1
  BY AfterComma
<1>1. ts[n] = ","
  BY DEF TokenAt
<1>2. \A k \in Nat : k < n => \A M \in read[<<"list", k, n>>] :
        AreStacks(M) => Joins(M, others) \in read[<<"list", k, last>>]
  BY <1>0, <1>1 DEF ListsOn
<1>3. Joins(one, others) \in read[<<"list", i, last>>]
  BY <1>2
<1>4. ListsOn(read, ts, i, Joins(one, others), last)
  <2> SUFFICES ASSUME NEW first \in Nat, first < i - 1, ts[i - 1] = ",",
                      NEW M \in read[<<"list", first, i - 1>>], AreStacks(M)
               PROVE  Joins(M, Joins(one, others)) \in read[<<"list", first, last>>]
    BY DEF ListsOn
  <2>1. Joins(M, one) \in read[<<"list", first, n>>]
    BY DEF ListsOn
  <2>2. AreStacks(Joins(M, one))
    BY JoinsAreStacks
  <2>3. first < n
    BY CommaBetween
  <2>4. Joins(Joins(M, one), others) \in read[<<"list", first, last>>]
    BY <1>2, <2>1, <2>2, <2>3
  <2>5. Joins(Joins(M, one), others) = Joins(M, Joins(one, others))
    <3> DEFINE a == M
               b == one
               c == others
    <3>1. AreStacks(a) /\ AreStacks(b) /\ AreStacks(c)
      OBVIOUS
    <3> HIDE DEF a, b, c
    <3>2. Joins(Joins(a, b), c) = Joins(a, Joins(b, c))
      BY ONLY <3>1, JoinsAssociate
    <3> QED
      BY <3>2 DEF a, b, c
  <2> QED
    BY <2>4, <2>5
<1> QED
  BY <1>3, <1>4

OfLength(lists, n) == \A x \in lists : Len(x) = n

LEMMA JoinsLength ==
  ASSUME NEW a, AreStacks(a), NEW b, AreStacks(b), NEW m, OfLength(a, m), NEW n, OfLength(b, n)
  PROVE  OfLength(Joins(a, b), m + n)
<1> SUFFICES ASSUME NEW x \in a, NEW y \in b PROVE Len(x \o y) = m + n
  BY DEF Joins, OfLength
<1>1. Len(x \o y) = Len(x) + Len(y)
  BY StacksJoin DEF AreStacks
<1> QED
  BY <1>1 DEF OfLength

LEMMA MoreArgumentsFit ==
  ASSUME NEW ts, Len(ts) \in Nat, NEW read, NEW values, Reading(read, ts, values),
         NEW i \in Nat, NEW n \in Nat, i < n,
         NEW a, a.next = n, TokenAt(ts, n) = ",", Means(read, values, "sum", i, a),
         a.nodes \in Seq(Nodes(ts)),
         NEW b, b.nodes \in Seq(Nodes(ts)), NEW e \in Nat, b.next = e, NEW c \in Nat, b.count = c,
         MeansList(read, ts, values, n + 1, b),
         NEW r, r.nodes = a.nodes \o b.nodes, r.next = e, r.count = c + 1
  PROVE  MeansList(read, ts, values, i, r)
<1>1. PICK V \in read[<<"sum", i, n>>] : Pushes(a.nodes, Singles(V), values)
  BY DEF Means
<1>2. Singles(V) \in read[<<"list", i, n>>] /\ ListsOn(read, ts, i, Singles(V), n)
  BY ListGoesOn
<1>3. AreStacks(Singles(V)) /\ \A x \in Singles(V) : Len(x) = 1
  BY SinglesAreStacks
<1>4. e > (n + 1) + 1 /\ TokenAt(ts, e - 1) = ")"
  <2>1. b.next > (n + 1) + 1 /\ TokenAt(ts, b.next - 1) = ")"
    BY DEF MeansList
  <2> QED
    BY <2>1
<1>5. PICK L \in read[<<"list", n + 1, e - 1>>] :
        /\ AreStacks(L)
        /\ \A x \in L : Len(x) = c
        /\ Pushes(b.nodes, L, values)
        /\ ListsOn(read, ts, n + 1, L, e - 1)
  BY DEF MeansList
<1> DEFINE all == Joins(Singles(V), L)
<1>6. all \in read[<<"list", i, e - 1>>] /\ ListsOn(read, ts, i, all, e - 1)
  BY <1>2, <1>3, <1>5, ListsOnAgain
<1>7. AreStacks(all)
  BY <1>3, <1>5, JoinsAreStacks
<1>8. \A z \in all : Len(z) = 1 + c
  <2> DEFINE m == 1
  <2>1. AreStacks(Singles(V)) /\ \A x \in Singles(V) : Len(x) = m
    BY <1>3
  <2> HIDE DEF m
  <2>2. AreStacks(L) /\ OfLength(L, c)
    BY <1>5 DEF OfLength
  <2> DEFINE S == Singles(V)
  <2>3. AreStacks(S) /\ OfLength(S, m)
    BY <2>1 DEF OfLength
  <2> HIDE DEF S
  <2>4. OfLength(Joins(S, L), m + c)
    BY ONLY <2>2, <2>3, JoinsLength
  <2> QED
    BY <2>4 DEF m, S, OfLength
<1>9. Pushes(r.nodes, all, values)
  <2>1. Turns(b.nodes, Singles(V), all, values)
    BY <1>3, <1>5, PushesAbove
  <2>2. Turns(a.nodes \o b.nodes, {<<>>}, all, values)
    BY <1>1, <2>1, TurnsJoined DEF Pushes
  <2> QED
    BY <2>2 DEF Pushes
<1> HIDE DEF all
<1>10. r.next > i + 1 /\ 1 + c = r.count
  <2>1. e > i + 1 /\ 1 + c = c + 1
    BY <1>4, BehindComma
  <2> QED
    BY <2>1
<1> QED
  BY <1>4, <1>6, <1>7, <1>8, <1>9, <1>10 DEF MeansList

LEMMA ArgumentsFit ==
  ASSUME NEW ts, Len(ts) \in Nat, NEW f, IsParse(ts, f), NEW read, NEW values,
         Reading(read, ts, values), NEW i \in Nat,
         CallsFit(f, read, ts, values, Weight(ts, "arguments", i)), NEW r \in Arguments(ts, i, f)
  PROVE  MeansList(read, ts, values, i, r)
<1>0. {"expression", "arguments"} \subseteq Rules /\ "expression" # "arguments"
  BY DEF Rules
<1>1. Weight(ts, "expression", i) < Weight(ts, "arguments", i)
  <2>1. Below("expression") < Below("arguments")
    BY DEF Below
  <2> QED
    BY <1>0, <2>1, SmallerWeight
<1>2. ASSUME NEW a \in f[<<"expression", i>>]
      PROVE  /\ Means(read, values, "sum", i, a) /\ a.count = 0
             /\ a.next \in Nat /\ i < a.next /\ i <= Len(ts) /\ a.nodes \in Seq(Nodes(ts))
  <2>1. Fits(read, ts, values, "expression", i, a)
    BY <1>0, <1>1 DEF CallsFit
  <2>2. a.next \in Nat /\ a.next > i /\ i <= Len(ts) /\ a.nodes \in Seq(Nodes(ts))
    BY <1>0, AnswersAre
  <2>3. \A n \in Nat : n > i <=> i < n
    OBVIOUS
  <2> QED
    BY <2>1, <2>2, <2>3 DEF Fits
<1>3. CASE OneArgument(ts, f, i, r)
  <2>1. PICK a \in f[<<"expression", i>>] :
          TokenAt(ts, a.next) = ")" /\ r.nodes = a.nodes /\ r.next = a.next + 1 /\ r.count = a.count + 1
    BY <1>3 DEF OneArgument
  <2> DEFINE n == a.next
  <2>2. n \in Nat /\ i < n /\ a.count = 0 /\ Means(read, values, "sum", i, a)
    BY <1>2
  <2>3. TokenAt(ts, n) = ")" /\ r.nodes = a.nodes /\ r.next = n + 1 /\ r.count = a.count + 1 /\ a.next = n
    BY <2>1
  <2> HIDE DEF n
  <2> QED
    BY <2>2, <2>3, OneArgumentFits
<1>4. CASE MoreArguments(ts, f, i, r)
  <2>1. PICK a \in f[<<"expression", i>>] : TokenAt(ts, a.next) = "," /\
          \E b \in f[<<"arguments", a.next + 1>>] :
            r.nodes = a.nodes \o b.nodes /\ r.next = b.next /\ r.count = b.count + 1
    BY <1>4 DEF MoreArguments
  <2> DEFINE n == a.next
  <2>2. /\ n \in Nat /\ i < n /\ Means(read, values, "sum", i, a) /\ a.nodes \in Seq(Nodes(ts))
        /\ i <= Len(ts)
    BY <1>2
  <2>3. TokenAt(ts, n) = "," /\ a.next = n
    BY <2>1
  <2>4. PICK b \in f[<<"arguments", n + 1>>] :
          r.nodes = a.nodes \o b.nodes /\ r.next = b.next /\ r.count = b.count + 1
    BY <2>1
  <2> HIDE DEF n
  <2>5. n + 1 \in Nat /\ n + 1 > i
    BY <2>2
  <2>6. Weight(ts, "arguments", n + 1) < Weight(ts, "arguments", i)
    BY <1>0, <2>2, <2>5, SmallerWeight
  <2>7. Fits(read, ts, values, "arguments", n + 1, b)
    BY <1>0, <2>5, <2>6 DEF CallsFit
  <2>8. MeansList(read, ts, values, n + 1, b)
    BY <2>7 DEF Fits
  <2>9. b.nodes \in Seq(Nodes(ts)) /\ b.next \in Nat /\ b.count \in Nat
    BY <1>0, <2>5, AnswersAre
  <2> DEFINE e == b.next
             c == b.count
  <2>10. /\ e \in Nat /\ c \in Nat /\ b.next = e /\ b.count = c
         /\ r.nodes = a.nodes \o b.nodes /\ r.next = e /\ r.count = c + 1
    BY <2>4, <2>9
  <2> HIDE DEF e, c
  <2> QED
    BY <2>2, <2>3, <2>8, <2>9, <2>10, MoreArgumentsFit
<1> QED
  BY <1>3, <1>4, ArgumentsAre

\* A node that is applied to the lists that were pushed.
LEMMA NodeOnLists ==
  ASSUME NEW ts, NEW values, NEW nodes \in Seq(Nodes(ts)), NEW node \in Nodes(ts),
         NEW lists, AreStacks(lists), OfLength(lists, node.operands), Pushes(nodes, lists, values)
  PROVE  Pushes(Append(nodes, node), Singles(UNION {NodeValue(node, x, values) : x \in lists}), values)
<1>1. \A x \in lists : Len(x) = node.operands
  BY DEF OfLength
<1>2. Turns(Append(nodes, node), {<<>>}, Singles(UNION {NodeValue(node, x, values) : x \in lists}), values)
  BY <1>1, TurnsNode DEF Pushes
<1> QED
  BY <1>2 DEF Pushes

\* Nothing pushes the empty list.
LEMMA NothingPushed ==
  ASSUME NEW values
  PROVE  /\ Pushes(<<>>, {<<>>}, values) /\ AreStacks({<<>>}) /\ OfLength({<<>>}, 0)
<1>1. IsStack(<<>>) /\ Len(<<>>) = 0
  BY DEF IsStack
<1> QED
  BY <1>1, TurnsNone DEF Pushes, AreStacks, OfLength

LEMMA MadeIs ==
  ASSUME NEW ts, NEW nodes \in Seq(Nodes(ts)), NEW next \in Nat
  PROVE  /\ Made(nodes, next) \subseteq Results(ts)
         /\ \A r \in Made(nodes, next) : r.nodes = nodes /\ r.next = next /\ r.count = 0
BY DEF Made, Results

\* A leaf of the tree.
LEMMA LeafIs ==
  ASSUME NEW ts, NEW n \in Nat, NEW op, NEW at, NEW r \in WithNode(Made(<<>>, n), op, at, 0)
  PROVE  r.nodes = Append(<<>>, Node(op, at, 0)) /\ r.next = n /\ r.count = 0
<1> DEFINE made == Made(<<>>, n)
<1>1. /\ made \subseteq Results(ts)
      /\ \A a \in made : a.nodes = <<>> /\ a.next = n /\ a.count = 0
  <2> DEFINE none == <<>>
  <2>1. none \in Seq(Nodes(ts))
    OBVIOUS
  <2> HIDE DEF none
  <2>2. /\ Made(none, n) \subseteq Results(ts)
        /\ \A a \in Made(none, n) : a.nodes = none /\ a.next = n /\ a.count = 0
    BY <2>1, MadeIs
  <2> QED
    BY <2>2 DEF none
<1> HIDE DEF made
<1>2. r \in WithNode(made, op, at, 0)
  BY DEF made
<1>3. HasOneMore(r, made, Node(op, at, 0))
  BY <1>1, <1>2, WithNodeIs
<1> QED
  BY <1>1, <1>3 DEF HasOneMore

LEMMA LeafPushes ==
  ASSUME NEW ts, NEW values, NEW node \in Nodes(ts), node.operands = 0
  PROVE  Pushes(Append(<<>>, node), Singles(NodeValue(node, <<>>, values)), values)
<1>1. <<>> \in Seq(Nodes(ts))
  OBVIOUS
<1>2. OfLength({<<>>}, node.operands) /\ AreStacks({<<>>}) /\ Pushes(<<>>, {<<>>}, values)
  BY NothingPushed
<1>3. Pushes(Append(<<>>, node),
             Singles(UNION {NodeValue(node, x, values) : x \in {<<>>}}), values)
  BY <1>1, <1>2, NodeOnLists
<1>4. UNION {NodeValue(node, x, values) : x \in {<<>>}} = NodeValue(node, <<>>, values)
  OBVIOUS
<1> QED
  BY <1>3, <1>4

\* The phrases of a leaf, of a parenthesis and of a call.
LEMMA NumberIs ==
  ASSUME NEW read, NEW ts, NEW values, NEW i \in Nat, NEW j \in Nat, j = i + 1, IsNumber(ts[i])
  PROVE  PrimaryFrom(read, ts, values, i, j) = {{NumberTokens[ts[i]]}}
<1>1. ~IsIdentifier(ts[i])
  BY DEF IsIdentifier
<1> QED
  BY <1>1 DEF PrimaryFrom

LEMMA SignalIs ==
  ASSUME NEW read, NEW ts, NEW values, NEW i \in Nat, NEW j \in Nat, j = i + 1, IsIdentifier(ts[i])
  PROVE  PrimaryFrom(read, ts, values, i, j) = {{values[ts[i]]}}
<1>1. ~IsNumber(ts[i])
  BY DEF IsIdentifier
<1> QED
  BY <1>1 DEF PrimaryFrom

LEMMA ParenthesisIs ==
  ASSUME NEW read, NEW ts, NEW values, NEW i \in Nat, NEW j \in Nat, j > i + 1,
         ts[i] = "(", ts[j - 1] = ")"
  PROVE  PrimaryFrom(read, ts, values, i, j) = read[<<"sum", i + 1, j - 1>>]
<1>1. ~IsIdentifier(ts[i]) /\ j # i + 1
  BY DEF IsIdentifier, Marks
<1> QED
  BY <1>1 DEF PrimaryFrom

LEMMA CallIs ==
  ASSUME NEW read, NEW ts, NEW values, NEW i \in Nat, NEW j \in Nat, j > i + 2,
         IsIdentifier(ts[i]), ts[i + 1] = "(", ts[j - 1] = ")"
  PROVE  PrimaryFrom(read, ts, values, i, j) = CallFrom(read, ts, i, j)
<1>1. ts[i] # "("
  BY DEF IsIdentifier, Marks
<1>2. j # i + 1 /\ j > i + 1
  OBVIOUS
<1> QED
  BY <1>1, <1>2 DEF PrimaryFrom

LEMMA LeafFits ==
  ASSUME NEW ts, Len(ts) \in Nat, NEW read, NEW values, Reading(read, ts, values),
         NEW i \in Nat, i <= Len(ts), NEW op \in {"number", "signal"},
         op = "number" => IsNumber(ts[i]), op = "signal" => IsIdentifier(ts[i]),
         NEW r \in WithNode(Made(<<>>, i + 1), op, ts[i], 0)
  PROVE  Means(read, values, "primary", i, r) /\ r.count = 0
<1> DEFINE node == Node(op, ts[i], 0)
           V == NodeValue(node, <<>>, values)
<1>0. i + 1 \in Nat /\ i < i + 1
  OBVIOUS
<1>1. r.nodes = Append(<<>>, node) /\ r.next = i + 1 /\ r.count = 0
  BY <1>0, LeafIs
<1>2. node \in Nodes(ts) /\ node.operands = 0
  <2>1. TokenAt(ts, i) = ts[i]
    BY DEF TokenAt
  <2>2. ts[i] \in Texts(ts) /\ op \in Texts(ts)
    BY <2>1, Tokens
  <2> QED
    BY <2>2 DEF Node, Nodes
<1>3. V = IF op = "number" THEN {NumberTokens[ts[i]]} ELSE {values[ts[i]]}
  BY DEF NodeValue, Node
<1> HIDE DEF node
<1>4. Pushes(r.nodes, Singles(V), values)
  BY <1>1, <1>2, LeafPushes
<1>5. read[<<"primary", i, i + 1>>] = PrimaryFrom(read, ts, values, i, i + 1)
  BY <1>0, ReadsLower
<1> HIDE DEF V
<1>6. V \in PrimaryFrom(read, ts, values, i, i + 1)
  <2>1. CASE op = "number"
    <3> DEFINE e == i + 1
    <3>0. e \in Nat /\ e = i + 1 /\ IsNumber(ts[i])
      BY <1>0, <2>1
    <3>1. PrimaryFrom(read, ts, values, i, e) = {{NumberTokens[ts[i]]}}
      <4> HIDE DEF e
      <4> QED
        BY ONLY <3>0, i \in Nat, NumberIs
    <3> QED
      BY <1>3, <2>1, <3>1
  <2>2. CASE op = "signal"
    <3> DEFINE e == i + 1
    <3>0. e \in Nat /\ e = i + 1 /\ IsIdentifier(ts[i])
      BY <1>0, <2>2
    <3>1. PrimaryFrom(read, ts, values, i, e) = {{values[ts[i]]}}
      <4> HIDE DEF e
      <4> QED
        BY ONLY <3>0, i \in Nat, SignalIs
    <3> QED
      BY <1>3, <2>2, <3>1
  <2> QED
    BY <2>1, <2>2
<1> QED
  BY <1>1, <1>4, <1>5, <1>6 DEF Means

LEMMA ParenthesisFits ==
  ASSUME NEW ts, Len(ts) \in Nat, NEW read, NEW values, Reading(read, ts, values),
         NEW i \in Nat, ts[i] = "(", NEW n \in Nat, n > i + 1, TokenAt(ts, n) = ")",
         NEW a, a.next = n, Means(read, values, "sum", i + 1, a),
         NEW r, r.nodes = a.nodes, r.next = n + 1
  PROVE  Means(read, values, "primary", i, r)
<1> DEFINE e == n + 1
<1>0. e \in Nat /\ i < e /\ e - 1 = n /\ e > i + 1 /\ e # i + 1
  OBVIOUS
<1>1. PICK V \in read[<<"sum", i + 1, n>>] : Pushes(a.nodes, Singles(V), values)
  BY DEF Means
<1>2. r.nodes = a.nodes /\ r.next = e
  OBVIOUS
<1>3. ts[n] = ")"
  BY DEF TokenAt
<1> HIDE DEF e
<1>4. read[<<"primary", i, e>>] = PrimaryFrom(read, ts, values, i, e)
  <2>1. Reading(read, ts, values) /\ i \in Nat
    OBVIOUS
  <2>2. e \in Nat /\ i < e
    BY <1>0
  <2> QED
    BY ONLY <2>1, <2>2, ReadsLower
<1>5. PrimaryFrom(read, ts, values, i, e) = read[<<"sum", i + 1, e - 1>>]
  <2>1. ts[e - 1] = ")" /\ ts[i] = "(" /\ e > i + 1
    BY <1>0, <1>3
  <2>2. e \in Nat /\ i \in Nat
    BY <1>0
  <2> QED
    BY ONLY <2>1, <2>2, ParenthesisIs
<1>6. V \in read[<<"primary", i, e>>]
  BY <1>0, <1>1, <1>4, <1>5
<1> QED
  BY <1>1, <1>2, <1>6 DEF Means

\* What a call is of: its arguments, as lists that were pushed.
IsCall(ts, read, values, i, q, L) ==
  /\ q.nodes \in Seq(Nodes(ts)) /\ q.next \in Nat /\ q.count \in Nat
  /\ q.next > i + 2 /\ TokenAt(ts, q.next - 1) = ")"
  /\ AreStacks(L) /\ OfLength(L, q.count) /\ Pushes(q.nodes, L, values)
  /\ L \in read[<<"list", i + 2, q.next - 1>>] \cup IF q.next = i + 3 THEN {{<<>>}} ELSE {}

LEMMA CallFits ==
  ASSUME NEW ts, Len(ts) \in Nat, NEW read, NEW values, Reading(read, ts, values),
         NEW i \in Nat, i <= Len(ts), IsIdentifier(ts[i]), TokenAt(ts, i + 1) = "(",
         NEW q, NEW L, IsCall(ts, read, values, i, q, L),
         NEW r, r.nodes = Append(q.nodes, Node("call", ts[i], q.count)), r.next = q.next
  PROVE  Means(read, values, "primary", i, r)
<1> DEFINE node == Node("call", ts[i], q.count)
           e == q.next
           V == UNION {Called(ts[i], x) : x \in L}
<1>1. /\ e \in Nat /\ e > i + 2 /\ TokenAt(ts, e - 1) = ")" /\ q.nodes \in Seq(Nodes(ts))
      /\ L \in read[<<"list", i + 2, e - 1>>] \cup IF e = i + 3 THEN {{<<>>}} ELSE {}
      /\ r.next = e
  BY DEF IsCall
<1>2. node \in Nodes(ts) /\ OfLength(L, node.operands) /\ AreStacks(L)
  <2>1. TokenAt(ts, i) = ts[i]
    BY DEF TokenAt
  <2>2. ts[i] \in Texts(ts) /\ "call" \in Texts(ts) /\ q.count \in Nat
    BY <2>1, Tokens DEF IsCall
  <2>3. node \in Nodes(ts) /\ node.operands = q.count
    BY <2>2 DEF Node, Nodes
  <2> HIDE DEF node
  <2> QED
    BY <2>3 DEF IsCall
<1>3. \A x : NodeValue(node, x, values) = Called(ts[i], x)
  BY DEF NodeValue, Node
<1>4. Pushes(Append(q.nodes, node), Singles(V), values)
  <2> HIDE DEF node
  <2>1. Pushes(q.nodes, L, values)
    BY DEF IsCall
  <2>2. Pushes(Append(q.nodes, node), Singles(UNION {NodeValue(node, x, values) : x \in L}), values)
    BY <1>1, <1>2, <2>1, NodeOnLists
  <2>3. UNION {NodeValue(node, x, values) : x \in L} = V
    BY <1>3
  <2> QED
    BY <2>2, <2>3
<1>5. V \in CallFrom(read, ts, i, e)
  <2> HIDE DEF e
  <2> QED
    BY <1>1 DEF CallFrom
<1>6. r.nodes = Append(q.nodes, node)
  OBVIOUS
<1> HIDE DEF e, V, node
<1>7. CallFrom(read, ts, i, e) = PrimaryFrom(read, ts, values, i, e)
  <2>1. i < e
    BY <1>1
  <2>2. ts[i + 1] = "(" /\ ts[e - 1] = ")"
    <3>1. \A m : TokenAt(ts, m) # "end" => ts[m] = TokenAt(ts, m)
      BY DEF TokenAt
    <3> QED
      BY <1>1, <3>1
  <2>3. /\ i \in Nat /\ e \in Nat /\ e > i + 2 /\ IsIdentifier(ts[i])
        /\ ts[i + 1] = "(" /\ ts[e - 1] = ")"
    BY <1>1, <2>2
  <2> QED
    BY ONLY <2>3, CallIs
<1>8. PrimaryFrom(read, ts, values, i, e) = read[<<"primary", i, e>>]
  <2>1. Reading(read, ts, values) /\ i \in Nat /\ e \in Nat /\ i < e
    BY <1>1
  <2> QED
    BY ONLY <2>1, ReadsLower
<1> QED
  BY <1>1, <1>4, <1>5, <1>6, <1>7, <1>8 DEF Means

\* The result of a call and the arguments it is of.
CallOf(ts, i, f, r) ==
  \E q \in IF TokenAt(ts, i + 2) = ")" THEN Made(<<>>, i + 3) ELSE f[<<"arguments", i + 2>>] :
    /\ q \in Results(ts)
    /\ r.nodes = Append(q.nodes, Node("call", ts[i], q.count)) /\ r.next = q.next /\ r.count = 0

LEMMA CallIsOf ==
  ASSUME NEW ts, Len(ts) \in Nat, NEW f, IsParse(ts, f), NEW i \in Nat, NEW r \in FunctionCall(ts, i, f)
  PROVE  CallOf(ts, i, f, r)
<1> DEFINE lists == IF TokenAt(ts, i + 2) = ")" THEN Made(<<>>, i + 3) ELSE f[<<"arguments", i + 2>>]
<1>1. lists \subseteq Results(ts)
  <2>1. i + 2 \in Nat /\ i + 3 \in Nat /\ "arguments" \in Rules
    BY DEF Rules
  <2>2. Made(<<>>, i + 3) \subseteq Results(ts)
    <3> DEFINE none == <<>>
    <3>1. none \in Seq(Nodes(ts))
      OBVIOUS
    <3> HIDE DEF none
    <3>2. Made(none, i + 3) \subseteq Results(ts)
      BY <2>1, <3>1, MadeIs
    <3> QED
      BY <3>2 DEF none
  <2>3. f[<<"arguments", i + 2>>] \subseteq Results(ts)
    BY <2>1, AnswersAre
  <2> QED
    BY <2>2, <2>3
<1>2. PICK q \in lists : r \in WithNode(Made(q.nodes, q.next), "call", ts[i], q.count)
  BY DEF FunctionCall
<1>3. q \in Results(ts) /\ q.nodes \in Seq(Nodes(ts)) /\ q.next \in Nat
  BY <1>1, <1>2 DEF Results
<1> HIDE DEF lists
<1> DEFINE made == Made(q.nodes, q.next)
<1>4. made \subseteq Results(ts) /\ \A a \in made : a.nodes = q.nodes /\ a.next = q.next /\ a.count = 0
  BY <1>3, MadeIs
<1>5. r \in WithNode(made, "call", ts[i], q.count)
  BY <1>2
<1> HIDE DEF made
<1>6. HasOneMore(r, made, Node("call", ts[i], q.count))
  BY <1>4, <1>5, WithNodeIs
<1>7. r.nodes = Append(q.nodes, Node("call", ts[i], q.count)) /\ r.next = q.next /\ r.count = 0
  BY <1>4, <1>6 DEF HasOneMore
<1> QED
  BY <1>2, <1>3, <1>7 DEF CallOf, lists

LEMMA FunctionCallFits ==
  ASSUME NEW ts, Len(ts) \in Nat, NEW f, IsParse(ts, f), NEW read, NEW values,
         Reading(read, ts, values), NEW i \in Nat, i <= Len(ts),
         IsIdentifier(ts[i]), TokenAt(ts, i + 1) = "(",
         CallsFit(f, read, ts, values, Weight(ts, "primary", i)), NEW r \in FunctionCall(ts, i, f)
  PROVE  Means(read, values, "primary", i, r) /\ r.count = 0
<1>0. {"primary", "arguments"} \subseteq Rules /\ i + 2 \in Nat /\ i + 2 > i
      /\ i + 3 \in Nat /\ i + 3 > i + 2 /\ (i + 3) - 1 = i + 2 /\ (i + 2) + 1 = i + 3
  BY DEF Rules
<1>1. PICK q \in IF TokenAt(ts, i + 2) = ")" THEN Made(<<>>, i + 3) ELSE f[<<"arguments", i + 2>>] :
        /\ q \in Results(ts)
        /\ r.nodes = Append(q.nodes, Node("call", ts[i], q.count)) /\ r.next = q.next /\ r.count = 0
  BY CallIsOf DEF CallOf
<1>2. q.nodes \in Seq(Nodes(ts)) /\ q.next \in Nat /\ q.count \in Nat
  BY <1>1 DEF Results
<1>3. CASE TokenAt(ts, i + 2) = ")"
  <2> DEFINE L == {<<>>}
  <2>1. q.nodes = <<>> /\ q.next = i + 3 /\ q.count = 0
    BY <1>1, <1>3 DEF Made
  <2>2. Pushes(q.nodes, L, values) /\ AreStacks(L) /\ OfLength(L, q.count)
    BY <2>1, NothingPushed
  <2> HIDE DEF L
  <2>3. L \in read[<<"list", i + 2, q.next - 1>>] \cup IF q.next = i + 3 THEN {L} ELSE {}
    BY <2>1
  <2>4. q.next > i + 2 /\ TokenAt(ts, q.next - 1) = ")"
    BY <1>0, <1>3, <2>1
  <2>5. IsCall(ts, read, values, i, q, L)
    BY <1>2, <2>2, <2>3, <2>4 DEF IsCall, L
  <2> QED
    BY <1>1, <2>5, CallFits
<1>4. CASE TokenAt(ts, i + 2) # ")"
  <2>1. q \in f[<<"arguments", i + 2>>]
    BY <1>1, <1>4
  <2>2. Weight(ts, "arguments", i + 2) < Weight(ts, "primary", i)
    BY <1>0, SmallerWeight
  <2>3. MeansList(read, ts, values, i + 2, q)
    BY <1>0, <2>1, <2>2, FitsIs DEF CallsFit
  <2>4. PICK L \in read[<<"list", i + 2, q.next - 1>>] :
          AreStacks(L) /\ (\A x \in L : Len(x) = q.count) /\ Pushes(q.nodes, L, values)
    BY <2>3 DEF MeansList
  <2>5. q.next > i + 3 /\ TokenAt(ts, q.next - 1) = ")"
    BY <1>0, <2>3 DEF MeansList
  <2>6. q.next > i + 2
    BY <1>0, <1>2, <2>5
  <2>7. OfLength(L, q.count)
    BY <2>4 DEF OfLength
  <2>8. IsCall(ts, read, values, i, q, L)
    BY <1>2, <2>4, <2>5, <2>6, <2>7 DEF IsCall
  <2> QED
    BY <1>1, <2>8, CallFits
<1> QED
  BY <1>3, <1>4

LEMMA PrimaryFits ==
  ASSUME NEW ts, Len(ts) \in Nat, NEW f, IsParse(ts, f), NEW read, NEW values,
         Reading(read, ts, values), NEW i \in Nat,
         CallsFit(f, read, ts, values, Weight(ts, "primary", i)), NEW r \in Primary(ts, i, f)
  PROVE  Means(read, values, "primary", i, r) /\ r.count = 0
<1> DEFINE t == TokenAt(ts, i)
<1>0. {"primary", "expression"} \subseteq Rules /\ i + 1 \in Nat /\ i + 1 > i
  BY DEF Rules
<1>1. ~IsNumber("end") /\ ~IsIdentifier("end") /\ "end" # "("
  BY DEF IsNumber, IsIdentifier, NumberTokens, Marks
<1>2. i > Len(ts) => t = "end"
  BY Tokens
<1>3. \A x : IsIdentifier(x) => ~IsNumber(x) /\ x # "("
  BY DEF IsIdentifier, Marks
<1>4. ~IsNumber("(")
  BY DEF IsNumber, NumberTokens
<1>5. i <= Len(ts)
  <2> SUFFICES ASSUME i > Len(ts) PROVE FALSE
    OBVIOUS
  <2>1. t = "end"
    BY <1>2
  <2> HIDE DEF t
  <2>2. Primary(ts, i, f) = {}
    BY <1>1, <2>1 DEF Primary, t
  <2> QED
    BY <2>2
<1>6. t = ts[i]
  BY <1>5 DEF TokenAt
<1> HIDE DEF t
<1>7. CASE IsNumber(t)
  <2>1. r \in WithNode(Made(<<>>, i + 1), "number", ts[i], 0)
    <3>1. ~IsIdentifier(t) /\ t # "("
      BY <1>3, <1>4, <1>7
    <3> QED
      BY <1>6, <1>7, <3>1 DEF Primary, t
  <2> QED
    BY <1>5, <1>6, <1>7, <2>1, LeafFits
<1>8. CASE IsIdentifier(t) /\ TokenAt(ts, i + 1) # "("
  <2>1. r \in WithNode(Made(<<>>, i + 1), "signal", ts[i], 0)
    BY <1>3, <1>6, <1>8 DEF Primary, t
  <2> QED
    BY <1>5, <1>6, <1>8, <2>1, LeafFits
<1>9. CASE IsIdentifier(t) /\ TokenAt(ts, i + 1) = "("
  <2>1. r \in FunctionCall(ts, i, f)
    BY <1>3, <1>6, <1>9 DEF Primary, t
  <2> QED
    BY <1>5, <1>6, <1>9, <2>1, FunctionCallFits
<1>10. CASE t = "("
  <2> DEFINE calls == f[<<"expression", i + 1>>]
  <2>1. r \in Closed(calls, ts)
    <3>1. ~IsNumber(t) /\ ~IsIdentifier(t)
      BY <1>3, <1>4, <1>10
    <3> HIDE DEF calls
    <3> QED
      BY <1>10, <3>1 DEF Primary, t, calls
  <2>2. /\ calls \subseteq Results(ts)
        /\ \A a \in calls : a.next \in Nat /\ a.next > i + 1
    BY <1>0, AnswersAre
  <2>3. Weight(ts, "expression", i + 1) < Weight(ts, "primary", i)
    BY <1>0, <1>5, SmallerWeight
  <2>4. \A a \in calls : Means(read, values, "sum", i + 1, a) /\ a.count = 0
    <3> SUFFICES ASSUME NEW a \in calls
                 PROVE  Means(read, values, "sum", i + 1, a) /\ a.count = 0
      OBVIOUS
    <3>1. Fits(read, ts, values, "expression", i + 1, a)
      BY <1>0, <2>3 DEF CallsFit
    <3> QED
      BY <3>1 DEF Fits
  <2> HIDE DEF calls
  <2>5. PICK a \in calls : /\ TokenAt(ts, a.next) = ")"
                           /\ r.nodes = a.nodes /\ r.next = a.next + 1 /\ r.count = a.count
    <3>1. IsClosed(r, calls, ts)
      BY <2>1, <2>2, ClosedIs
    <3> QED
      BY <3>1 DEF IsClosed
  <2> DEFINE n == a.next
  <2>6. /\ n \in Nat /\ n > i + 1 /\ TokenAt(ts, n) = ")" /\ a.next = n
        /\ r.nodes = a.nodes /\ r.next = n + 1 /\ r.count = 0
        /\ Means(read, values, "sum", i + 1, a)
    BY <2>2, <2>4, <2>5
  <2> HIDE DEF n
  <2>7. ts[i] = "("
    BY <1>6, <1>10
  <2>8. Means(read, values, "primary", i, r)
    BY <2>6, <2>7, ParenthesisFits
  <2> QED
    BY <2>6, <2>8
<1>11. CASE ~IsNumber(t) /\ ~IsIdentifier(t) /\ t # "("
  <2>1. Primary(ts, i, f) = {}
    BY <1>11 DEF Primary, t
  <2> QED
    BY <2>1
<1> QED
  BY <1>7, <1>8, <1>9, <1>10, <1>11

LEMMA FollowedCounts ==
  ASSUME NEW ts, NEW f, NEW results, NEW rule, CallsAnswer(ts, results, f, rule),
         \A a \in results : \A b \in f[<<rule, a.next>>] : b.count = 0,
         NEW r \in Followed(results, f, rule)
  PROVE  r.count = 0
<1>1. IsFollowed(r, results, f, rule)
  BY FollowedIs
<1> QED
  BY <1>1 DEF IsFollowed

\* Only arguments are counted.
LEMMA FirstThenCounts ==
  ASSUME NEW ts, Len(ts) \in Nat, NEW f, IsParse(ts, f), NEW read, NEW values, NEW w,
         CallsFit(f, read, ts, values, w), NEW i \in Nat,
         NEW first \in Rules \ {"terms", "factors"}, NEW rest \in {"terms", "factors"},
         i <= Len(ts) => \A j \in Nat : j > i => Weight(ts, rest, j) < w,
         NEW r \in Followed(f[<<first, i>>], f, rest)
  PROVE  r.count = 0
<1>0. rest \in Rules /\ first \in Rules /\ rest # "arguments"
  BY DEF Rules
<1>1. \A a \in f[<<first, i>>] : a.next \in Nat /\ i <= Len(ts) /\ a.next > i
  BY <1>0, AnswersAre
<1>2. CallsAnswer(ts, f[<<first, i>>], f, rest)
  <2>1. \A a \in f[<<first, i>>] : f[<<rest, a.next>>] \subseteq Results(ts)
    BY <1>0, <1>1, AnswersAre
  <2> QED
    BY <2>1 DEF CallsAnswer
<1>3. \A a \in f[<<first, i>>] : \A b \in f[<<rest, a.next>>] : b.count = 0
  <2> SUFFICES ASSUME NEW a \in f[<<first, i>>], NEW b \in f[<<rest, a.next>>] PROVE b.count = 0
    OBVIOUS
  <2>1. Weight(ts, rest, a.next) < w
    BY <1>1
  <2>2. Fits(read, ts, values, rest, a.next, b)
    BY <1>0, <1>1, <2>1 DEF CallsFit
  <2> QED
    BY <1>0, <2>2 DEF Fits
<1> QED
  BY <1>2, <1>3, FollowedCounts

LEMMA AfterNext ==
  ASSUME NEW k \in Nat, NEW n \in Nat, n > k + 1
  PROVE  n > k
OBVIOUS

LEMMA RepeatedCounts ==
  ASSUME NEW ts, Len(ts) \in Nat, NEW f, IsParse(ts, f), NEW read, NEW values, NEW k \in Nat,
         NEW operand \in {"term", "unary"}, NEW rule \in {"terms", "factors"},
         CallsFit(f, read, ts, values, Weight(ts, rule, k)), NEW ops, "end" \notin ops,
         NEW r \in Repeated(ts, k, f, ops, operand, rule)
  PROVE  r.count = 0
<1>0. /\ rule \in Rules /\ operand \in Rules /\ operand \notin {"terms", "factors"}
      /\ rule # "arguments" /\ k + 1 \in Nat
  BY DEF Rules
<1>1. CASE TokenAt(ts, k) \notin ops
  BY <1>1 DEF Repeated, Made
<1>2. CASE TokenAt(ts, k) \in ops
  <2>1. k <= Len(ts)
    <3>1. k > Len(ts) => TokenAt(ts, k) = "end"
      BY Tokens
    <3> QED
      BY <1>2, <3>1
  <2>2. \A j \in Nat : j > k => Weight(ts, rule, j) < Weight(ts, rule, k)
    BY <1>0, <2>1, SmallerWeight
  <2> DEFINE calls == f[<<operand, k + 1>>]
             made == WithNode(calls, TokenAt(ts, k), "", 2)
  <2>3. calls \subseteq Results(ts) /\ \A a \in calls : a.next \in Nat /\ a.next > k + 1
    BY <1>0, AnswersAre
  <2>4. r \in Followed(made, f, rule)
    BY <1>2 DEF Repeated
  <2> HIDE DEF calls
  <2>5. \A m \in made : m.next \in Nat /\ m.next > k
    <3> SUFFICES ASSUME NEW m \in made PROVE m.next \in Nat /\ m.next > k
      OBVIOUS
    <3>1. HasOneMore(m, calls, Node(TokenAt(ts, k), "", 2))
      BY <2>3, WithNodeIs
    <3>2. PICK a \in calls : m.next = a.next
      BY <3>1 DEF HasOneMore
    <3> DEFINE n == a.next
    <3>3. n \in Nat /\ n > k + 1 /\ m.next = n
      BY <2>3, <3>2
    <3> HIDE DEF n
    <3>4. n > k
      BY <3>3, AfterNext
    <3> QED
      BY <3>3, <3>4
  <2> HIDE DEF made
  <2>6. CallsAnswer(ts, made, f, rule)
    <3> SUFFICES ASSUME NEW m \in made PROVE f[<<rule, m.next>>] \subseteq Results(ts)
      BY DEF CallsAnswer
    <3> QED
      BY <1>0, <2>5, AnswersAre
  <2>7. \A m \in made : \A b \in f[<<rule, m.next>>] : b.count = 0
    <3> SUFFICES ASSUME NEW m \in made, NEW b \in f[<<rule, m.next>>] PROVE b.count = 0
      OBVIOUS
    <3>1. Weight(ts, rule, m.next) < Weight(ts, rule, k)
      BY <2>2, <2>5
    <3>2. Fits(read, ts, values, rule, m.next, b)
      BY <1>0, <2>5, <3>1 DEF CallsFit
    <3> QED
      BY <1>0, <3>2 DEF Fits
  <2> QED
    BY <2>4, <2>6, <2>7, FollowedCounts
<1> QED
  BY <1>1, <1>2

LEMMA UnaryCounts ==
  ASSUME NEW ts, Len(ts) \in Nat, NEW f, IsParse(ts, f), NEW read, NEW values, NEW i \in Nat,
         CallsFit(f, read, ts, values, Weight(ts, "unary", i)), NEW r \in Unary(ts, i, f)
  PROVE  r.count = 0
<1>0. {"unary", "primary"} \subseteq Rules /\ i + 1 \in Nat /\ i + 1 > i
  BY DEF Rules
<1>1. CASE TokenAt(ts, i) \in {"+", "-"}
  <2>1. i <= Len(ts)
    <3>1. i > Len(ts) => TokenAt(ts, i) = "end"
      BY Tokens
    <3> QED
      BY <1>1, <3>1
  <2>2. Weight(ts, "unary", i + 1) < Weight(ts, "unary", i)
    BY <1>0, <2>1, SmallerWeight
  <2> DEFINE calls == f[<<"unary", i + 1>>]
  <2>3. \A a \in calls : a.count = 0
    <3> SUFFICES ASSUME NEW a \in calls PROVE a.count = 0
      OBVIOUS
    <3>1. Fits(read, ts, values, "unary", i + 1, a)
      BY <1>0, <2>2 DEF CallsFit
    <3> QED
      BY <3>1 DEF Fits
  <2>4. calls \subseteq Results(ts)
    BY <1>0, AnswersAre
  <2> HIDE DEF calls
  <2>5. r \in calls \/ r \in WithNode(calls, "negate", "", 1)
    BY <1>1 DEF Unary, calls
  <2>6. r \in WithNode(calls, "negate", "", 1) => HasOneMore(r, calls, Node("negate", "", 1))
    BY <2>4, WithNodeIs
  <2> QED
    BY <2>3, <2>5, <2>6 DEF HasOneMore
<1>2. CASE TokenAt(ts, i) \notin {"+", "-"}
  <2>1. Below("primary") < Below("unary")
    BY DEF Below
  <2>2. Weight(ts, "primary", i) < Weight(ts, "unary", i)
    BY <1>0, <2>1, SmallerWeight
  <2>3. r \in f[<<"primary", i>>]
    BY <1>2 DEF Unary
  <2>4. Fits(read, ts, values, "primary", i, r)
    BY <1>0, <2>2, <2>3 DEF CallsFit
  <2> QED
    BY <2>4 DEF Fits
<1> QED
  BY <1>1, <1>2

\* What a method returns fits if the calls it makes do.
LEMMA RuleFits ==
  ASSUME NEW ts, Len(ts) \in Nat, NEW f, IsParse(ts, f), NEW read, NEW values,
         Reading(read, ts, values), NEW rule \in Rules, NEW i \in Nat,
         CallsFit(f, read, ts, values, Weight(ts, rule, i)), NEW r \in f[<<rule, i>>]
  PROVE  Fits(read, ts, values, rule, i, r)
<1>0. r \in ParseFrom(ts, f, rule, i)
  BY AnswersAre
<1>1. CASE rule = "expression"
  <2>1. r \in Sum(ts, i, f)
    BY <1>0, <1>1 DEF ParseFrom
  <2>2. CallsFit(f, read, ts, values, Weight(ts, "expression", i))
    BY <1>1
  <2>3. Means(read, values, "sum", i, r)
    BY <2>1, <2>2, SumFits
  <2>4. r.count = 0
    <3>1. i <= Len(ts) => \A j \in Nat : j > i => Weight(ts, "terms", j) < Weight(ts, "expression", i)
      BY SmallerWeight DEF Rules
    <3>2. r \in Followed(f[<<"term", i>>], f, "terms")
      BY <2>1 DEF Sum
    <3>3. "term" \in Rules \ {"terms", "factors"} /\ "terms" \in {"terms", "factors"}
      BY DEF Rules
    <3> QED
      BY <2>2, <3>1, <3>2, <3>3, FirstThenCounts
  <2> QED
    BY <1>1, <2>3, <2>4 DEF Fits
<1>2. CASE rule = "term"
  <2>1. r \in Product(ts, i, f)
    BY <1>0, <1>2 DEF ParseFrom
  <2>2. CallsFit(f, read, ts, values, Weight(ts, "term", i))
    BY <1>2
  <2>3. Means(read, values, "product", i, r)
    BY <2>1, <2>2, ProductFits
  <2>4. r.count = 0
    <3>1. i <= Len(ts) => \A j \in Nat : j > i => Weight(ts, "factors", j) < Weight(ts, "term", i)
      BY SmallerWeight DEF Rules
    <3>2. r \in Followed(f[<<"unary", i>>], f, "factors")
      BY <2>1 DEF Product
    <3>3. "unary" \in Rules \ {"terms", "factors"} /\ "factors" \in {"terms", "factors"}
      BY DEF Rules
    <3> QED
      BY <2>2, <3>1, <3>2, <3>3, FirstThenCounts
  <2> QED
    BY <1>2, <2>3, <2>4 DEF Fits
<1>3. CASE rule = "unary"
  <2>1. r \in Unary(ts, i, f)
    BY <1>0, <1>3 DEF ParseFrom
  <2>2. CallsFit(f, read, ts, values, Weight(ts, "unary", i))
    BY <1>3
  <2>3. Means(read, values, "signed", i, r) /\ r.count = 0
    BY <2>1, <2>2, UnaryFits, UnaryCounts
  <2> QED
    BY <1>3, <2>3 DEF Fits
<1>4. CASE rule = "primary"
  <2>1. r \in Primary(ts, i, f)
    BY <1>0, <1>4 DEF ParseFrom
  <2>2. CallsFit(f, read, ts, values, Weight(ts, "primary", i))
    BY <1>4
  <2>3. Means(read, values, "primary", i, r) /\ r.count = 0
    BY <2>1, <2>2, PrimaryFits
  <2> QED
    BY <1>4, <2>3 DEF Fits
<1>5. CASE rule = "arguments"
  <2>1. r \in Arguments(ts, i, f)
    BY <1>0, <1>5 DEF ParseFrom
  <2>2. CallsFit(f, read, ts, values, Weight(ts, "arguments", i))
    BY <1>5
  <2>3. MeansList(read, ts, values, i, r)
    BY <2>1, <2>2, ArgumentsFit
  <2> QED
    BY <1>5, <2>3 DEF Fits
<1>6. CASE rule = "terms"
  <2>1. r \in Repeated(ts, i, f, {"+", "-"}, "term", "terms")
    BY <1>0, <1>6 DEF ParseFrom
  <2>2. CallsFit(f, read, ts, values, Weight(ts, "terms", i))
    BY <1>6
  <2> DEFINE ops == {"+", "-"}
  <2>3. /\ SplitKinds(read, ts, values, "sum", "product", ops) /\ "end" \notin ops
        /\ "term" \in {"term", "unary"} /\ "terms" \in {"terms", "factors"}
    BY SumsSplit
  <2>4. /\ \A a, j : Fits(read, ts, values, "term", j, a) => Means(read, values, "product", j, a)
        /\ \A b, j : Fits(read, ts, values, "terms", j, b) => GoesOn(read, values, "sum", j, b)
    BY FitsIs
  <2> HIDE DEF ops
  <2>5. r \in Repeated(ts, i, f, ops, "term", "terms")
    BY <2>1 DEF ops
  <2>6. GoesOn(read, values, "sum", i, r)
    BY <2>2, <2>3, <2>4, <2>5, RepeatedFits
  <2>7. r.count = 0
    BY <2>2, <2>3, <2>5, RepeatedCounts
  <2> QED
    BY <1>6, <2>6, <2>7 DEF Fits
<1>7. CASE rule = "factors"
  <2>1. r \in Repeated(ts, i, f, {"*", "/"}, "unary", "factors")
    BY <1>0, <1>7 DEF ParseFrom
  <2>2. CallsFit(f, read, ts, values, Weight(ts, "factors", i))
    BY <1>7
  <2> DEFINE ops == {"*", "/"}
  <2>3. /\ SplitKinds(read, ts, values, "product", "signed", ops) /\ "end" \notin ops
        /\ "unary" \in {"term", "unary"} /\ "factors" \in {"terms", "factors"}
    BY SumsSplit
  <2>4. /\ \A a, j : Fits(read, ts, values, "unary", j, a) => Means(read, values, "signed", j, a)
        /\ \A b, j : Fits(read, ts, values, "factors", j, b) => GoesOn(read, values, "product", j, b)
    BY FitsIs
  <2> HIDE DEF ops
  <2>5. r \in Repeated(ts, i, f, ops, "unary", "factors")
    BY <2>1 DEF ops
  <2>6. GoesOn(read, values, "product", i, r)
    BY <2>2, <2>3, <2>4, <2>5, RepeatedFits
  <2>7. r.count = 0
    BY <2>2, <2>3, <2>5, RepeatedCounts
  <2> QED
    BY <1>7, <2>6, <2>7 DEF Fits
<1> QED
  BY <1>1, <1>2, <1>3, <1>4, <1>5, <1>6, <1>7 DEF Rules

\* Whatever a method returns fits.
LEMMA ParseFits ==
  ASSUME NEW ts, Len(ts) \in Nat, NEW f, IsParse(ts, f), NEW read, NEW values,
         Reading(read, ts, values), NEW rule \in Rules, NEW i \in Nat, NEW r \in f[<<rule, i>>]
  PROVE  Fits(read, ts, values, rule, i, r)
<1> DEFINE S == {n \in Nat : CallsFit(f, read, ts, values, n)}
           all == 5 * Len(ts) + 10
<1>1. 0 \in S
  <2>1. \A q \in Rules, j \in Nat : ~(Weight(ts, q, j) < 0)
    BY WeightIsBounded
  <2> QED
    BY <2>1 DEF CallsFit
<1>2. \A n \in Nat : n \in S => n + 1 \in S
  <2> SUFFICES ASSUME NEW n \in Nat, CallsFit(f, read, ts, values, n)
               PROVE  CallsFit(f, read, ts, values, n + 1)
    OBVIOUS
  <2> SUFFICES ASSUME NEW q \in Rules, NEW j \in Nat, Weight(ts, q, j) < n + 1, NEW a \in f[<<q, j>>]
               PROVE  Fits(read, ts, values, q, j, a)
    BY DEF CallsFit
  <2> DEFINE w == Weight(ts, q, j)
  <2>0. w \in Nat /\ \A o \in Rules, k \in Nat : Weight(ts, o, k) \in Nat
    BY WeightIsBounded
  <2>1. \A o \in Rules, k \in Nat : Weight(ts, o, k) < w => Weight(ts, o, k) < n
    <3> HIDE DEF w, S, all
    <3>1. w < n + 1
      BY DEF w
    <3>2. TAKE o \in Rules, k \in Nat
    <3>3. Weight(ts, o, k) \in Nat
      BY <2>0
    <3> QED
      BY <2>0, <3>1, <3>3
  <2>2. CallsFit(f, read, ts, values, w)
    <3> HIDE DEF w
    <3> QED
      BY <2>1 DEF CallsFit
  <2> QED
    BY <2>2, RuleFits
<1>3. CallsFit(f, read, ts, values, all)
  <2> HIDE DEF S
  <2>1. Nat \subseteq S
    BY <1>1, <1>2, AllNaturals
  <2>2. all \in Nat
    OBVIOUS
  <2> QED
    BY <2>1, <2>2 DEF S
<1>4. Weight(ts, rule, i) < all
  BY WeightIsBounded
<1> HIDE DEF all
<1> QED
  BY <1>3, <1>4 DEF CallsFit

\* The parser reads by the grammar, and the evaluator calculates what the parser read:
\* evaluating the tree of a formula, in the order a visit leaves it, gives one of the
\* meanings of the formula, with precedence, associativity, signs, parentheses and the
\* arguments of functions as the grammar has them (FormulaParser::parse,
\* FormulaEvaluator::evaluate).
THEOREM EvaluationIsMeaning ==
  ASSUME NEW ts, Len(ts) \in Nat, NEW values, NEW nodes \in Parsed(ts)
  PROVE  Evaluated(nodes, values) \in Meanings(ts, values)
<1>1. PICK read : /\ \A kind \in Phrases, i \in Nat, j \in Nat :
                       read[<<kind, i, j>>] = ReadFrom(read, ts, values, kind, i, j)
                  /\ Meanings(ts, values) = read[<<"sum", 1, Len(ts) + 1>>]
  BY MeaningsRead
<1>2. Reading(read, ts, values)
  BY <1>1 DEF Reading
<1> DEFINE parse == CHOOSE f : f = [p \in Rules \X Nat |-> ParseFrom(ts, f, p[1], p[2])]
<1>3. IsParse(ts, parse)
  <2>1. \E f : f = [p \in Rules \X Nat |-> ParseFrom(ts, f, p[1], p[2])]
    BY ParseExists DEF IsParse
  <2> QED
    BY <2>1 DEF IsParse
<1>4. Parsed(ts) = {r.nodes : r \in {q \in parse[<<"expression", 1>>] : q.next = Len(ts) + 1}}
  BY DEF Parsed
<1> HIDE DEF parse
<1>5. PICK r \in parse[<<"expression", 1>>] : r.next = Len(ts) + 1 /\ nodes = r.nodes
  BY <1>4
<1>6. "expression" \in Rules /\ 1 \in Nat
  BY DEF Rules
<1>7. Fits(read, ts, values, "expression", 1, r)
  BY <1>2, <1>3, <1>6, ParseFits
<1>8. PICK V \in read[<<"sum", 1, r.next>>] : Pushes(r.nodes, Singles(V), values)
  BY <1>7, FitsIs DEF Means
<1>9. nodes \in Seq(Nodes(ts))
  BY <1>3, <1>5, <1>6, AnswersAre
<1>10. Evaluated(nodes, values) = V
  BY <1>5, <1>8, <1>9, PushesOne
<1> QED
  BY <1>1, <1>5, <1>8, <1>10

-----------------------------------------------------------------------------
(* A frame is consistent. *)

\* A formula is evaluated from the signals it names, and from no others.
LEMMA EvaluatedAgrees ==
  ASSUME NEW N, NEW nodes \in Seq(N), NEW v, NEW w,
         \A node \in ToSet(nodes) : node.op = "signal" => v[node.at] = w[node.at]
  PROVE  Evaluated(nodes, v) = Evaluated(nodes, w)
<1> DEFINE n == Len(nodes)
           base == {<<>>}
<1>1. n \in Nat /\ nodes \in [1..n -> N]
  BY SeqIsList
<1>2. \A k \in 1..n : nodes[k] \in ToSet(nodes)
  BY <1>1 DEF ToSet
<1> HIDE DEF n, base
<1>3. PICK h : RunInTurn(h, n, nodes, base, v)
  BY <1>1, RunsSteps
<1>4. ASSUME NEW node \in ToSet(nodes), NEW xs PROVE NodeValue(node, xs, v) = NodeValue(node, xs, w)
  <2>1. CASE node.op = "signal"
    <3>1. v[node.at] = w[node.at]
      BY <2>1
    <3> QED
      BY <2>1, <3>1 DEF NodeValue
  <2>2. CASE node.op # "signal"
    BY <2>2 DEF NodeValue
  <2> QED
    BY <2>1, <2>2
<1>5. \A node \in ToSet(nodes) : \A stacks : NodeDone(stacks, node, v) = NodeDone(stacks, node, w)
  <2> TAKE node \in ToSet(nodes)
  <2> TAKE stacks
  <2> DEFINE done(s, u) == {Append(SubSeq(s, 1, Len(s) - node.operands), x) :
                              x \in NodeValue(node, SubSeq(s, Len(s) - node.operands + 1, Len(s)), u)}
  <2>1. \A s : done(s, v) = done(s, w)
    BY <1>4
  <2>2. \A u : NodeDone(stacks, node, u) = UNION {done(s, u) : s \in stacks}
    BY DEF NodeDone
  <2> HIDE DEF done
  <2>3. UNION {done(s, v) : s \in stacks} = UNION {done(s, w) : s \in stacks}
    BY <2>1
  <2> QED
    BY <2>2, <2>3
<1>6. IsRun(h, n, nodes, base, w)
  BY <1>2, <1>3, <1>5 DEF RunInTurn, IsRun
<1>7. Run(nodes, base, w) = Run(nodes, base, v)
  <2>1. Run(nodes, base, w) = h[n]
    BY <1>1, <1>6, RunIs
  <2> QED
    BY <1>3, <2>1 DEF RunInTurn
<1> QED
  BY <1>7, EvaluatedRuns DEF base

LEMMA NamesOfSignals ==
  ASSUME NEW N, NEW nodes \in Seq(N), NEW node \in ToSet(nodes), node.op = "signal"
  PROVE  node.at \in ToSet(NamesRead(nodes))
<1> DEFINE signals == {m \in ToSet(nodes) : m.op = "signal"}
           kept == Kept(nodes, signals)
<1>1. kept \in Seq(N) /\ ToSet(kept) = ToSet(nodes) \cap signals
  <2> HIDE DEF signals
  <2> QED
    BY KeptHolds
<1>2. NamesRead(nodes) = [i \in DOMAIN kept |-> kept[i].at]
  BY DEF NamesRead
<1>3. node \in ToSet(kept)
  BY <1>1
<1> HIDE DEF kept
<1>4. PICK i \in DOMAIN kept : kept[i] = node
  BY <1>1, <1>3 DEF ToSet
<1>5. NamesRead(nodes)[i] = node.at /\ i \in DOMAIN NamesRead(nodes)
  BY <1>2, <1>4
<1> QED
  BY <1>5 DEF ToSet

\* Every signal that is named is depended on.
LEMMA NamedAreDependedOn ==
  ASSUME NEW cfg, IsConfiguration(cfg), NEW N, NEW nodes \in Seq(N),
         ToSet(NamesRead(nodes)) \subseteq {r.name : r \in ToSet(cfg.signals)},
         NEW name \in ToSet(NamesRead(nodes))
  PROVE  SignalNamed(cfg, name).id \in ToSet(Dependencies(cfg, nodes))
<1> DEFINE names == NamesRead(nodes)
           R == ToSet(names)
           n == Len(names)
           I == Ids(ToSet(cfg.signals))
<1>1. names \in Seq(R)
  BY NamesAreRead
<1> HIDE DEF names, R
<1>2. n \in Nat /\ names \in [1..n -> R] /\ DOMAIN names = 1..n
  BY <1>1
<1> HIDE DEF n
<1>3. PICK h : DependsBy(h, n, cfg, nodes)
  BY <1>2, DependsSteps DEF names, R
<1>4. \A k \in 0..n : h[k] \in Seq(I)
  BY <1>3 DEF DependsBy
<1> HIDE DEF I
<1> DEFINE id(j) == SignalNamed(cfg, names[j]).id
           Has(k) == \A j \in 1..k : id(j) \in ToSet(h[k])
<1>5. Has(0)
  OBVIOUS
<1>6. ASSUME NEW k \in Nat, k + 1 \in 1..n, Has(k) PROVE Has(k + 1)
  <2>1. h[k + 1] = DependsNext(cfg, h[k], names[k + 1])
    <3>1. (k + 1) - 1 = k
      OBVIOUS
    <3> QED
      BY <1>3, <1>6, <3>1 DEF DependsBy, names
  <2>2. h[k] \in Seq(I) /\ h[k + 1] \in Seq(I)
    BY <1>2, <1>4, <1>6
  <2> DEFINE new == id(k + 1)
  <2>3. h[k + 1] = IF new \in ToSet(h[k]) THEN h[k] ELSE Append(h[k], new)
    BY <2>1 DEF DependsNext
  <2> HIDE DEF id
  <2>4. ToSet(h[k]) \subseteq ToSet(h[k + 1]) /\ new \in ToSet(h[k + 1])
    <3> DEFINE s == h[k]
               t == h[k + 1]
    <3>1. s \in Seq(I) /\ t = (IF new \in ToSet(s) THEN s ELSE Append(s, new))
      BY <2>2, <2>3
    <3> HIDE DEF s, t, new
    <3>2. ToSet(Append(s, new)) = ToSet(s) \cup {new}
      <4>1. s \in Seq(I \cup {new}) /\ new \in I \cup {new}
        BY <3>1
      <4> QED
        BY <4>1, AppendedSet
    <3>3. ToSet(s) \subseteq ToSet(t) /\ new \in ToSet(t)
      BY <3>1, <3>2
    <3> QED
      BY <3>3 DEF s, t
  <2>5. ASSUME NEW j \in 1..(k + 1) PROVE id(j) \in ToSet(h[k + 1])
    <3>1. CASE j = k + 1
      BY <2>4, <3>1
    <3>2. CASE j # k + 1
      <4>1. j \in 1..k
        BY <3>2
      <4> QED
        BY <1>6, <2>4, <4>1
    <3> QED
      BY <3>1, <3>2
  <2> QED
    BY <2>5
<1> HIDE DEF Has
<1> DEFINE S == {k \in Nat : k <= n => Has(k)}
<1>7. 0 \in S
  BY <1>5
<1>8. \A k \in Nat : k \in S => k + 1 \in S
  <2> SUFFICES ASSUME NEW k \in Nat, k \in S, k + 1 <= n PROVE Has(k + 1)
    OBVIOUS
  <2>1. k <= n /\ k + 1 \in 1..n
    BY <1>2
  <2> QED
    BY <1>6, <2>1
<1> HIDE DEF S
<1>9. n \in S
  BY <1>2, <1>7, <1>8, AllNaturals
<1>10. Has(n)
  BY <1>2, <1>9 DEF S
<1>11. PICK j \in 1..n : names[j] = name
  BY <1>2 DEF ToSet, names
<1>12. id(j) \in ToSet(h[n])
  BY <1>10 DEF Has
<1> QED
  BY <1>3, <1>11, <1>12 DEF DependsBy

\* Every calculated signal has a cell of its own.
LEMMA CellsAreApart ==
  ASSUME NEW cfg, IsConfiguration(cfg), SignalsApart(cfg), NEW s \in ToSet(CalculatedSignals(cfg))
  PROVE  /\ Place(cfg, s).area = "Calculated"
         /\ Place(cfg, s).index \in 0..Len(CalculatedSignals(cfg)) - 1
         /\ \A r \in ToSet(CalculatedSignals(cfg)) :
              Place(cfg, r).index = Place(cfg, s).index => r = s
<1> DEFINE rows == CalculatedSignals(cfg)
           n == Len(rows)
           at(x) == CHOOSE i \in DOMAIN rows : rows[i].id = x.id
<1>1. rows \in Seq(SignalRows) /\ ToSet(rows) = {x \in ToSet(cfg.signals) : x.kind = "Calculated"}
  BY CalculatedHold
<1>2. \A x \in ToSet(rows) : Place(cfg, x) = Cell("Calculated", at(x) - 1)
  <2> HIDE DEF at
  <2> SUFFICES ASSUME NEW x \in ToSet(rows) PROVE Place(cfg, x) = Cell("Calculated", at(x) - 1)
    OBVIOUS
  <2>1. x.kind # "Raw"
    BY <1>1
  <2> QED
    BY <2>1 DEF Place, at
<1> HIDE DEF rows
<1>3. n \in Nat /\ DOMAIN rows = 1..n
  BY <1>1
<1>4. \A x \in ToSet(rows) : at(x) \in 1..n /\ rows[at(x)].id = x.id
  <2> TAKE x \in ToSet(rows)
  <2>1. \E i \in DOMAIN rows : rows[i].id = x.id
    BY DEF ToSet
  <2> QED
    BY <1>3, <2>1
<1> HIDE DEF n, at
<1>5. \A x \in ToSet(rows) : Place(cfg, x).area = "Calculated" /\ Place(cfg, x).index = at(x) - 1
  BY <1>2 DEF Cell
<1>6. at(s) - 1 \in 0..n - 1
  BY <1>3, <1>4 DEF rows
<1>7. ASSUME NEW r \in ToSet(rows), at(r) - 1 = at(s) - 1 PROVE r = s
  <2>0. s \in ToSet(rows)
    BY DEF rows
  <2>1. at(r) = at(s)
    <3> DEFINE a == at(r)
               b == at(s)
    <3>1. a \in Int /\ b \in Int /\ a - 1 = b - 1
      BY <1>3, <1>4, <1>7, <2>0
    <3> HIDE DEF a, b
    <3>2. a = b
      BY <3>1
    <3> QED
      BY <3>2 DEF a, b
  <2>2. r.id = s.id
    BY <1>4, <2>0, <2>1
  <2>3. r \in ToSet(cfg.signals) /\ s \in ToSet(cfg.signals)
    BY <1>1, <2>0
  <2> QED
    BY <2>2, <2>3 DEF SignalsApart
<1>8. s \in ToSet(rows)
  BY DEF rows
<1> QED
  BY <1>5, <1>6, <1>7, <1>8 DEF rows, n

\* A frame has a cell for every calculated signal.
HasCells(cfg, f) ==
  /\ DOMAIN f = {"raw", "calculated"}
  /\ DOMAIN f.calculated = 0..Len(CalculatedSignals(cfg)) - 1

LEMMA ValuedIs ==
  ASSUME NEW cfg, NEW f, HasCells(cfg, f), NEW i \in 0..Len(CalculatedSignals(cfg)) - 1, NEW y
  PROVE  /\ HasCells(cfg, Valued(f, i, y))
         /\ Valued(f, i, y).raw = f.raw
         /\ Valued(f, i, y).calculated[i] = y
         /\ \A j \in 0..Len(CalculatedSignals(cfg)) - 1 :
              j # i => Valued(f, i, y).calculated[j] = f.calculated[j]
BY DEF HasCells, Valued

\* Calculating one signal changes the value of no other.
LEMMA OthersKeepValues ==
  ASSUME NEW cfg, IsConfiguration(cfg), SignalsApart(cfg), NEW f, HasCells(cfg, f),
         NEW s \in ToSet(CalculatedSignals(cfg)), NEW y,
         NEW name \in {r.name : r \in ToSet(cfg.signals)}, SignalNamed(cfg, name).id # s.id
  PROVE  ValuesIn(cfg, Valued(f, Place(cfg, s).index, y))[name] = ValuesIn(cfg, f)[name]
<1> DEFINE g == Valued(f, Place(cfg, s).index, y)
           r == SignalNamed(cfg, name)
<1>1. r \in ToSet(cfg.signals) /\ r # s
  <2>1. \E x \in ToSet(cfg.signals) : x.name = name
    OBVIOUS
  <2> QED
    BY <2>1 DEF SignalNamed
<1>2. Place(cfg, s).index \in 0..Len(CalculatedSignals(cfg)) - 1
  BY CellsAreApart
<1>3. /\ g.raw = f.raw
      /\ \A j \in 0..Len(CalculatedSignals(cfg)) - 1 :
           j # Place(cfg, s).index => g.calculated[j] = f.calculated[j]
  BY <1>2, ValuedIs
<1> HIDE DEF g, r
<1>4. \A h : ValuesIn(cfg, h)[name] = IF Place(cfg, r).area = "Raw" THEN h.raw[Place(cfg, r).index]
                                                                    ELSE h.calculated[Place(cfg, r).index]
  BY DEF ValuesIn, r
<1>5. CASE Place(cfg, r).area = "Raw"
  BY <1>3, <1>4, <1>5 DEF g
<1>6. CASE Place(cfg, r).area # "Raw"
  <2>1. r \in ToSet(CalculatedSignals(cfg))
    <3>1. r.kind # "Raw"
      BY <1>6 DEF Place, Cell
    <3>2. r.kind \in {"Raw", "Calculated"}
      <4>1. r \in SignalRows
        BY <1>1 DEF IsConfiguration, ToSet
      <4> QED
        BY <4>1 DEF SignalRows
    <3> QED
      BY <1>1, <3>1, <3>2, CalculatedHold
  <2>2. /\ Place(cfg, r).index \in 0..Len(CalculatedSignals(cfg)) - 1
        /\ Place(cfg, r).index # Place(cfg, s).index
    BY <1>1, <2>1, CellsAreApart
  <2>3. g.calculated[Place(cfg, r).index] = f.calculated[Place(cfg, r).index]
    BY <1>3, <2>2
  <2> QED
    BY <1>4, <1>6, <2>3 DEF g
<1> QED
  BY <1>5, <1>6

\* What a signal is evaluated by.
FormulaOf(cfg, i) == CHOOSE n \in Compiled(cfg, RowIn(cfg.signals, i)) : TRUE

\* The cell of a signal holds what its formula evaluates to, calibrated, in the frame.
IsCalculated(cfg, f, i) ==
  LET s == RowIn(cfg.signals, i)
  IN f.calculated[Place(cfg, s).index] \in
       UNION {Calibrated(cfg, s, x) : x \in Evaluated(FormulaOf(cfg, i), ValuesIn(cfg, f))}

\* Evaluation of a signal does not change with that of a signal it does not depend on.
LEMMA FormulaUnmoved ==
  ASSUME NEW cfg, IsConfiguration(cfg), SignalsApart(cfg), FormulasBuilt(cfg),
         NEW f, HasCells(cfg, f), NEW s \in ToSet(CalculatedSignals(cfg)), NEW y,
         NEW r \in ToSet(CalculatedSignals(cfg)), s.id \notin ToSet(DependsOf(cfg)[r.id])
  PROVE  Evaluated(FormulaOf(cfg, r.id), ValuesIn(cfg, Valued(f, Place(cfg, s).index, y))) =
           Evaluated(FormulaOf(cfg, r.id), ValuesIn(cfg, f))
<1> DEFINE nodes == FormulaOf(cfg, r.id)
           g == Valued(f, Place(cfg, s).index, y)
<1>1. nodes \in Compiled(cfg, r)
  BY DependsOnSignals DEF FormulaOf
<1>2. r \in ToSet(cfg.signals)
  BY CalculatedHold
<1>3. /\ nodes \in Seq(Nodes(r.formula))
      /\ ToSet(NamesRead(nodes)) \subseteq {x.name : x \in ToSet(cfg.signals)}
  BY <1>1, <1>2, CompiledHolds
<1>4. DependsOf(cfg)[r.id] = Dependencies(cfg, nodes)
  <2>1. r.id \in CalculatedIds(cfg)
    BY CalculatedHold DEF CalculatedIds, Ids
  <2> QED
    BY <2>1 DEF DependsOf, FormulaOf
<1> HIDE DEF nodes
<1>5. ASSUME NEW name \in ToSet(NamesRead(nodes))
      PROVE  ValuesIn(cfg, g)[name] = ValuesIn(cfg, f)[name]
  <2>1. SignalNamed(cfg, name).id \in ToSet(Dependencies(cfg, nodes))
    BY <1>3, NamedAreDependedOn
  <2>2. SignalNamed(cfg, name).id # s.id
    BY <1>4, <2>1
  <2>3. name \in {x.name : x \in ToSet(cfg.signals)}
    BY <1>3
  <2> QED
    BY <2>2, <2>3, OthersKeepValues
<1> HIDE DEF g
<1>6. \A node \in ToSet(nodes) : node.op = "signal" =>
        ValuesIn(cfg, g)[node.at] = ValuesIn(cfg, f)[node.at]
  BY <1>3, <1>5, NamesOfSignals
<1>7. Evaluated(nodes, ValuesIn(cfg, g)) = Evaluated(nodes, ValuesIn(cfg, f))
  <2> DEFINE v == ValuesIn(cfg, g)
             w == ValuesIn(cfg, f)
  <2>1. \A node \in ToSet(nodes) : node.op = "signal" => v[node.at] = w[node.at]
    BY <1>6
  <2> HIDE DEF v, w
  <2>2. Evaluated(nodes, v) = Evaluated(nodes, w)
    BY <1>3, <2>1, EvaluatedAgrees
  <2> QED
    BY <2>2 DEF v, w
<1> QED
  BY <1>7 DEF nodes, g

\* A signal of the plan is not depended on by itself or by one before it.
LEMMA LaterIsNotRead ==
  ASSUME NEW cfg, IsConfiguration(cfg), SignalsApart(cfg), NEW plan, IsPlan(cfg, plan),
         NEW k \in 1..Len(plan), NEW j \in 1..k
  PROVE  plan[k] \notin ToSet(DependsOf(cfg)[plan[j]])
<1> SUFFICES ASSUME plan[k] \in ToSet(DependsOf(cfg)[plan[j]]) PROVE FALSE
  OBVIOUS
<1>0. Len(plan) \in Nat /\ plan[k] \in CalculatedIds(cfg)
  BY DEF IsPlan
<1>1. j \in 1..Len(plan)
  BY <1>0
<1>2. plan[k] \in Ids(RawSignals(cfg)) \/ \E m \in 1..(j - 1) : plan[m] = plan[k]
  BY <1>1 DEF IsPlan, DependedFirst
<1>3. plan[k] \notin Ids(RawSignals(cfg))
  <2>1. CalculatedIds(cfg) = Ids({s \in ToSet(cfg.signals) : s.kind = "Calculated"})
    BY CalculatedHold DEF CalculatedIds
  <2> QED
    BY <1>0, <2>1 DEF Ids, RawSignals, SignalsApart
<1>4. \A m \in 1..(j - 1) : m \in 1..Len(plan) /\ m # k
  BY <1>0
<1> QED
  BY <1>2, <1>3, <1>4 DEF IsPlan

\* What is known of a frame after some of the plan.
CalculatedTo(cfg, plan, k, f) ==
  HasCells(cfg, f) /\ \A j \in 1..k : IsCalculated(cfg, f, plan[j])

\* The frame g is f with one signal calculated.
Adds(cfg, s, nodes, f, g) ==
  \E x \in Evaluated(nodes, ValuesIn(cfg, f)) :
    \E y \in Calibrated(cfg, s, x) : g = Valued(f, Place(cfg, s).index, y)

LEMMA OneFrameNext ==
  ASSUME NEW cfg, NEW f, NEW i, NEW g \in CalculatedNext(cfg, {f}, i)
  PROVE  Adds(cfg, RowIn(cfg.signals, i), FormulaOf(cfg, i), f, g)
  BY DEF CalculatedNext, FormulaOf, Adds

LEMMA OneMoreCalculated ==
  ASSUME NEW cfg, IsConfiguration(cfg), SignalsApart(cfg), FormulasBuilt(cfg),
         NEW plan, IsPlan(cfg, plan), NEW k \in 1..Len(plan), NEW f, CalculatedTo(cfg, plan, k - 1, f),
         NEW g \in CalculatedNext(cfg, {f}, plan[k])
  PROVE  CalculatedTo(cfg, plan, k, g)
<1> DEFINE i == plan[k]
           s == RowIn(cfg.signals, i)
           place == Place(cfg, s).index
<1>0. i \in CalculatedIds(cfg) /\ Len(plan) \in Nat /\ plan \in Seq(CalculatedIds(cfg))
  BY DEF IsPlan
<1>1. \A j \in CalculatedIds(cfg) :
        RowIn(cfg.signals, j) \in ToSet(CalculatedSignals(cfg)) /\ RowIn(cfg.signals, j).id = j
  <2> TAKE j \in CalculatedIds(cfg)
  <2>1. PICK r \in ToSet(CalculatedSignals(cfg)) : r.id = j
    BY CalculatedHold DEF CalculatedIds, Ids
  <2>2. RowIn(cfg.signals, r.id) = r
    BY DependsOnSignals
  <2> QED
    BY <2>1, <2>2
<1>2. s \in ToSet(CalculatedSignals(cfg)) /\ s.id = i
  BY <1>0, <1>1
<1>3. HasCells(cfg, f) /\ \A j \in 1..(k - 1) : IsCalculated(cfg, f, plan[j])
  BY DEF CalculatedTo
<1>4b. g \in CalculatedNext(cfg, {f}, i)
  OBVIOUS
<1>4c. Adds(cfg, s, FormulaOf(cfg, i), f, g)
  BY <1>4b, OneFrameNext
<1> HIDE DEF s, i
<1>4a. PICK x \in Evaluated(FormulaOf(cfg, i), ValuesIn(cfg, f)) :
         \E y \in Calibrated(cfg, s, x) : g = Valued(f, place, y)
  BY <1>4c DEF Adds
<1>4. PICK y \in Calibrated(cfg, s, x) : g = Valued(f, place, y)
  BY <1>4a
<1> HIDE DEF i, s
<1>5. place \in 0..Len(CalculatedSignals(cfg)) - 1
  BY <1>2, CellsAreApart
<1>6. ASSUME NEW j \in 1..k
      PROVE  Evaluated(FormulaOf(cfg, plan[j]), ValuesIn(cfg, g)) =
               Evaluated(FormulaOf(cfg, plan[j]), ValuesIn(cfg, f))
  <2> DEFINE r == RowIn(cfg.signals, plan[j])
  <2>1. plan[j] \in CalculatedIds(cfg)
    BY <1>0
  <2>2. r \in ToSet(CalculatedSignals(cfg)) /\ r.id = plan[j]
    BY <1>1, <2>1
  <2>3. s.id \notin ToSet(DependsOf(cfg)[r.id])
    BY <1>2, <2>2, LaterIsNotRead DEF i
  <2> HIDE DEF r
  <2>4. Evaluated(FormulaOf(cfg, r.id), ValuesIn(cfg, Valued(f, Place(cfg, s).index, y))) =
          Evaluated(FormulaOf(cfg, r.id), ValuesIn(cfg, f))
    BY <1>2, <1>3, <2>2, <2>3, FormulaUnmoved
  <2> QED
    BY <1>4, <2>2, <2>4
<1>7. /\ HasCells(cfg, g) /\ g.calculated[place] = y
      /\ \A c \in 0..Len(CalculatedSignals(cfg)) - 1 : c # place => g.calculated[c] = f.calculated[c]
  BY <1>3, <1>4, <1>5, ValuedIs
<1>8. IsCalculated(cfg, g, i)
  <2>1. Evaluated(FormulaOf(cfg, i), ValuesIn(cfg, g)) = Evaluated(FormulaOf(cfg, i), ValuesIn(cfg, f))
    BY <1>6 DEF i
  <2>2. x \in Evaluated(FormulaOf(cfg, i), ValuesIn(cfg, g))
    BY <2>1
  <2> QED
    BY <1>4, <1>7, <2>2 DEF IsCalculated, s
<1>9. ASSUME NEW j \in 1..(k - 1) PROVE IsCalculated(cfg, g, plan[j])
  <2> DEFINE r == RowIn(cfg.signals, plan[j])
  <2>0. j \in 1..Len(plan) /\ j \in 1..k /\ j # k
    BY <1>0
  <2>1. r \in ToSet(CalculatedSignals(cfg)) /\ r.id = plan[j]
    BY <1>0, <1>1, <2>0
  <2>2. plan[j] # plan[k]
    BY <2>0 DEF IsPlan
  <2>3. Place(cfg, r).index # place /\ Place(cfg, r).index \in 0..Len(CalculatedSignals(cfg)) - 1
    BY <1>2, <2>1, <2>2, CellsAreApart DEF i
  <2>4. g.calculated[Place(cfg, r).index] = f.calculated[Place(cfg, r).index]
    BY <1>7, <2>3
  <2>5. Evaluated(FormulaOf(cfg, plan[j]), ValuesIn(cfg, g)) =
          Evaluated(FormulaOf(cfg, plan[j]), ValuesIn(cfg, f))
    BY <1>6, <2>0
  <2> HIDE DEF r
  <2>6. IsCalculated(cfg, f, plan[j])
    BY <1>3
  <2> QED
    BY <2>4, <2>5, <2>6 DEF IsCalculated, r
<1>10. \A j \in 1..k : j \in 1..(k - 1) \/ j = k
  OBVIOUS
<1> QED
  BY <1>7, <1>8, <1>9, <1>10 DEF CalculatedTo, i

\* A frame that was processed by a plan holds what every formula evaluates to in it.
LEMMA ProcessedIsCalculated ==
  ASSUME NEW cfg, IsConfiguration(cfg), SignalsApart(cfg), FormulasBuilt(cfg),
         NEW plan, IsPlan(cfg, plan), NEW samples, NEW f \in Processed(cfg, plan, samples)
  PROVE  \A i \in CalculatedIds(cfg) : IsCalculated(cfg, f, i)
<1> DEFINE N == Len(plan)
           All(k, h) == \A g \in h[k] : CalculatedTo(cfg, plan, k, g)
<1>1. N \in Nat /\ plan \in [1..N -> CalculatedIds(cfg)]
  BY DEF IsPlan
<1> HIDE DEF N
<1>2. PICK h : CalculatedInTurn(h, N, cfg, plan, samples)
  BY <1>1, CalculatesSteps
<1>3. All(0, h)
  <2>1. HasCells(cfg, FrameOfSamples(cfg, samples))
    BY DEF HasCells, FrameOfSamples
  <2> QED
    BY <1>2, <2>1 DEF CalculatedInTurn, CalculatedTo
<1>4. ASSUME NEW k \in 1..N, All(k - 1, h) PROVE All(k, h)
  <2>1. h[k] = CalculatedNext(cfg, h[k - 1], plan[k])
    BY <1>2 DEF CalculatedInTurn
  <2> SUFFICES ASSUME NEW g \in h[k] PROVE CalculatedTo(cfg, plan, k, g)
    OBVIOUS
  <2>2. PICK e \in h[k - 1] : g \in CalculatedNext(cfg, {e}, plan[k])
    BY <2>1 DEF CalculatedNext
  <2>3. CalculatedTo(cfg, plan, k - 1, e)
    BY <1>4, <2>2
  <2>4. k \in 1..Len(plan)
    BY DEF N
  <2> QED
    BY <2>2, <2>3, <2>4, OneMoreCalculated
<1> HIDE DEF All
<1> DEFINE S == {k \in Nat : k <= N => All(k, h)}
<1>5. 0 \in S
  BY <1>3
<1>6. \A k \in Nat : k \in S => k + 1 \in S
  <2> SUFFICES ASSUME NEW k \in Nat, k \in S, k + 1 <= N PROVE All(k + 1, h)
    OBVIOUS
  <2>1. k + 1 \in 1..N /\ (k + 1) - 1 = k /\ k <= N
    BY <1>1
  <2> QED
    BY <1>4, <2>1
<1> HIDE DEF S
<1>7. N \in S
  BY <1>1, <1>5, <1>6, AllNaturals
<1>8. All(N, h)
  BY <1>1, <1>7 DEF S
<1>9. CalculatedTo(cfg, plan, N, f)
  BY <1>2, <1>8 DEF CalculatedInTurn, All
<1> QED
  BY <1>9 DEF CalculatedTo, IsPlan, N

\* SignalProcessor::process() holds, in the cell of every calculated signal, a value its
\* formula means for the values the frame itself holds, calibrated: nothing is left of
\* an earlier frame, and nothing is calculated from a cell that is written later.
THEOREM FormulasHold ==
  ASSUME NEW cfg, IsConfiguration(cfg), SignalsApart(cfg), FormulasBuilt(cfg),
         NEW plan \in CalculationOrder(cfg), NEW samples, NEW f \in Processed(cfg, plan, samples),
         NEW s \in ToSet(CalculatedSignals(cfg))
  PROVE  f.calculated[Place(cfg, s).index] \in
           UNION {Calibrated(cfg, s, x) : x \in UNION Meanings(s.formula, ValuesIn(cfg, f))}
<1> DEFINE nodes == FormulaOf(cfg, s.id)
<1>1. IsPlan(cfg, plan)
  BY OrderIsRight
<1>2. s.id \in CalculatedIds(cfg)
  BY CalculatedHold DEF CalculatedIds, Ids
<1>3. IsCalculated(cfg, f, s.id)
  BY <1>1, <1>2, ProcessedIsCalculated
<1>4. RowIn(cfg.signals, s.id) = s /\ nodes \in Compiled(cfg, s)
  BY DependsOnSignals DEF FormulaOf
<1>5. nodes \in Parsed(s.formula) /\ Len(s.formula) \in Nat
  <2>1. s \in ToSet(cfg.signals)
    BY CalculatedHold
  <2>2. s.formula \in Seq(STRING) /\ nodes \in Parsed(s.formula)
    BY <1>4, <2>1, CompiledHolds
  <2> QED
    BY <2>2
<1>6. Evaluated(nodes, ValuesIn(cfg, f)) \in Meanings(s.formula, ValuesIn(cfg, f))
  BY <1>5, EvaluationIsMeaning
<1> DEFINE value == f.calculated[Place(cfg, s).index]
<1>7. PICK x \in Evaluated(nodes, ValuesIn(cfg, f)) : value \in Calibrated(cfg, s, x)
  BY <1>3, <1>4 DEF IsCalculated
<1>8. x \in UNION Meanings(s.formula, ValuesIn(cfg, f))
  BY <1>6, <1>7
<1> HIDE DEF value, nodes
<1>9. value \in UNION {Calibrated(cfg, s, z) : z \in UNION Meanings(s.formula, ValuesIn(cfg, f))}
  BY <1>7, <1>8
<1> QED
  BY <1>9 DEF value

-----------------------------------------------------------------------------
(* The parser reads all that the grammar does. *)

\* One of the results stops at a token.
Reached(results, n) == \E r \in results : r.next = n

LEMMA FollowedReached ==
  ASSUME NEW ts, NEW results, NEW f, NEW rule, NEW k, NEW n, Reached(results, k),
         f[<<rule, k>>] \subseteq Results(ts), Reached(f[<<rule, k>>], n)
  PROVE  Reached(Followed(results, f, rule), n)
<1>1. PICK a \in results : a.next = k
  BY DEF Reached
<1>2. PICK b \in f[<<rule, a.next>>] : b.next = n
  BY <1>1 DEF Reached
<1> DEFINE r == [b EXCEPT !.nodes = a.nodes \o @]
<1>3. r.next = n
  BY <1>1, <1>2 DEF Results
<1> DEFINE after(c) == {[d EXCEPT !.nodes = c.nodes \o @] : d \in f[<<rule, c.next>>]}
<1>4. r \in after(a)
  BY <1>2
<1>5. Followed(results, f, rule) = UNION {after(c) : c \in results}
  BY DEF Followed
<1> HIDE DEF r, after
<1>6. r \in Followed(results, f, rule)
  BY <1>1, <1>4, <1>5
<1> QED
  BY <1>3, <1>6 DEF Reached

LEMMA WithNodeReached ==
  ASSUME NEW ts, NEW results, results \subseteq Results(ts), NEW n, Reached(results, n),
         NEW op, NEW at, NEW operands
  PROVE  Reached(WithNode(results, op, at, operands), n)
<1>1. PICK a \in results : a.next = n
  BY DEF Reached
<1> DEFINE r == [a EXCEPT !.nodes = Append(@, Node(op, at, operands))]
<1>2. r.next = n
  BY <1>1 DEF Results
<1>3. r \in WithNode(results, op, at, operands)
  BY <1>1 DEF WithNode
<1> HIDE DEF r
<1> QED
  BY <1>2, <1>3 DEF Reached

LEMMA ClosedReached ==
  ASSUME NEW ts, NEW results, results \subseteq Results(ts), NEW n, Reached(results, n),
         TokenAt(ts, n) = ")"
  PROVE  Reached(Closed(results, ts), n + 1)
<1>1. PICK a \in results : a.next = n
  BY DEF Reached
<1> DEFINE r == [a EXCEPT !.next = @ + 1]
<1>2. r.next = n + 1
  BY <1>1 DEF Results
<1>3. r \in Closed(results, ts)
  BY <1>1 DEF Closed, Skipped
<1> HIDE DEF r
<1> QED
  BY <1>2, <1>3 DEF Reached

LEMMA MadeReached ==
  ASSUME NEW nodes, NEW n
  PROVE  Reached(Made(nodes, n), n)
BY DEF Reached, Made

\* One node after others.
LEMMA NodeReached ==
  ASSUME NEW nodes, NEW n, NEW op, NEW at, NEW operands
  PROVE  Reached(WithNode(Made(nodes, n), op, at, operands), n)
<1> DEFINE a == [nodes |-> nodes, next |-> n, count |-> 0]
           r == [a EXCEPT !.nodes = Append(@, Node(op, at, operands))]
<1>1. r.next = n
  OBVIOUS
<1>2. r \in WithNode(Made(nodes, n), op, at, operands)
  BY DEF WithNode, Made
<1> HIDE DEF r
<1> QED
  BY <1>1, <1>2 DEF Reached

\* The loops: over + and -, and over * and /.
LEMMA LoopsReach ==
  ASSUME NEW ts, Len(ts) \in Nat, NEW f, IsParse(ts, f), NEW i \in Nat,
         NEW ops, NEW operand \in Rules, NEW rule \in Rules,
         f[<<rule, i>>] = Repeated(ts, i, f, ops, operand, rule)
  PROVE  /\ TokenAt(ts, i) \notin ops => Reached(f[<<rule, i>>], i)
         /\ TokenAt(ts, i) \in ops =>
              \A j \in Nat : \A n : Reached(f[<<operand, i + 1>>], j) /\ Reached(f[<<rule, j>>], n) =>
                                     Reached(f[<<rule, i>>], n)
<1>1. TokenAt(ts, i) \notin ops => Reached(f[<<rule, i>>], i)
  BY MadeReached DEF Repeated
<1>2. ASSUME TokenAt(ts, i) \in ops, NEW j \in Nat, NEW n, Reached(f[<<operand, i + 1>>], j),
             Reached(f[<<rule, j>>], n)
      PROVE  Reached(f[<<rule, i>>], n)
  <2> DEFINE parts == WithNode(f[<<operand, i + 1>>], TokenAt(ts, i), "", 2)
             m == i + 1
  <2>1. f[<<operand, m>>] \subseteq Results(ts) /\ f[<<rule, j>>] \subseteq Results(ts)
    <3>1. m \in Nat
      OBVIOUS
    <3> HIDE DEF m
    <3> QED
      BY <3>1, AnswersAre
  <2>2. Reached(parts, j)
    BY <1>2, <2>1, WithNodeReached
  <2>3. f[<<rule, i>>] = Followed(parts, f, rule)
    BY <1>2 DEF Repeated
  <2> HIDE DEF parts
  <2>4. Reached(Followed(parts, f, rule), n)
    BY <1>2, <2>1, <2>2, FollowedReached
  <2> QED
    BY <2>3, <2>4
<1> QED
  BY <1>1, <1>2

\* A part and the rest of its loop.
LEMMA PartsReach ==
  ASSUME NEW ts, Len(ts) \in Nat, NEW f, IsParse(ts, f), NEW i \in Nat, NEW part \in Rules,
         NEW rest \in Rules, NEW whole, f[<<whole, i>>] = Followed(f[<<part, i>>], f, rest),
         NEW j \in Nat, NEW n, Reached(f[<<part, i>>], j), Reached(f[<<rest, j>>], n)
  PROVE  Reached(f[<<whole, i>>], n)
<1>1. f[<<rest, j>>] \subseteq Results(ts)
  BY AnswersAre
<1> DEFINE results == f[<<part, i>>]
<1>2. Reached(results, j) /\ f[<<whole, i>>] = Followed(results, f, rest)
  OBVIOUS
<1> HIDE DEF results
<1>3. Reached(Followed(results, f, rest), n)
  BY <1>1, <1>2, FollowedReached
<1> QED
  BY <1>2, <1>3

\* What the methods are.
LEMMA MethodsAre ==
  ASSUME NEW ts, Len(ts) \in Nat, NEW f, IsParse(ts, f), NEW i \in Nat
  PROVE  /\ f[<<"expression", i>>] = Followed(f[<<"term", i>>], f, "terms")
         /\ f[<<"term", i>>] = Followed(f[<<"unary", i>>], f, "factors")
         /\ f[<<"terms", i>>] = Repeated(ts, i, f, {"+", "-"}, "term", "terms")
         /\ f[<<"factors", i>>] = Repeated(ts, i, f, {"*", "/"}, "unary", "factors")
         /\ f[<<"unary", i>>] = Unary(ts, i, f)
         /\ f[<<"primary", i>>] = Primary(ts, i, f)
         /\ f[<<"arguments", i>>] = Arguments(ts, i, f)
<1>0. Rules = {"expression", "terms", "term", "factors", "unary", "primary", "arguments"}
  BY DEF Rules
<1>1. \A rule \in Rules : f[<<rule, i>>] = ParseFrom(ts, f, rule, i)
  BY AnswersAre
<1>2. f[<<"expression", i>>] = Followed(f[<<"term", i>>], f, "terms")
  BY <1>0, <1>1 DEF ParseFrom, Sum
<1>3. f[<<"term", i>>] = Followed(f[<<"unary", i>>], f, "factors")
  BY <1>0, <1>1 DEF ParseFrom, Product
<1>4. f[<<"terms", i>>] = Repeated(ts, i, f, {"+", "-"}, "term", "terms")
  BY <1>0, <1>1 DEF ParseFrom
<1>5. f[<<"factors", i>>] = Repeated(ts, i, f, {"*", "/"}, "unary", "factors")
  BY <1>0, <1>1 DEF ParseFrom
<1>6. f[<<"unary", i>>] = Unary(ts, i, f)
  BY <1>0, <1>1 DEF ParseFrom
<1>7. f[<<"primary", i>>] = Primary(ts, i, f)
  BY <1>0, <1>1 DEF ParseFrom
<1>8. f[<<"arguments", i>>] = Arguments(ts, i, f)
  BY <1>0, <1>1 DEF ParseFrom
<1> QED
  BY <1>2, <1>3, <1>4, <1>5, <1>6, <1>7, <1>8

\* A sign, and what is signed.
LEMMA SignReaches ==
  ASSUME NEW ts, Len(ts) \in Nat, NEW f, IsParse(ts, f), NEW i \in Nat, NEW n,
         TokenAt(ts, i) \in {"+", "-"}, Reached(f[<<"unary", i + 1>>], n)
  PROVE  Reached(f[<<"unary", i>>], n)
<1> DEFINE m == i + 1
           results == f[<<"unary", m>>]
<1>0. m \in Nat /\ "unary" \in Rules
  BY DEF Rules
<1>1. results \subseteq Results(ts)
  <2> HIDE DEF m
  <2> QED
    BY <1>0, AnswersAre
<1>2. f[<<"unary", i>>] = Unary(ts, i, f)
  BY MethodsAre
<1>3. Reached(results, n)
  OBVIOUS
<1> HIDE DEF results
<1>4. CASE TokenAt(ts, i) = "+"
  BY <1>2, <1>3, <1>4 DEF Unary, results
<1>5. CASE TokenAt(ts, i) = "-"
  <2>1. f[<<"unary", i>>] = WithNode(results, "negate", "", 1)
    BY <1>2, <1>5 DEF Unary, results
  <2> QED
    BY <1>1, <1>3, <2>1, WithNodeReached
<1> QED
  BY <1>4, <1>5

LEMMA NoSignReaches ==
  ASSUME NEW ts, Len(ts) \in Nat, NEW f, IsParse(ts, f), NEW i \in Nat, NEW n,
         TokenAt(ts, i) \notin {"+", "-"}, Reached(f[<<"primary", i>>], n)
  PROVE  Reached(f[<<"unary", i>>], n)
<1>1. f[<<"unary", i>>] = Unary(ts, i, f)
  BY MethodsAre
<1> QED
  BY <1>1 DEF Unary

\* A number, or a name that is not called.
LEMMA LeafReaches ==
  ASSUME NEW ts, Len(ts) \in Nat, NEW f, IsParse(ts, f), NEW i \in Nat,
         \/ IsNumber(TokenAt(ts, i))
         \/ IsIdentifier(TokenAt(ts, i)) /\ TokenAt(ts, i + 1) # "("
  PROVE  Reached(f[<<"primary", i>>], i + 1)
<1>1. f[<<"primary", i>>] = Primary(ts, i, f)
  BY MethodsAre
<1> DEFINE t == TokenAt(ts, i)
<1>2. \A op : Reached(WithNode(Made(<<>>, i + 1), op, t, 0), i + 1)
  BY NodeReached
<1>3. CASE IsNumber(t)
  <2>1. ~IsIdentifier(t) /\ t # "("
    BY <1>3 DEF IsIdentifier, IsNumber, NumberTokens
  <2>2. Primary(ts, i, f) = WithNode(Made(<<>>, i + 1), "number", t, 0)
    BY <1>3, <2>1 DEF Primary
  <2> QED
    BY <1>1, <1>2, <2>2
<1>4. CASE IsIdentifier(t) /\ TokenAt(ts, i + 1) # "("
  <2>1. ~IsNumber(t) /\ t # "("
    BY <1>4 DEF IsIdentifier, Marks
  <2>2. Primary(ts, i, f) = WithNode(Made(<<>>, i + 1), "signal", t, 0)
    BY <1>4, <2>1 DEF Primary
  <2> QED
    BY <1>1, <1>2, <2>2
<1> QED
  BY <1>3, <1>4

LEMMA ParenthesisReaches ==
  ASSUME NEW ts, Len(ts) \in Nat, NEW f, IsParse(ts, f), NEW i \in Nat, NEW n,
         TokenAt(ts, i) = "(", Reached(f[<<"expression", i + 1>>], n), TokenAt(ts, n) = ")"
  PROVE  Reached(f[<<"primary", i>>], n + 1)
<1> DEFINE m == i + 1
           results == f[<<"expression", m>>]
<1>0. m \in Nat /\ "expression" \in Rules
  BY DEF Rules
<1>1. results \subseteq Results(ts)
  <2> HIDE DEF m
  <2> QED
    BY <1>0, AnswersAre
<1>2. f[<<"primary", i>>] = Closed(results, ts)
  <2>1. f[<<"primary", i>>] = Primary(ts, i, f)
    BY MethodsAre
  <2>2. ~IsNumber("(") /\ ~IsIdentifier("(")
    BY DEF IsNumber, IsIdentifier, NumberTokens, Marks
  <2>3. Primary(ts, i, f) = Closed(results, ts)
    BY <2>2 DEF Primary
  <2> QED
    BY <2>1, <2>3
<1>3. Reached(results, n)
  OBVIOUS
<1> HIDE DEF results
<1> QED
  BY <1>1, <1>2, <1>3, ClosedReached

LEMMA CallReaches ==
  ASSUME NEW ts, Len(ts) \in Nat, NEW f, IsParse(ts, f), NEW i \in Nat, NEW n,
         IsIdentifier(TokenAt(ts, i)), TokenAt(ts, i + 1) = "(",
         IF TokenAt(ts, i + 2) = ")" THEN n = i + 3 ELSE Reached(f[<<"arguments", i + 2>>], n)
  PROVE  Reached(f[<<"primary", i>>], n)
<1> DEFINE arguments == IF TokenAt(ts, i + 2) = ")" THEN Made(<<>>, i + 3)
                                                    ELSE f[<<"arguments", i + 2>>]
           call(r) == WithNode(Made(r.nodes, r.next), "call", ts[i], r.count)
<1>1. f[<<"primary", i>>] = FunctionCall(ts, i, f)
  <2>1. f[<<"primary", i>>] = Primary(ts, i, f)
    BY MethodsAre
  <2>2. ~IsNumber(TokenAt(ts, i)) /\ TokenAt(ts, i) # "("
    BY DEF IsIdentifier, Marks
  <2>3. Primary(ts, i, f) = FunctionCall(ts, i, f)
    BY <2>2 DEF Primary
  <2> QED
    BY <2>1, <2>3
<1>2. FunctionCall(ts, i, f) = UNION {call(r) : r \in arguments}
  BY DEF FunctionCall
<1>3. Reached(arguments, n)
  BY MadeReached
<1>4. \A r : Reached(call(r), r.next)
  BY NodeReached
<1> HIDE DEF arguments, call
<1>5. PICK r \in arguments : r.next = n
  BY <1>3 DEF Reached
<1>6. PICK q \in call(r) : q.next = n
  BY <1>4, <1>5 DEF Reached
<1>7. q \in UNION {call(a) : a \in arguments}
  BY <1>5, <1>6
<1> QED
  BY <1>1, <1>2, <1>6, <1>7 DEF Reached

\* The last argument, and one before others.
LEMMA ArgumentReaches ==
  ASSUME NEW ts, Len(ts) \in Nat, NEW f, IsParse(ts, f), NEW i \in Nat, NEW k \in Nat, NEW n,
         Reached(f[<<"expression", i>>], k),
         \/ TokenAt(ts, k) = ")" /\ n = k + 1
         \/ TokenAt(ts, k) = "," /\ Reached(f[<<"arguments", k + 1>>], n)
  PROVE  Reached(f[<<"arguments", i>>], n)
<1> DEFINE first == f[<<"expression", i>>]
           calls(a) == IF TokenAt(ts, a.next) = "," THEN f[<<"arguments", a.next + 1>>] ELSE {}
           more(a) == {[b EXCEPT !.nodes = a.nodes \o @] : b \in calls(a)}
           all == Closed(first, ts) \cup UNION {more(a) : a \in first}
           one(r) == [r EXCEPT !.count = @ + 1]
<1>0. {"expression", "arguments"} \subseteq Rules
  BY DEF Rules
<1>1. first \subseteq Results(ts)
  BY <1>0, AnswersAre
<1>2. f[<<"arguments", i>>] = {one(r) : r \in all}
  <2>1. f[<<"arguments", i>>] = Arguments(ts, i, f)
    BY MethodsAre
  <2>2. Arguments(ts, i, f) = {one(r) : r \in all}
    BY DEF Arguments
  <2> QED
    BY <2>1, <2>2
<1>3. \E q \in all : q.next = n /\ DOMAIN q = {"nodes", "next", "count"}
  <2>1. CASE TokenAt(ts, k) = ")" /\ n = k + 1
    <3>1. PICK a \in first : a.next = k
      BY DEF Reached
    <3> DEFINE q == [a EXCEPT !.next = @ + 1]
    <3>2. a \in Results(ts)
      BY <1>1, <3>1
    <3>3. q.next = n /\ DOMAIN q = {"nodes", "next", "count"}
      BY <2>1, <3>1, <3>2 DEF Results
    <3> HIDE DEF first
    <3>4. q \in Closed(first, ts)
      BY <2>1, <3>1 DEF Closed, Skipped
    <3> HIDE DEF q, more
    <3> QED
      BY <3>3, <3>4
  <2>2. CASE TokenAt(ts, k) = "," /\ Reached(f[<<"arguments", k + 1>>], n)
    <3>1. PICK a \in first : a.next = k
      BY DEF Reached
    <3>2. PICK b \in f[<<"arguments", k + 1>>] : b.next = n
      BY <2>2 DEF Reached
    <3>3. b \in Results(ts)
      <4> DEFINE m == k + 1
      <4>0. m \in Nat
        BY ONLY k \in Nat
      <4>1. b \in f[<<"arguments", m>>]
        BY ONLY <3>2
      <4> HIDE DEF m
      <4> QED
        BY <1>0, <4>0, <4>1, AnswersAre
    <3> DEFINE q == [b EXCEPT !.nodes = a.nodes \o @]
    <3>4. q.next = n /\ DOMAIN q = {"nodes", "next", "count"}
      BY <3>2, <3>3 DEF Results
    <3>5. b \in calls(a)
      BY <2>2, <3>1, <3>2
    <3> HIDE DEF calls, first
    <3>6. q \in more(a)
      BY <3>5
    <3> HIDE DEF q, more
    <3> QED
      BY <3>1, <3>4, <3>6
  <2> QED
    BY <2>1, <2>2
<1> HIDE DEF all
<1>4. PICK q \in all : q.next = n /\ DOMAIN q = {"nodes", "next", "count"}
  BY <1>3
<1>5. one(q).next = n
  BY <1>4
<1> HIDE DEF one
<1>6. one(q) \in f[<<"arguments", i>>]
  BY <1>2
<1> QED
  BY <1>5, <1>6 DEF Reached

\* The grammar reads a phrase between two tokens, and a method that is called at a token
\* may stop at another.
Has(read, kind, i, j) == read[<<kind, i, j>>] # {}
Gets(f, rule, i, n) == Reached(f[<<rule, i>>], n)

HasSplit(read, ts, i, j, ops, left, right) ==
  \E k \in i + 1..j - 2 : ts[k] \in ops /\ Has(read, left, i, k) /\ Has(read, right, k + 1, j)

LEMMA SplitsHave ==
  ASSUME NEW read, NEW ts, NEW values, NEW i \in Nat, NEW j \in Nat, NEW ops, NEW left, NEW right,
         Splits(read, ts, values, i, j, ops, left, right) # {}
  PROVE  HasSplit(read, ts, i, j, ops, left, right)
<1> DEFINE at(m) == {Both(a, b, ts[m], values) :
                       a \in read[<<left, i, m>>], b \in read[<<right, m + 1, j>>]}
           ks == {m \in i + 1..j - 2 : ts[m] \in ops}
<1>1. Splits(read, ts, values, i, j, ops, left, right) = UNION {at(m) : m \in ks}
  BY DEF Splits
<1>2. \A m : at(m) # {} => read[<<left, i, m>>] # {} /\ read[<<right, m + 1, j>>] # {}
  OBVIOUS
<1> HIDE DEF at
<1>3. PICK k \in ks : at(k) # {}
  BY <1>1
<1>4. k \in i + 1..j - 2 /\ ts[k] \in ops
  BY <1>3
<1>5. Has(read, left, i, k) /\ Has(read, right, k + 1, j)
  BY <1>2, <1>3 DEF Has
<1> QED
  BY <1>4, <1>5 DEF HasSplit

HasParenthesis(read, ts, i, j) ==
  j > i + 1 /\ ts[i] = "(" /\ ts[j - 1] = ")" /\ Has(read, "sum", i + 1, j - 1)
HasCall(read, ts, i, j) ==
  /\ j > i + 2 /\ IsIdentifier(ts[i]) /\ ts[i + 1] = "(" /\ ts[j - 1] = ")"
  /\ j = i + 3 \/ Has(read, "list", i + 2, j - 1)

\* What a reading has, by the kind of the phrase.
LEMMA ReadingHas ==
  ASSUME NEW read, NEW ts, NEW values, Reading(read, ts, values), NEW i \in Nat, NEW j \in Nat
  PROVE  /\ \A kind \in Phrases : Has(read, kind, i, j) => i < j
         /\ Has(read, "sum", i, j) =>
              Has(read, "product", i, j) \/ HasSplit(read, ts, i, j, {"+", "-"}, "sum", "product")
         /\ Has(read, "product", i, j) =>
              Has(read, "signed", i, j) \/ HasSplit(read, ts, i, j, {"*", "/"}, "product", "signed")
         /\ Has(read, "signed", i, j) =>
              IF ts[i] \in {"+", "-"} THEN Has(read, "signed", i + 1, j) ELSE Has(read, "primary", i, j)
         /\ Has(read, "primary", i, j) =>
              \/ j = i + 1 /\ (IsNumber(ts[i]) \/ IsIdentifier(ts[i]))
              \/ HasParenthesis(read, ts, i, j)
              \/ HasCall(read, ts, i, j)
         /\ Has(read, "list", i, j) =>
              Has(read, "sum", i, j) \/ HasSplit(read, ts, i, j, {","}, "list", "sum")
<1>0. Phrases = {"sum", "product", "signed", "primary", "list"}
  BY DEF Phrases
<1>1. \A kind \in Phrases : read[<<kind, i, j>>] = ReadFrom(read, ts, values, kind, i, j)
  BY DEF Reading
<1>2. \A kind \in Phrases : Has(read, kind, i, j) => i < j
  BY <1>1 DEF ReadFrom, Has
<1>3. Has(read, "sum", i, j) =>
        Has(read, "product", i, j) \/ HasSplit(read, ts, i, j, {"+", "-"}, "sum", "product")
  <2> SUFFICES ASSUME Has(read, "sum", i, j), ~Has(read, "product", i, j)
               PROVE  HasSplit(read, ts, i, j, {"+", "-"}, "sum", "product")
    OBVIOUS
  <2>1. ~(i >= j)
    BY <1>0, <1>2
  <2>2. read[<<"sum", i, j>>] = read[<<"product", i, j>>] \cup
                                Splits(read, ts, values, i, j, {"+", "-"}, "sum", "product")
    BY <1>0, <1>1, <2>1 DEF ReadFrom
  <2>3. Splits(read, ts, values, i, j, {"+", "-"}, "sum", "product") # {}
    BY <2>2 DEF Has
  <2> QED
    BY <2>3, SplitsHave
<1>4. Has(read, "product", i, j) =>
        Has(read, "signed", i, j) \/ HasSplit(read, ts, i, j, {"*", "/"}, "product", "signed")
  <2> SUFFICES ASSUME Has(read, "product", i, j), ~Has(read, "signed", i, j)
               PROVE  HasSplit(read, ts, i, j, {"*", "/"}, "product", "signed")
    OBVIOUS
  <2>1. ~(i >= j)
    BY <1>0, <1>2
  <2>2. read[<<"product", i, j>>] = read[<<"signed", i, j>>] \cup
                                    Splits(read, ts, values, i, j, {"*", "/"}, "product", "signed")
    BY <1>0, <1>1, <2>1 DEF ReadFrom
  <2>3. Splits(read, ts, values, i, j, {"*", "/"}, "product", "signed") # {}
    BY <2>2 DEF Has
  <2> QED
    BY <2>3, SplitsHave
<1>5. Has(read, "signed", i, j) =>
        IF ts[i] \in {"+", "-"} THEN Has(read, "signed", i + 1, j) ELSE Has(read, "primary", i, j)
  <2> SUFFICES ASSUME Has(read, "signed", i, j)
               PROVE  IF ts[i] \in {"+", "-"} THEN Has(read, "signed", i + 1, j)
                                              ELSE Has(read, "primary", i, j)
    OBVIOUS
  <2>1. i < j
    BY <1>0, <1>2
  <2>2. read[<<"signed", i, j>>] = SignedFrom(read, ts, i, j)
    BY <2>1, ReadsLower
  <2>3. SignedFrom(read, ts, i, j) # {}
    BY <2>2 DEF Has
  <2>4. CASE ts[i] = "+"
    BY <2>3, <2>4 DEF SignedFrom, Has
  <2>5. CASE ts[i] = "-"
    <3>1. SignedFrom(read, ts, i, j) = {{-x : x \in a} : a \in read[<<"signed", i + 1, j>>]}
      BY <2>5 DEF SignedFrom
    <3> QED
      BY <2>3, <2>5, <3>1 DEF Has
  <2>6. CASE ts[i] \notin {"+", "-"}
    BY <2>3, <2>6 DEF SignedFrom, Has
  <2> QED
    BY <2>4, <2>5, <2>6
<1>6. Has(read, "primary", i, j) =>
        \/ j = i + 1 /\ (IsNumber(ts[i]) \/ IsIdentifier(ts[i]))
        \/ HasParenthesis(read, ts, i, j)
        \/ HasCall(read, ts, i, j)
  <2> SUFFICES ASSUME Has(read, "primary", i, j),
                      ~(j = i + 1 /\ (IsNumber(ts[i]) \/ IsIdentifier(ts[i])))
               PROVE  HasParenthesis(read, ts, i, j) \/ HasCall(read, ts, i, j)
    OBVIOUS
  <2>1. i < j
    BY <1>0, <1>2
  <2>2. read[<<"primary", i, j>>] = PrimaryFrom(read, ts, values, i, j)
    BY <2>1, ReadsLower
  <2>3. PrimaryFrom(read, ts, values, i, j) # {}
    BY <2>2 DEF Has
  <2>4. CASE j > i + 1 /\ ts[i] = "(" /\ ts[j - 1] = ")"
    <3>1. ~IsIdentifier(ts[i]) /\ j # i + 1
      BY <2>4 DEF IsIdentifier, Marks
    <3>2. PrimaryFrom(read, ts, values, i, j) = read[<<"sum", i + 1, j - 1>>]
      BY <2>4, <3>1 DEF PrimaryFrom
    <3> QED
      BY <2>3, <2>4, <3>2 DEF HasParenthesis, Has
  <2>5. CASE /\ ~(j > i + 1 /\ ts[i] = "(" /\ ts[j - 1] = ")")
             /\ j > i + 2 /\ IsIdentifier(ts[i]) /\ ts[i + 1] = "(" /\ ts[j - 1] = ")"
    <3>1. j # i + 1
      BY <2>5
    <3>2. PrimaryFrom(read, ts, values, i, j) = CallFrom(read, ts, i, j)
      BY <2>5, <3>1 DEF PrimaryFrom
    <3> DEFINE lists == read[<<"list", i + 2, j - 1>>] \cup IF j = i + 3 THEN {{<<>>}} ELSE {}
    <3>3. CallFrom(read, ts, i, j) = {UNION {Called(ts[i], xs) : xs \in a} : a \in lists}
      BY DEF CallFrom
    <3>4. lists # {}
      <4> HIDE DEF lists
      <4> QED
        BY <2>3, <3>2, <3>3
    <3>5. j = i + 3 \/ Has(read, "list", i + 2, j - 1)
      BY <3>4 DEF Has
    <3> QED
      BY <2>5, <3>5 DEF HasCall
  <2>6. CASE /\ ~(j > i + 1 /\ ts[i] = "(" /\ ts[j - 1] = ")")
             /\ ~(j > i + 2 /\ IsIdentifier(ts[i]) /\ ts[i + 1] = "(" /\ ts[j - 1] = ")")
    BY <2>3, <2>6 DEF PrimaryFrom
  <2> QED
    BY <2>4, <2>5, <2>6
<1>7. Has(read, "list", i, j) =>
        Has(read, "sum", i, j) \/ HasSplit(read, ts, i, j, {","}, "list", "sum")
  <2> SUFFICES ASSUME Has(read, "list", i, j), ~Has(read, "sum", i, j)
               PROVE  HasSplit(read, ts, i, j, {","}, "list", "sum")
    OBVIOUS
  <2>1. i < j
    BY <1>0, <1>2
  <2>2. read[<<"list", i, j>>] = ListFrom(read, ts, i, j)
    BY <2>1, ReadsLower
  <2> DEFINE one == {{<<x>> : x \in a} : a \in read[<<"sum", i, j>>]}
             ks == {m \in i + 1..j - 2 : ts[m] = ","}
             at(k) == {Appended(a, b) : a \in read[<<"list", i, k>>], b \in read[<<"sum", k + 1, j>>]}
  <2>3. ListFrom(read, ts, i, j) = one \cup UNION {at(k) : k \in ks}
    BY DEF ListFrom, Appended
  <2>4. one = {}
    BY DEF Has
  <2>5. \A k : at(k) # {} => read[<<"list", i, k>>] # {} /\ read[<<"sum", k + 1, j>>] # {}
    OBVIOUS
  <2> HIDE DEF one, at
  <2>6. UNION {at(k) : k \in ks} # {}
    BY <2>2, <2>3, <2>4 DEF Has
  <2>7. PICK k \in ks : at(k) # {}
    BY <2>6
  <2>8. k \in i + 1..j - 2 /\ ts[k] \in {","}
    BY <2>7
  <2>9. Has(read, "list", i, k) /\ Has(read, "sum", k + 1, j)
    BY <2>5, <2>7 DEF Has
  <2> QED
    BY <2>8, <2>9 DEF HasSplit
<1> QED
  BY <1>2, <1>3, <1>4, <1>5, <1>6, <1>7

\* Where calls of the methods may stop, by where the calls they make may.
LEMMA MethodsGet ==
  ASSUME NEW ts, Len(ts) \in Nat, NEW f, IsParse(ts, f), NEW i \in Nat, NEW j \in Nat, NEW n
  PROVE  /\ TokenAt(ts, i) \notin {"+", "-"} => Gets(f, "terms", i, i)
         /\ TokenAt(ts, i) \in {"+", "-"} /\ Gets(f, "term", i + 1, j) /\ Gets(f, "terms", j, n) =>
              Gets(f, "terms", i, n)
         /\ TokenAt(ts, i) \notin {"*", "/"} => Gets(f, "factors", i, i)
         /\ TokenAt(ts, i) \in {"*", "/"} /\ Gets(f, "unary", i + 1, j) /\ Gets(f, "factors", j, n) =>
              Gets(f, "factors", i, n)
         /\ Gets(f, "term", i, j) /\ Gets(f, "terms", j, n) => Gets(f, "expression", i, n)
         /\ Gets(f, "unary", i, j) /\ Gets(f, "factors", j, n) => Gets(f, "term", i, n)
<1>0. {"expression", "terms", "term", "factors", "unary"} \subseteq Rules
  BY DEF Rules
<1>1. /\ f[<<"expression", i>>] = Followed(f[<<"term", i>>], f, "terms")
      /\ f[<<"term", i>>] = Followed(f[<<"unary", i>>], f, "factors")
      /\ f[<<"terms", i>>] = Repeated(ts, i, f, {"+", "-"}, "term", "terms")
      /\ f[<<"factors", i>>] = Repeated(ts, i, f, {"*", "/"}, "unary", "factors")
  BY MethodsAre
<1>2. /\ TokenAt(ts, i) \notin {"+", "-"} => Gets(f, "terms", i, i)
      /\ TokenAt(ts, i) \in {"+", "-"} /\ Gets(f, "term", i + 1, j) /\ Gets(f, "terms", j, n) =>
           Gets(f, "terms", i, n)
  BY <1>0, <1>1, LoopsReach DEF Gets
<1>3. /\ TokenAt(ts, i) \notin {"*", "/"} => Gets(f, "factors", i, i)
      /\ TokenAt(ts, i) \in {"*", "/"} /\ Gets(f, "unary", i + 1, j) /\ Gets(f, "factors", j, n) =>
           Gets(f, "factors", i, n)
  BY <1>0, <1>1, LoopsReach DEF Gets
<1>4. Gets(f, "term", i, j) /\ Gets(f, "terms", j, n) => Gets(f, "expression", i, n)
  BY <1>0, <1>1, PartsReach DEF Gets
<1>5. Gets(f, "unary", i, j) /\ Gets(f, "factors", j, n) => Gets(f, "term", i, n)
  BY <1>0, <1>1, PartsReach DEF Gets
<1> QED
  BY <1>2, <1>3, <1>4, <1>5

\* After a phrase between two tokens a method that was called at the first stops at the
\* second, or goes on from there, if what comes next cannot belong to the phrase.
OpensWell(read, ts, i, j) == \A kind \in Phrases : Has(read, kind, i, j) => ts[i] # ")"
PrimaryGot(read, ts, f, i, j) ==
  Has(read, "primary", i, j) /\ TokenAt(ts, j) # "(" => Gets(f, "primary", i, j)
SignedGot(read, ts, f, i, j) ==
  Has(read, "signed", i, j) /\ TokenAt(ts, j) # "(" => Gets(f, "unary", i, j)
ProductGot(read, ts, f, i, j) ==
  Has(read, "product", i, j) /\ TokenAt(ts, j) # "(" =>
    \A n : Gets(f, "factors", j, n) => Gets(f, "term", i, n)
SumGot(read, ts, f, i, j) ==
  Has(read, "sum", i, j) /\ TokenAt(ts, j) \notin {"(", "*", "/"} =>
    \A n : Gets(f, "terms", j, n) => Gets(f, "expression", i, n)
Ends(ts, f, j, n) ==
  \/ TokenAt(ts, j) = ")" /\ n = j + 1
  \/ TokenAt(ts, j) = "," /\ Gets(f, "arguments", j + 1, n)
ListGot(read, ts, f, i, j) ==
  Has(read, "list", i, j) => \A n : Ends(ts, f, j, n) => Gets(f, "arguments", i, n)

AllGot(read, ts, f, i, j) ==
  /\ OpensWell(read, ts, i, j) /\ PrimaryGot(read, ts, f, i, j) /\ SignedGot(read, ts, f, i, j)
  /\ ProductGot(read, ts, f, i, j) /\ SumGot(read, ts, f, i, j) /\ ListGot(read, ts, f, i, j)

\* The phrases that are shorter are got.
ShorterGot(read, ts, f, w) ==
  \A p \in Nat, q \in Nat : p < q /\ q <= Len(ts) + 1 /\ q - p < w => AllGot(read, ts, f, p, q)

LEMMA SplitShorter ==
  ASSUME NEW ts, Len(ts) \in Nat, NEW read, NEW f, NEW i \in Nat, NEW j \in Nat, i < j, j <= Len(ts) + 1,
         ShorterGot(read, ts, f, j - i), NEW k \in i + 1..j - 2
  PROVE  /\ k \in Nat /\ k + 1 \in Nat /\ TokenAt(ts, k) = ts[k]
         /\ AllGot(read, ts, f, i, k) /\ AllGot(read, ts, f, k + 1, j)
<1>1. /\ k \in Nat /\ k + 1 \in Nat /\ k <= Len(ts) /\ i < k /\ k <= Len(ts) + 1 /\ k - i < j - i
      /\ k + 1 < j /\ j - (k + 1) < j - i
  OBVIOUS
<1>2. TokenAt(ts, k) = ts[k]
  BY <1>1 DEF TokenAt
<1>3. AllGot(read, ts, f, i, k)
  BY <1>1 DEF ShorterGot
<1>4. AllGot(read, ts, f, k + 1, j)
  BY <1>1 DEF ShorterGot
<1> QED
  BY <1>1, <1>2, <1>3, <1>4

LEMMA SumIsGot ==
  ASSUME NEW ts, Len(ts) \in Nat, NEW read, NEW values, Reading(read, ts, values), NEW f, IsParse(ts, f),
         NEW i \in Nat, NEW j \in Nat, i < j, j <= Len(ts) + 1, ShorterGot(read, ts, f, j - i),
         ProductGot(read, ts, f, i, j)
  PROVE  SumGot(read, ts, f, i, j)
<1> SUFFICES ASSUME Has(read, "sum", i, j), TokenAt(ts, j) \notin {"(", "*", "/"}, NEW n,
                    Gets(f, "terms", j, n)
             PROVE  Gets(f, "expression", i, n)
  BY DEF SumGot
<1>1. Gets(f, "factors", j, j)
  BY MethodsGet
<1>2. CASE Has(read, "product", i, j)
  <2>1. Gets(f, "term", i, j)
    BY <1>1, <1>2 DEF ProductGot
  <2> QED
    BY <2>1, MethodsGet
<1>3. CASE HasSplit(read, ts, i, j, {"+", "-"}, "sum", "product")
  <2>1. PICK k \in i + 1..j - 2 : /\ ts[k] \in {"+", "-"} /\ Has(read, "sum", i, k)
                                  /\ Has(read, "product", k + 1, j)
    BY <1>3 DEF HasSplit
  <2>2. /\ k \in Nat /\ k + 1 \in Nat /\ TokenAt(ts, k) = ts[k]
        /\ AllGot(read, ts, f, i, k) /\ AllGot(read, ts, f, k + 1, j)
    BY SplitShorter
  <2>3. Gets(f, "term", k + 1, j)
    BY <1>1, <2>1, <2>2 DEF AllGot, ProductGot
  <2>4. Gets(f, "terms", k, n)
    BY <2>1, <2>2, <2>3, MethodsGet
  <2> QED
    BY <2>1, <2>2, <2>4 DEF AllGot, SumGot
<1> QED
  BY <1>2, <1>3, ReadingHas

LEMMA ProductIsGot ==
  ASSUME NEW ts, Len(ts) \in Nat, NEW read, NEW values, Reading(read, ts, values), NEW f, IsParse(ts, f),
         NEW i \in Nat, NEW j \in Nat, i < j, j <= Len(ts) + 1, ShorterGot(read, ts, f, j - i),
         SignedGot(read, ts, f, i, j)
  PROVE  ProductGot(read, ts, f, i, j)
<1> SUFFICES ASSUME Has(read, "product", i, j), TokenAt(ts, j) # "(", NEW n, Gets(f, "factors", j, n)
             PROVE  Gets(f, "term", i, n)
  BY DEF ProductGot
<1>1. CASE Has(read, "signed", i, j)
  <2>1. Gets(f, "unary", i, j)
    BY <1>1 DEF SignedGot
  <2> QED
    BY <2>1, MethodsGet
<1>2. CASE HasSplit(read, ts, i, j, {"*", "/"}, "product", "signed")
  <2>1. PICK k \in i + 1..j - 2 : /\ ts[k] \in {"*", "/"} /\ Has(read, "product", i, k)
                                  /\ Has(read, "signed", k + 1, j)
    BY <1>2 DEF HasSplit
  <2>2. /\ k \in Nat /\ k + 1 \in Nat /\ TokenAt(ts, k) = ts[k]
        /\ AllGot(read, ts, f, i, k) /\ AllGot(read, ts, f, k + 1, j)
    BY SplitShorter
  <2>3. Gets(f, "unary", k + 1, j)
    BY <2>1, <2>2 DEF AllGot, SignedGot
  <2>4. Gets(f, "factors", k, n)
    BY <2>1, <2>2, <2>3, MethodsGet
  <2> QED
    BY <2>1, <2>2, <2>4 DEF AllGot, ProductGot
<1> QED
  BY <1>1, <1>2, ReadingHas

LEMMA ListIsGot ==
  ASSUME NEW ts, Len(ts) \in Nat, NEW read, NEW values, Reading(read, ts, values), NEW f, IsParse(ts, f),
         NEW i \in Nat, NEW j \in Nat, i < j, j <= Len(ts) + 1, ShorterGot(read, ts, f, j - i),
         SumGot(read, ts, f, i, j)
  PROVE  ListGot(read, ts, f, i, j)
<1> SUFFICES ASSUME Has(read, "list", i, j), NEW n, Ends(ts, f, j, n) PROVE Gets(f, "arguments", i, n)
  BY DEF ListGot
<1>1. Gets(f, "terms", j, j) /\ TokenAt(ts, j) \in {")", ","}
  BY MethodsGet DEF Ends
<1>2. CASE Has(read, "sum", i, j)
  <2>1. Gets(f, "expression", i, j)
    BY <1>1, <1>2 DEF SumGot
  <2> QED
    BY <2>1, ArgumentReaches DEF Ends, Gets
<1>3. CASE HasSplit(read, ts, i, j, {","}, "list", "sum")
  <2>1. PICK k \in i + 1..j - 2 : /\ ts[k] \in {","} /\ Has(read, "list", i, k)
                                  /\ Has(read, "sum", k + 1, j)
    BY <1>3 DEF HasSplit
  <2>2. /\ k \in Nat /\ k + 1 \in Nat /\ TokenAt(ts, k) = ts[k]
        /\ AllGot(read, ts, f, i, k) /\ AllGot(read, ts, f, k + 1, j)
    BY SplitShorter
  <2>3. Gets(f, "expression", k + 1, j)
    BY <1>1, <2>1, <2>2 DEF AllGot, SumGot
  <2>4. Gets(f, "arguments", k + 1, n)
    BY <2>2, <2>3, ArgumentReaches DEF Ends, Gets
  <2>5. Ends(ts, f, k, n)
    BY <2>1, <2>2, <2>4 DEF Ends
  <2> QED
    BY <2>1, <2>2, <2>5 DEF AllGot, ListGot
<1> QED
  BY <1>2, <1>3, ReadingHas

LEMMA SignedIsGot ==
  ASSUME NEW ts, Len(ts) \in Nat, NEW read, NEW values, Reading(read, ts, values), NEW f, IsParse(ts, f),
         NEW i \in Nat, NEW j \in Nat, i < j, j <= Len(ts) + 1, ShorterGot(read, ts, f, j - i),
         PrimaryGot(read, ts, f, i, j)
  PROVE  SignedGot(read, ts, f, i, j)
<1> SUFFICES ASSUME Has(read, "signed", i, j), TokenAt(ts, j) # "(" PROVE Gets(f, "unary", i, j)
  BY DEF SignedGot
<1>0. TokenAt(ts, i) = ts[i]
  BY DEF TokenAt
<1>1. CASE ts[i] \in {"+", "-"}
  <2>1. Has(read, "signed", i + 1, j)
    BY <1>1, ReadingHas
  <2>2. i + 1 \in Nat /\ i + 1 < j /\ j - (i + 1) < j - i
    <3>1. i + 1 < j
      <4> DEFINE m == i + 1
      <4>1. m \in Nat /\ "signed" \in Phrases /\ Has(read, "signed", m, j)
        BY <2>1 DEF Phrases
      <4> HIDE DEF m
      <4>2. m < j
        BY <4>1, ReadingHas
      <4> QED
        BY <4>2 DEF m
    <3> QED
      BY <3>1
  <2>3. AllGot(read, ts, f, i + 1, j)
    BY <2>2 DEF ShorterGot
  <2>4. Gets(f, "unary", i + 1, j)
    BY <2>1, <2>3 DEF AllGot, SignedGot
  <2> QED
    BY <1>0, <1>1, <2>4, SignReaches DEF Gets
<1>2. CASE ts[i] \notin {"+", "-"}
  <2>1. Has(read, "primary", i, j)
    BY <1>2, ReadingHas
  <2>2. Gets(f, "primary", i, j)
    BY <2>1 DEF PrimaryGot
  <2> QED
    BY <1>0, <1>2, <2>2, NoSignReaches DEF Gets
<1> QED
  BY <1>1, <1>2

LEMMA PrimaryIsGot ==
  ASSUME NEW ts, Len(ts) \in Nat, NEW read, NEW values, Reading(read, ts, values), NEW f, IsParse(ts, f),
         NEW i \in Nat, NEW j \in Nat, i < j, j <= Len(ts) + 1, ShorterGot(read, ts, f, j - i)
  PROVE  PrimaryGot(read, ts, f, i, j)
<1> SUFFICES ASSUME Has(read, "primary", i, j), TokenAt(ts, j) # "(" PROVE Gets(f, "primary", i, j)
  BY DEF PrimaryGot
<1>0. TokenAt(ts, i) = ts[i] /\ TokenAt(ts, j - 1) = ts[j - 1]
  BY DEF TokenAt
<1>1. CASE j = i + 1 /\ (IsNumber(ts[i]) \/ IsIdentifier(ts[i]))
  BY <1>0, <1>1, LeafReaches DEF Gets
<1>2. CASE HasParenthesis(read, ts, i, j)
  <2> DEFINE p == i + 1
             q == j - 1
  <2>1. /\ p \in Nat /\ q \in Nat /\ q + 1 = j /\ q <= Len(ts) + 1 /\ Has(read, "sum", p, q)
        /\ ts[i] = "(" /\ TokenAt(ts, q) = ")" /\ q - p < j - i /\ "sum" \in Phrases
    BY <1>0, <1>2 DEF HasParenthesis, Phrases
  <2>2. p = i + 1
    OBVIOUS
  <2> HIDE DEF p, q
  <2>3. p < q
    BY <2>1, ReadingHas
  <2>4. AllGot(read, ts, f, p, q)
    BY <2>1, <2>3 DEF ShorterGot
  <2>5. Gets(f, "terms", q, q)
    BY <2>1, MethodsGet
  <2>6. Gets(f, "expression", p, q)
    BY <2>1, <2>4, <2>5 DEF AllGot, SumGot
  <2>7. Reached(f[<<"expression", i + 1>>], q)
    BY <2>2, <2>6 DEF Gets
  <2>8. Reached(f[<<"primary", i>>], q + 1)
    BY <1>0, <2>1, <2>7, ParenthesisReaches
  <2> QED
    BY <2>1, <2>8 DEF Gets
<1>3. CASE HasCall(read, ts, i, j)
  <2>1. /\ j > i + 2 /\ IsIdentifier(ts[i]) /\ ts[i + 1] = "(" /\ ts[j - 1] = ")"
        /\ j = i + 3 \/ Has(read, "list", i + 2, j - 1)
    BY <1>3 DEF HasCall
  <2>2. TokenAt(ts, i + 1) = "(" /\ TokenAt(ts, i + 2) = ts[i + 2]
    BY <2>1 DEF TokenAt
  <2>3. IF TokenAt(ts, i + 2) = ")" THEN j = i + 3 ELSE Reached(f[<<"arguments", i + 2>>], j)
    <3>1. CASE j = i + 3
      <4>1. j - 1 = i + 2
        BY <3>1
      <4> QED
        BY <2>1, <2>2, <3>1, <4>1
    <3>2. CASE j # i + 3
      <4> DEFINE p == i + 2
                 q == j - 1
      <4>1. /\ p \in Nat /\ q \in Nat /\ q + 1 = j /\ q <= Len(ts) + 1 /\ Has(read, "list", p, q)
            /\ TokenAt(ts, q) = ")" /\ q - p < j - i /\ "list" \in Phrases
        BY <1>0, <2>1, <3>2 DEF Phrases
      <4>2. p = i + 2
        OBVIOUS
      <4> HIDE DEF p, q
      <4>3. p < q
        BY <4>1, ReadingHas
      <4>4. AllGot(read, ts, f, p, q)
        BY <4>1, <4>3 DEF ShorterGot
      <4>5. Ends(ts, f, q, j)
        BY <4>1 DEF Ends
      <4>6. Gets(f, "arguments", p, j) /\ ts[p] # ")"
        BY <4>1, <4>4, <4>5 DEF AllGot, ListGot, OpensWell
      <4> QED
        BY <2>2, <4>2, <4>6 DEF Gets
    <3> QED
      BY <3>1, <3>2
  <2> QED
    BY <1>0, <2>1, <2>2, <2>3, CallReaches DEF Gets
<1> QED
  BY <1>1, <1>2, <1>3, ReadingHas

\* No phrase begins with a closing parenthesis.
LEMMA AllOpenWell ==
  ASSUME NEW ts, Len(ts) \in Nat, NEW read, NEW values, Reading(read, ts, values), NEW f,
         NEW i \in Nat, NEW j \in Nat, i < j, j <= Len(ts) + 1, ShorterGot(read, ts, f, j - i)
  PROVE  OpensWell(read, ts, i, j)
<1>0. Phrases = {"sum", "product", "signed", "primary", "list"}
  BY DEF Phrases
<1>1. Has(read, "primary", i, j) => ts[i] # ")"
  <2>1. ~IsNumber(")") /\ ~IsIdentifier(")")
    BY DEF IsNumber, IsIdentifier, NumberTokens, Marks
  <2> SUFFICES ASSUME Has(read, "primary", i, j) PROVE ts[i] # ")"
    OBVIOUS
  <2>2. \/ j = i + 1 /\ (IsNumber(ts[i]) \/ IsIdentifier(ts[i]))
        \/ HasParenthesis(read, ts, i, j)
        \/ HasCall(read, ts, i, j)
    BY ReadingHas
  <2>3. HasParenthesis(read, ts, i, j) => ts[i] = "("
    BY DEF HasParenthesis
  <2>4. HasCall(read, ts, i, j) => IsIdentifier(ts[i])
    BY DEF HasCall
  <2> QED
    BY <2>1, <2>2, <2>3, <2>4
<1>2. Has(read, "signed", i, j) => ts[i] # ")"
  BY <1>1, ReadingHas
<1>3. \A kind \in Phrases : \A right, ops : HasSplit(read, ts, i, j, ops, kind, right) => ts[i] # ")"
  <2> SUFFICES ASSUME NEW kind \in Phrases, NEW right, NEW ops, HasSplit(read, ts, i, j, ops, kind, right)
               PROVE  ts[i] # ")"
    OBVIOUS
  <2>1. PICK k \in i + 1..j - 2 : Has(read, kind, i, k)
    BY DEF HasSplit
  <2>2. AllGot(read, ts, f, i, k)
    BY SplitShorter
  <2> QED
    BY <2>1, <2>2 DEF AllGot, OpensWell
<1>4. Has(read, "product", i, j) => ts[i] # ")"
  BY <1>0, <1>2, <1>3, ReadingHas
<1>5. Has(read, "sum", i, j) => ts[i] # ")"
  BY <1>0, <1>3, <1>4, ReadingHas
<1>6. Has(read, "list", i, j) => ts[i] # ")"
  BY <1>0, <1>3, <1>5, ReadingHas
<1> QED
  BY <1>0, <1>1, <1>2, <1>4, <1>5, <1>6 DEF OpensWell

LEMMA EveryPhraseGot ==
  ASSUME NEW ts, Len(ts) \in Nat, NEW read, NEW values, Reading(read, ts, values), NEW f, IsParse(ts, f)
  PROVE  \A w \in Nat : ShorterGot(read, ts, f, w)
<1> DEFINE S == {w \in Nat : ShorterGot(read, ts, f, w)}
<1>1. 0 \in S
  BY DEF ShorterGot
<1>2. \A w \in Nat : w \in S => w + 1 \in S
  <2> SUFFICES ASSUME NEW w \in Nat, ShorterGot(read, ts, f, w) PROVE ShorterGot(read, ts, f, w + 1)
    OBVIOUS
  <2> SUFFICES ASSUME NEW i \in Nat, NEW j \in Nat, i < j, j <= Len(ts) + 1, j - i < w + 1
               PROVE  AllGot(read, ts, f, i, j)
    BY DEF ShorterGot
  <2>1. ShorterGot(read, ts, f, j - i)
    <3>1. \A p, q \in Nat : q - p < j - i => q - p < w
      OBVIOUS
    <3> QED
      BY <3>1 DEF ShorterGot
  <2>2. OpensWell(read, ts, i, j)
    BY <2>1, AllOpenWell
  <2>3. PrimaryGot(read, ts, f, i, j)
    BY <2>1, PrimaryIsGot
  <2>4. SignedGot(read, ts, f, i, j)
    BY <2>1, <2>3, SignedIsGot
  <2>5. ProductGot(read, ts, f, i, j)
    BY <2>1, <2>4, ProductIsGot
  <2>6. SumGot(read, ts, f, i, j)
    BY <2>1, <2>5, SumIsGot
  <2>7. ListGot(read, ts, f, i, j)
    BY <2>1, <2>6, ListIsGot
  <2> QED
    BY <2>2, <2>3, <2>4, <2>5, <2>6, <2>7 DEF AllGot
<1> HIDE DEF S
<1>3. \A w \in Nat : w \in S
  BY <1>1, <1>2, AllNaturals
<1> QED
  BY <1>3 DEF S

\* The parser accepts every formula the grammar can read, and no other, whatever the
\* signals are worth: FormulaParser::parse() refuses a formula only if no splitting of it
\* at its operators, parentheses and commas leaves readable parts.
THEOREM ParserFollowsGrammar ==
  ASSUME NEW ts, Len(ts) \in Nat, NEW values
  PROVE  Parsed(ts) # {} <=> Meanings(ts, values) # {}
<1>1. Parsed(ts) # {} => Meanings(ts, values) # {}
  BY EvaluationIsMeaning
<1>2. ASSUME Meanings(ts, values) # {} PROVE Parsed(ts) # {}
  <2> DEFINE parse == CHOOSE f : f = [p \in Rules \X Nat |-> ParseFrom(ts, f, p[1], p[2])]
             n == Len(ts) + 1
  <2>0. n \in Nat /\ n - 1 < n /\ n <= Len(ts) + 1 /\ n = Len(ts) + 1
    OBVIOUS
  <2>1. IsParse(ts, parse)
    <3>1. \E f : f = [p \in Rules \X Nat |-> ParseFrom(ts, f, p[1], p[2])]
      BY ParseExists DEF IsParse
    <3> QED
      BY <3>1 DEF IsParse
  <2>2. Parsed(ts) = {r.nodes : r \in {q \in parse[<<"expression", 1>>] : q.next = Len(ts) + 1}}
    BY DEF Parsed
  <2> HIDE DEF parse
  <2>3. PICK read : /\ \A kind \in Phrases, i \in Nat, j \in Nat :
                         read[<<kind, i, j>>] = ReadFrom(read, ts, values, kind, i, j)
                    /\ Meanings(ts, values) = read[<<"sum", 1, Len(ts) + 1>>]
    BY MeaningsRead
  <2>4. Reading(read, ts, values) /\ Has(read, "sum", 1, n)
    BY <1>2, <2>3 DEF Reading, Has
  <2> HIDE DEF n
  <2>5. 1 < n
    BY <2>0, <2>4, ReadingHas DEF Phrases
  <2>6. AllGot(read, ts, parse, 1, n)
    BY <2>0, <2>1, <2>4, <2>5, EveryPhraseGot DEF ShorterGot
  <2>7. TokenAt(ts, n) = "end"
    BY <2>0 DEF TokenAt
  <2>8. Gets(parse, "terms", n, n)
    BY <2>0, <2>1, <2>7, MethodsGet
  <2>9. Gets(parse, "expression", 1, n)
    BY <2>4, <2>6, <2>7, <2>8 DEF AllGot, SumGot
  <2> QED
    BY <2>0, <2>2, <2>9 DEF Gets, Reached
<1> QED
  BY <1>1, <1>2

-----------------------------------------------------------------------------
(* The names a tree reads are those the formula names. *)

\* The names of the signals among nodes, and those of the tokens from i to n - 1.
SignalsReadBy(nodes) == {nodes[k].at : k \in {m \in DOMAIN nodes : nodes[m].op = "signal"}}
IsName(ts, k) == IsIdentifier(TokenAt(ts, k)) /\ TokenAt(ts, k + 1) # "("
NamesFrom(ts, i, n) == {TokenAt(ts, k) : k \in {m \in i..n - 1 : IsName(ts, m)}}

\* A result has the names of the tokens it read.
HasNames(ts, i, r) == SignalsReadBy(r.nodes) = NamesFrom(ts, i, r.next)

LEMMA SignalsJoined ==
  ASSUME NEW N, NEW a \in Seq(N), NEW b \in Seq(N)
  PROVE  SignalsReadBy(a \o b) = SignalsReadBy(a) \cup SignalsReadBy(b)
<1> DEFINE m == Len(a)
           n == Len(b)
           c == a \o b
           at(k) == c[k].op = "signal"
<1>1. /\ m \in Nat /\ n \in Nat /\ DOMAIN a = 1..m /\ DOMAIN b = 1..n /\ DOMAIN c = 1..m + n
      /\ \A k \in 1..m : c[k] = a[k]
      /\ \A k \in 1..n : c[m + k] = b[k]
  OBVIOUS
<1> HIDE DEF m, n, c
<1>2. ASSUME NEW x \in SignalsReadBy(c) PROVE x \in SignalsReadBy(a) \cup SignalsReadBy(b)
  <2>1. PICK k \in DOMAIN c : c[k].op = "signal" /\ x = c[k].at
    BY <1>2 DEF SignalsReadBy
  <2>2. CASE k <= m
    <3>1. k \in DOMAIN a /\ a[k] = c[k]
      BY <1>1, <2>1, <2>2
    <3> QED
      BY <2>1, <3>1 DEF SignalsReadBy
  <2>3. CASE k > m
    <3> DEFINE j == k - m
    <3>1. j \in 1..n /\ m + j = k
      BY <1>1, <2>1, <2>3
    <3> HIDE DEF j
    <3>2. j \in DOMAIN b /\ b[j] = c[k]
      BY <1>1, <3>1
    <3> QED
      BY <2>1, <3>2 DEF SignalsReadBy
  <2> QED
    BY <1>1, <2>1, <2>2, <2>3
<1>3. ASSUME NEW x \in SignalsReadBy(a) PROVE x \in SignalsReadBy(c)
  <2>1. PICK k \in DOMAIN a : a[k].op = "signal" /\ x = a[k].at
    BY <1>3 DEF SignalsReadBy
  <2>2. k \in DOMAIN c /\ c[k] = a[k]
    BY <1>1, <2>1
  <2> QED
    BY <2>1, <2>2 DEF SignalsReadBy
<1>4. ASSUME NEW x \in SignalsReadBy(b) PROVE x \in SignalsReadBy(c)
  <2>1. PICK k \in DOMAIN b : b[k].op = "signal" /\ x = b[k].at
    BY <1>4 DEF SignalsReadBy
  <2>2. m + k \in DOMAIN c /\ c[m + k] = b[k]
    BY <1>1, <2>1
  <2> QED
    BY <2>1, <2>2 DEF SignalsReadBy
<1> QED
  BY <1>2, <1>3, <1>4 DEF c

LEMMA SignalsAppended ==
  ASSUME NEW N, NEW a \in Seq(N), NEW node \in N
  PROVE  SignalsReadBy(Append(a, node)) =
           SignalsReadBy(a) \cup IF node.op = "signal" THEN {node.at} ELSE {}
<1> DEFINE one == <<node>>
<1>1. one \in Seq(N) /\ Append(a, node) = a \o one
  BY NodeAppended
<1>2. SignalsReadBy(one) = IF node.op = "signal" THEN {node.at} ELSE {}
  <2>1. DOMAIN one = {1} /\ one[1] = node
    OBVIOUS
  <2> HIDE DEF one
  <2> QED
    BY <2>1 DEF SignalsReadBy
<1> HIDE DEF one
<1> QED
  BY <1>1, <1>2, SignalsJoined

LEMMA NoSignals == SignalsReadBy(<<>>) = {}
BY DEF SignalsReadBy

\* The names of some tokens and of those behind them.
LEMMA NamesSplit ==
  ASSUME NEW ts, NEW i \in Nat, NEW k \in Nat, NEW n \in Nat, i <= k, k <= n
  PROVE  NamesFrom(ts, i, n) = NamesFrom(ts, i, k) \cup NamesFrom(ts, k, n)
<1>1. \A m \in Int : m \in i..n - 1 <=> m \in i..k - 1 \/ m \in k..n - 1
  OBVIOUS
<1>2. \A m \in i..n - 1 : m \in Int
  OBVIOUS
<1>3. ASSUME NEW x \in NamesFrom(ts, i, n) PROVE x \in NamesFrom(ts, i, k) \cup NamesFrom(ts, k, n)
  <2>1. PICK m \in i..n - 1 : IsName(ts, m) /\ x = TokenAt(ts, m)
    BY <1>3 DEF NamesFrom
  <2>2. m \in i..k - 1 \/ m \in k..n - 1
    BY <1>1, <1>2
  <2> QED
    BY <2>1, <2>2 DEF NamesFrom
<1>4. ASSUME NEW x \in NamesFrom(ts, i, k) PROVE x \in NamesFrom(ts, i, n)
  <2>1. PICK m \in i..k - 1 : IsName(ts, m) /\ x = TokenAt(ts, m)
    BY <1>4 DEF NamesFrom
  <2>2. m \in i..n - 1
    OBVIOUS
  <2> QED
    BY <2>1, <2>2 DEF NamesFrom
<1>5. ASSUME NEW x \in NamesFrom(ts, k, n) PROVE x \in NamesFrom(ts, i, n)
  <2>1. PICK m \in k..n - 1 : IsName(ts, m) /\ x = TokenAt(ts, m)
    BY <1>5 DEF NamesFrom
  <2>2. m \in i..n - 1
    OBVIOUS
  <2> QED
    BY <2>1, <2>2 DEF NamesFrom
<1> QED
  BY <1>3, <1>4, <1>5

LEMMA NoNames ==
  ASSUME NEW ts, NEW i \in Nat
  PROVE  NamesFrom(ts, i, i) = {}
<1>1. i..i - 1 = {}
  OBVIOUS
<1> QED
  BY <1>1 DEF NamesFrom

LEMMA OneName ==
  ASSUME NEW ts, NEW i \in Nat
  PROVE  NamesFrom(ts, i, i + 1) = IF IsName(ts, i) THEN {TokenAt(ts, i)} ELSE {}
<1>1. i..(i + 1) - 1 = {i}
  OBVIOUS
<1> QED
  BY <1>1 DEF NamesFrom

LEMMA MarksAreNoNames ==
  ASSUME NEW ts, NEW i, TokenAt(ts, i) \in Marks \/ IsNumber(TokenAt(ts, i)) \/ TokenAt(ts, i + 1) = "("
  PROVE  ~IsName(ts, i)
BY DEF IsName, IsIdentifier

\* A token that is no name adds none.
LEMMA NextIsNoName ==
  ASSUME NEW ts, NEW i \in Nat, NEW n \in Nat, i + 1 <= n, ~IsName(ts, i)
  PROVE  NamesFrom(ts, i, n) = NamesFrom(ts, i + 1, n)
<1> DEFINE k == i + 1
<1>1. k \in Nat /\ i <= k /\ k <= n
  OBVIOUS
<1>2. NamesFrom(ts, i, k) = {}
  BY OneName
<1> HIDE DEF k
<1>3. NamesFrom(ts, i, n) = NamesFrom(ts, i, k) \cup NamesFrom(ts, k, n)
  BY <1>1, NamesSplit
<1> QED
  BY <1>2, <1>3 DEF k

LEMMA LastIsNoName ==
  ASSUME NEW ts, NEW i \in Nat, NEW n \in Nat, i <= n, ~IsName(ts, n)
  PROVE  NamesFrom(ts, i, n + 1) = NamesFrom(ts, i, n)
<1> DEFINE e == n + 1
<1>1. e \in Nat /\ n <= e
  OBVIOUS
<1>2. NamesFrom(ts, n, e) = {}
  BY OneName
<1> HIDE DEF e
<1>3. NamesFrom(ts, i, e) = NamesFrom(ts, i, n) \cup NamesFrom(ts, n, e)
  BY <1>1, NamesSplit
<1> QED
  BY <1>2, <1>3 DEF e

\* The calls closer to the end than a distance read the names they should.
CallsRead(f, ts, w) ==
  \A rule \in Rules, i \in Nat : Weight(ts, rule, i) < w => \A r \in f[<<rule, i>>] : HasNames(ts, i, r)

LEMMA JoinedReads ==
  ASSUME NEW ts, NEW a, NEW b, a.nodes \in Seq(Nodes(ts)), b.nodes \in Seq(Nodes(ts)),
         NEW i \in Nat, NEW k \in Nat, NEW n \in Nat, i <= k, k <= n,
         SignalsReadBy(a.nodes) = NamesFrom(ts, i, k), SignalsReadBy(b.nodes) = NamesFrom(ts, k, n),
         NEW r, r.nodes = a.nodes \o b.nodes, r.next = n
  PROVE  HasNames(ts, i, r)
<1>1. SignalsReadBy(r.nodes) = SignalsReadBy(a.nodes) \cup SignalsReadBy(b.nodes)
  BY SignalsJoined
<1>2. NamesFrom(ts, i, n) = NamesFrom(ts, i, k) \cup NamesFrom(ts, k, n)
  BY NamesSplit
<1> QED
  BY <1>1, <1>2 DEF HasNames

LEMMA FirstThenReads ==
  ASSUME NEW ts, Len(ts) \in Nat, NEW f, IsParse(ts, f), NEW w, CallsRead(f, ts, w), NEW i \in Nat,
         NEW first \in Rules \ {"terms", "factors"}, NEW rest \in {"terms", "factors"},
         Weight(ts, first, i) < w, i <= Len(ts) => \A j \in Nat : j > i => Weight(ts, rest, j) < w,
         NEW r \in Followed(f[<<first, i>>], f, rest)
  PROVE  HasNames(ts, i, r)
<1>0. rest \in Rules /\ first \in Rules
  BY DEF Rules
<1>1. \A a \in f[<<first, i>>] : /\ a.next \in Nat /\ i <= Len(ts) /\ a.next > i
                                 /\ a.nodes \in Seq(Nodes(ts))
  BY <1>0, AnswersAre
<1>2. CallsAnswer(ts, f[<<first, i>>], f, rest)
  <2>1. \A a \in f[<<first, i>>] : f[<<rest, a.next>>] \subseteq Results(ts)
    BY <1>0, <1>1, AnswersAre
  <2> QED
    BY <2>1 DEF CallsAnswer
<1>3. IsFollowed(r, f[<<first, i>>], f, rest)
  BY <1>2, FollowedIs
<1>4. PICK a \in f[<<first, i>>] : \E b \in f[<<rest, a.next>>] :
        r.nodes = a.nodes \o b.nodes /\ r.next = b.next
  BY <1>3 DEF IsFollowed
<1> DEFINE k == a.next
<1>5. /\ k \in Nat /\ i <= Len(ts) /\ k > i /\ a.nodes \in Seq(Nodes(ts)) /\ a.next = k
      /\ HasNames(ts, i, a)
  BY <1>0, <1>1, <1>4 DEF CallsRead
<1>6. PICK b \in f[<<rest, k>>] : r.nodes = a.nodes \o b.nodes /\ r.next = b.next
  BY <1>4
<1> HIDE DEF k
<1>7. Weight(ts, rest, k) < w
  BY <1>5
<1>8. HasNames(ts, k, b) /\ b.next \in Nat /\ b.next >= k /\ b.nodes \in Seq(Nodes(ts))
  BY <1>0, <1>5, <1>7, AnswersAre DEF CallsRead
<1> DEFINE n == b.next
<1>9. n \in Nat /\ i <= k /\ k <= n /\ r.next = n /\ b.next = n
  BY <1>5, <1>6, <1>8
<1> HIDE DEF n
<1>10. SignalsReadBy(a.nodes) = NamesFrom(ts, i, k) /\ SignalsReadBy(b.nodes) = NamesFrom(ts, k, n)
  BY <1>5, <1>8, <1>9 DEF HasNames
<1> QED
  BY <1>5, <1>6, <1>8, <1>9, <1>10, JoinedReads

\* A node that is no signal is put at the end.
LEMMA NodeReads ==
  ASSUME NEW ts, NEW i \in Nat, NEW a, NEW r, NEW node \in Nodes(ts), node.op # "signal",
         a.nodes \in Seq(Nodes(ts)), HasNames(ts, i, a),
         r.nodes = Append(a.nodes, node), r.next = a.next
  PROVE  HasNames(ts, i, r)
<1>1. SignalsReadBy(r.nodes) = SignalsReadBy(a.nodes)
  <2> DEFINE N == Nodes(ts)
             s == a.nodes
  <2>1. s \in Seq(N) /\ node \in N
    OBVIOUS
  <2> HIDE DEF N, s
  <2>2. SignalsReadBy(Append(s, node)) = SignalsReadBy(s) \cup IF node.op = "signal" THEN {node.at} ELSE {}
    BY <2>1, SignalsAppended
  <2> QED
    BY <2>2 DEF s
<1> QED
  BY <1>1 DEF HasNames

\* A token that is no name is before what is read.
LEMMA ReadsBefore ==
  ASSUME NEW ts, NEW i \in Nat, ~IsName(ts, i), NEW r, r.next \in Nat, r.next > i, HasNames(ts, i + 1, r)
  PROVE  HasNames(ts, i, r)
<1> DEFINE n == r.next
<1>1. n \in Nat /\ i + 1 <= n /\ r.next = n
  OBVIOUS
<1> HIDE DEF n
<1>2. NamesFrom(ts, i, n) = NamesFrom(ts, i + 1, n)
  BY <1>1, NextIsNoName
<1> QED
  BY <1>1, <1>2 DEF HasNames

LEMMA OperatorNode ==
  ASSUME NEW ts, Len(ts) \in Nat, NEW k \in Nat, NEW ops, ops \subseteq {"+", "-", "*", "/"},
         TokenAt(ts, k) \in ops
  PROVE  /\ Node(TokenAt(ts, k), "", 2) \in Nodes(ts) /\ Node(TokenAt(ts, k), "", 2).op # "signal"
         /\ ~IsName(ts, k) /\ k <= Len(ts)
<1>1. TokenAt(ts, k) \in Texts(ts) /\ "" \in Texts(ts) /\ (k > Len(ts) => TokenAt(ts, k) = "end")
  BY Tokens
<1>2. TokenAt(ts, k) \in Marks /\ TokenAt(ts, k) # "signal" /\ TokenAt(ts, k) # "end"
  BY DEF Marks
<1>3. ~IsName(ts, k)
  BY <1>2, MarksAreNoNames
<1> DEFINE t == TokenAt(ts, k)
<1>4. t \in Texts(ts) /\ "" \in Texts(ts) /\ t # "signal"
  BY <1>1, <1>2
<1> HIDE DEF t
<1>5. Node(t, "", 2) \in Nodes(ts) /\ Node(t, "", 2).op # "signal"
  BY <1>4 DEF Node, Nodes
<1>6. k <= Len(ts)
  <2>1. k > Len(ts) => TokenAt(ts, k) = "end"
    BY Tokens
  <2> QED
    BY <1>2, <2>1
<1>7. Node(TokenAt(ts, k), "", 2) = Node(t, "", 2)
  BY DEF t
<1> QED
  BY <1>3, <1>5, <1>6, <1>7

LEMMA RepeatedReads ==
  ASSUME NEW ts, Len(ts) \in Nat, NEW f, IsParse(ts, f), NEW k \in Nat,
         NEW operand \in {"term", "unary"}, NEW rule \in {"terms", "factors"},
         CallsRead(f, ts, Weight(ts, rule, k)), NEW ops, ops \subseteq {"+", "-", "*", "/"},
         NEW r \in Repeated(ts, k, f, ops, operand, rule)
  PROVE  HasNames(ts, k, r)
<1>0. /\ rule \in Rules /\ operand \in Rules /\ operand \notin {"terms", "factors"} /\ k + 1 \in Nat
  BY DEF Rules
<1>1. CASE TokenAt(ts, k) \notin ops
  <2>1. r.nodes = <<>> /\ r.next = k
    BY <1>1 DEF Repeated, Made
  <2> QED
    BY <2>1, NoSignals, NoNames DEF HasNames
<1>2. CASE TokenAt(ts, k) \in ops
  <2> DEFINE node == Node(TokenAt(ts, k), "", 2)
             calls == f[<<operand, k + 1>>]
             made == WithNode(calls, TokenAt(ts, k), "", 2)
  <2>1. node \in Nodes(ts) /\ node.op # "signal" /\ ~IsName(ts, k) /\ k <= Len(ts)
    BY <1>2, OperatorNode
  <2>2. \A other \in Rules, j \in Nat : j > k => Weight(ts, other, j) < Weight(ts, rule, k)
    BY <1>0, <2>1, SmallerWeight
  <2>3. /\ calls \subseteq Results(ts)
        /\ \A a \in calls : /\ a.next \in Nat /\ a.next > k + 1 /\ a.nodes \in Seq(Nodes(ts))
                            /\ HasNames(ts, k + 1, a)
    <3>1. Weight(ts, operand, k + 1) < Weight(ts, rule, k)
      BY <1>0, <2>2
    <3> QED
      BY <1>0, <3>1, AnswersAre DEF CallsRead
  <2>4. r \in Followed(made, f, rule)
    BY <1>2 DEF Repeated
  <2> HIDE DEF calls
  <2>5. \A m \in made : /\ m.next \in Nat /\ m.next > k /\ m.nodes \in Seq(Nodes(ts))
                        /\ HasNames(ts, k, m)
    <3> SUFFICES ASSUME NEW m \in made
                 PROVE  m.next \in Nat /\ m.next > k /\ m.nodes \in Seq(Nodes(ts)) /\ HasNames(ts, k, m)
      OBVIOUS
    <3>1. HasOneMore(m, calls, node)
      BY <2>3, WithNodeIs
    <3> HIDE DEF node
    <3>2. PICK a \in calls : m.nodes = Append(a.nodes, node) /\ m.next = a.next
      BY <3>1 DEF HasOneMore
    <3> DEFINE n == a.next
    <3>3. /\ n \in Nat /\ n > k + 1 /\ m.next = n /\ a.nodes \in Seq(Nodes(ts))
          /\ HasNames(ts, k + 1, a)
      BY <2>3, <3>2
    <3> HIDE DEF n
    <3>4. n > k
      BY <3>3, AfterNext
    <3>5. m.nodes \in Seq(Nodes(ts))
      BY <2>1, <3>2, <3>3, NodeAppended
    <3>6. HasNames(ts, k + 1, m)
      BY <1>0, <2>1, <3>2, <3>3, NodeReads
    <3>7. HasNames(ts, k, m)
      BY <2>1, <3>3, <3>4, <3>6, ReadsBefore
    <3> QED
      BY <3>3, <3>4, <3>5, <3>7
  <2> HIDE DEF made
  <2>6. CallsAnswer(ts, made, f, rule)
    <3> SUFFICES ASSUME NEW m \in made PROVE f[<<rule, m.next>>] \subseteq Results(ts)
      BY DEF CallsAnswer
    <3> QED
      BY <1>0, <2>5, AnswersAre
  <2>7. IsFollowed(r, made, f, rule)
    BY <2>4, <2>6, FollowedIs
  <2>8. PICK m \in made : \E b \in f[<<rule, m.next>>] : r.nodes = m.nodes \o b.nodes /\ r.next = b.next
    BY <2>7 DEF IsFollowed
  <2> DEFINE p == m.next
  <2>9. p \in Nat /\ p > k /\ m.nodes \in Seq(Nodes(ts)) /\ HasNames(ts, k, m) /\ m.next = p
    BY <2>5
  <2>10. PICK b \in f[<<rule, p>>] : r.nodes = m.nodes \o b.nodes /\ r.next = b.next
    BY <2>8
  <2> HIDE DEF p
  <2>11. Weight(ts, rule, p) < Weight(ts, rule, k)
    BY <1>0, <2>2, <2>9
  <2>12. HasNames(ts, p, b) /\ b.next \in Nat /\ b.next >= p /\ b.nodes \in Seq(Nodes(ts))
    BY <1>0, <2>9, <2>11, AnswersAre DEF CallsRead
  <2> DEFINE n == b.next
  <2>13. n \in Nat /\ k <= p /\ p <= n /\ r.next = n /\ b.next = n
    BY <2>9, <2>10, <2>12
  <2> HIDE DEF n
  <2>14. SignalsReadBy(m.nodes) = NamesFrom(ts, k, p) /\ SignalsReadBy(b.nodes) = NamesFrom(ts, p, n)
    BY <2>9, <2>12, <2>13 DEF HasNames
  <2> QED
    BY <2>9, <2>10, <2>12, <2>13, <2>14, JoinedReads
<1> QED
  BY <1>1, <1>2

LEMMA UnaryReads ==
  ASSUME NEW ts, Len(ts) \in Nat, NEW f, IsParse(ts, f), NEW i \in Nat,
         CallsRead(f, ts, Weight(ts, "unary", i)), NEW r \in Unary(ts, i, f)
  PROVE  HasNames(ts, i, r)
<1>0. {"unary", "primary"} \subseteq Rules /\ i + 1 \in Nat /\ i + 1 > i
  BY DEF Rules
<1>1. CASE TokenAt(ts, i) \in {"+", "-"}
  <2> DEFINE calls == f[<<"unary", i + 1>>]
             node == Node("negate", "", 1)
  <2>1. i <= Len(ts) /\ ~IsName(ts, i)
    <3>1. {"+", "-"} \subseteq {"+", "-", "*", "/"}
      OBVIOUS
    <3> QED
      BY <1>1, <3>1, OperatorNode
  <2>2. Weight(ts, "unary", i + 1) < Weight(ts, "unary", i)
    BY <1>0, <2>1, SmallerWeight
  <2>3. \A a \in calls : /\ HasNames(ts, i + 1, a) /\ a.next \in Nat /\ a.next > i + 1
                         /\ a.nodes \in Seq(Nodes(ts))
    BY <1>0, <2>2, AnswersAre DEF CallsRead
  <2>4. calls \subseteq Results(ts)
    BY <1>0, AnswersAre
  <2> HIDE DEF calls
  <2>5. node \in Nodes(ts) /\ node.op # "signal"
    BY Tokens DEF Node, Nodes
  <2>6. r \in calls \/ r \in WithNode(calls, "negate", "", 1)
    BY <1>1 DEF Unary, calls
  <2>7. \E a \in calls : r.next = a.next /\ (r.nodes = a.nodes \/ r.nodes = Append(a.nodes, node))
    <3>1. r \in WithNode(calls, "negate", "", 1) => HasOneMore(r, calls, node)
      BY <2>4, WithNodeIs
    <3> QED
      BY <2>6, <3>1 DEF HasOneMore
  <2> HIDE DEF node
  <2>8. PICK a \in calls : r.next = a.next /\ (r.nodes = a.nodes \/ r.nodes = Append(a.nodes, node))
    BY <2>7
  <2>9. HasNames(ts, i + 1, r)
    <3>1. CASE r.nodes = a.nodes
      BY <2>3, <2>8, <3>1 DEF HasNames
    <3>2. CASE r.nodes = Append(a.nodes, node)
      BY <1>0, <2>3, <2>5, <2>8, <3>2, NodeReads
    <3> QED
      BY <2>8, <3>1, <3>2
  <2> DEFINE n == a.next
  <2>10. n \in Nat /\ n > i + 1 /\ r.next = n
    BY <2>3, <2>8
  <2> HIDE DEF n
  <2>11. n > i
    BY <2>10, AfterNext
  <2> QED
    BY <2>1, <2>9, <2>10, <2>11, ReadsBefore
<1>2. CASE TokenAt(ts, i) \notin {"+", "-"}
  <2>1. Below("primary") < Below("unary")
    BY DEF Below
  <2>2. Weight(ts, "primary", i) < Weight(ts, "unary", i)
    BY <1>0, <2>1, SmallerWeight
  <2>3. r \in f[<<"primary", i>>]
    BY <1>2 DEF Unary
  <2> QED
    BY <1>0, <2>2, <2>3 DEF CallsRead
<1> QED
  BY <1>1, <1>2

LEMMA ArgumentsRead ==
  ASSUME NEW ts, Len(ts) \in Nat, NEW f, IsParse(ts, f), NEW i \in Nat,
         CallsRead(f, ts, Weight(ts, "arguments", i)), NEW r \in Arguments(ts, i, f)
  PROVE  HasNames(ts, i, r)
<1>0. {"expression", "arguments"} \subseteq Rules
  BY DEF Rules
<1>1. Weight(ts, "expression", i) < Weight(ts, "arguments", i)
  <2>1. Below("expression") < Below("arguments")
    BY DEF Below
  <2> QED
    BY <1>0, <2>1, SmallerWeight
<1>2. \A a \in f[<<"expression", i>>] :
        /\ HasNames(ts, i, a) /\ a.next \in Nat /\ i < a.next /\ i <= Len(ts) /\ a.nodes \in Seq(Nodes(ts))
  BY <1>0, <1>1, AnswersAre DEF CallsRead
<1>3. CASE OneArgument(ts, f, i, r)
  <2>1. PICK a \in f[<<"expression", i>>] :
          TokenAt(ts, a.next) = ")" /\ r.nodes = a.nodes /\ r.next = a.next + 1
    BY <1>3 DEF OneArgument
  <2> DEFINE n == a.next
  <2>2. n \in Nat /\ i <= n /\ SignalsReadBy(r.nodes) = NamesFrom(ts, i, n) /\ r.next = n + 1
    BY <1>2, <2>1 DEF HasNames
  <2>3. TokenAt(ts, n) \in Marks
    BY <2>1 DEF Marks
  <2> HIDE DEF n
  <2>4. NamesFrom(ts, i, n + 1) = NamesFrom(ts, i, n)
    BY <2>2, <2>3, MarksAreNoNames, LastIsNoName
  <2> QED
    BY <2>2, <2>4 DEF HasNames
<1>4. CASE MoreArguments(ts, f, i, r)
  <2>1. PICK a \in f[<<"expression", i>>] : TokenAt(ts, a.next) = "," /\
          \E b \in f[<<"arguments", a.next + 1>>] : r.nodes = a.nodes \o b.nodes /\ r.next = b.next
    BY <1>4 DEF MoreArguments
  <2> DEFINE n == a.next
  <2>2. /\ n \in Nat /\ i < n /\ i <= Len(ts) /\ a.nodes \in Seq(Nodes(ts))
        /\ SignalsReadBy(a.nodes) = NamesFrom(ts, i, n)
    BY <1>2 DEF HasNames
  <2>3. TokenAt(ts, n) \in Marks
    BY <2>1 DEF Marks
  <2>4. PICK b \in f[<<"arguments", n + 1>>] : r.nodes = a.nodes \o b.nodes /\ r.next = b.next
    BY <2>1
  <2> HIDE DEF n
  <2> DEFINE p == n + 1
  <2>5. p \in Nat /\ p > i /\ i <= p /\ b \in f[<<"arguments", p>>]
    BY <2>2, <2>4
  <2>6. NamesFrom(ts, i, p) = NamesFrom(ts, i, n)
    BY <2>2, <2>3, MarksAreNoNames, LastIsNoName
  <2> HIDE DEF p
  <2>7. Weight(ts, "arguments", p) < Weight(ts, "arguments", i)
    BY <1>0, <2>2, <2>5, SmallerWeight
  <2>8. HasNames(ts, p, b) /\ b.next \in Nat /\ b.next >= p /\ b.nodes \in Seq(Nodes(ts))
    BY <1>0, <2>5, <2>7, AnswersAre DEF CallsRead
  <2> DEFINE e == b.next
  <2>9. e \in Nat /\ p <= e /\ r.next = e /\ SignalsReadBy(b.nodes) = NamesFrom(ts, p, e)
    BY <2>4, <2>5, <2>8 DEF HasNames
  <2> HIDE DEF e
  <2>10. SignalsReadBy(a.nodes) = NamesFrom(ts, i, p)
    BY <2>2, <2>6
  <2> QED
    BY <2>2, <2>4, <2>5, <2>8, <2>9, <2>10, JoinedReads
<1> QED
  BY <1>3, <1>4, ArgumentsAre

\* The name of a function is no signal, and neither are its parentheses.
LEMMA CallReads ==
  ASSUME NEW ts, Len(ts) \in Nat, NEW f, IsParse(ts, f), NEW i \in Nat, i <= Len(ts),
         TokenAt(ts, i + 1) = "(",
         CallsRead(f, ts, Weight(ts, "primary", i)), NEW r \in FunctionCall(ts, i, f)
  PROVE  HasNames(ts, i, r)
<1>0. {"primary", "arguments"} \subseteq Rules
  BY DEF Rules
<1>1. PICK q \in IF TokenAt(ts, i + 2) = ")" THEN Made(<<>>, i + 3) ELSE f[<<"arguments", i + 2>>] :
        /\ q \in Results(ts)
        /\ r.nodes = Append(q.nodes, Node("call", ts[i], q.count)) /\ r.next = q.next
  BY CallIsOf DEF CallOf
<1>2. q.nodes \in Seq(Nodes(ts)) /\ q.next \in Nat /\ q.count \in Nat
  BY <1>1 DEF Results
<1> DEFINE p == i + 1
           s == i + 2
           t == i + 3
           node == Node("call", ts[i], q.count)
<1>3. p \in Nat /\ s \in Nat /\ t \in Nat /\ s > i /\ p > i /\ s = p + 1 /\ t = s + 1 /\ p = i + 1
  OBVIOUS
<1>4. ~IsName(ts, i) /\ ~IsName(ts, p)
  <2>1. TokenAt(ts, p) \in Marks
    BY DEF Marks
  <2> QED
    BY <2>1, MarksAreNoNames
<1>5. node \in Nodes(ts) /\ node.op # "signal"
  <2>1. TokenAt(ts, i) = ts[i]
    BY DEF TokenAt
  <2>2. ts[i] \in Texts(ts) /\ "call" \in Texts(ts)
    BY <2>1, Tokens
  <2> QED
    BY <1>2, <2>2 DEF Node, Nodes
<1>6. r.nodes = Append(q.nodes, node) /\ r.next = q.next
  BY <1>1
<1>7. q \in IF TokenAt(ts, s) = ")" THEN Made(<<>>, t) ELSE f[<<"arguments", s>>]
  BY <1>1
<1> HIDE DEF node, p, s, t
<1>8. HasNames(ts, s, q) /\ q.next \in Nat /\ q.next > s
  <2>1. CASE TokenAt(ts, s) = ")"
    <3>1. q.nodes = <<>> /\ q.next = t
      BY <1>7, <2>1 DEF Made
    <3>2. ~IsName(ts, s)
      BY <2>1, MarksAreNoNames DEF Marks
    <3>3. NamesFrom(ts, s, t) = {}
      BY <1>3, <3>2, OneName
    <3>4. t > s
      BY <1>3
    <3> QED
      BY <1>3, <3>1, <3>3, <3>4, NoSignals DEF HasNames
  <2>2. CASE TokenAt(ts, s) # ")"
    <3>1. q \in f[<<"arguments", s>>]
      BY <1>7, <2>2
    <3>2. Weight(ts, "arguments", s) < Weight(ts, "primary", i)
      BY <1>0, <1>3, SmallerWeight
    <3>3. "arguments" \notin {"terms", "factors"}
      OBVIOUS
    <3> QED
      BY <1>0, <1>3, <3>1, <3>2, <3>3, AnswersAre DEF CallsRead
  <2> QED
    BY <2>1, <2>2
<1>9. HasNames(ts, s, r)
  BY <1>2, <1>3, <1>5, <1>6, <1>8, NodeReads
<1> DEFINE n == q.next
<1>10. n \in Nat /\ n > s /\ r.next = n
  BY <1>6, <1>8
<1> HIDE DEF n
<1>11. HasNames(ts, p, r)
  <2>1. n > p
    BY <1>3, <1>10
  <2> QED
    BY <1>3, <1>4, <1>9, <1>10, <2>1, ReadsBefore
<1>12. n > i
  BY <1>3, <1>10
<1> QED
  BY <1>3, <1>4, <1>10, <1>11, <1>12, ReadsBefore

LEMMA LeafReads ==
  ASSUME NEW ts, Len(ts) \in Nat, NEW i \in Nat, i <= Len(ts), NEW op \in {"number", "signal"},
         op = "number" => IsNumber(TokenAt(ts, i)), op = "signal" => IsName(ts, i),
         NEW r \in WithNode(Made(<<>>, i + 1), op, TokenAt(ts, i), 0)
  PROVE  HasNames(ts, i, r)
<1> DEFINE n == i + 1
           t == TokenAt(ts, i)
           node == Node(op, t, 0)
           none == <<>>
<1>1. n \in Nat
  OBVIOUS
<1>2. NamesFrom(ts, i, n) = IF IsName(ts, i) THEN {t} ELSE {}
  BY OneName
<1>3. t \in Texts(ts) /\ op \in Texts(ts) /\ none \in Seq(Nodes(ts)) /\ r \in WithNode(Made(none, n), op, t, 0)
  <2>1. t \in Texts(ts) /\ {"", "negate", "number", "signal", "call"} \subseteq Texts(ts)
    BY Tokens
  <2>2. op \in {"", "negate", "number", "signal", "call"}
    OBVIOUS
  <2>3. op \in Texts(ts)
    BY <2>1, <2>2
  <2>4. none \in Seq(Nodes(ts))
    OBVIOUS
  <2>5. r \in WithNode(Made(none, n), op, t, 0)
    OBVIOUS
  <2> QED
    BY ONLY <2>1, <2>3, <2>4, <2>5
<1>4. ~IsName(ts, i) <=> op = "number"
  <2>1. op = "number" => ~IsName(ts, i)
    BY MarksAreNoNames
  <2> QED
    BY <2>1
<1> HIDE DEF n, t
<1>5. r.nodes = Append(none, node) /\ r.next = n
  BY <1>1, <1>3, LeafIs
<1>6. node \in Nodes(ts) /\ node.op = op /\ node.at = t
  BY <1>3 DEF Node, Nodes
<1>7. SignalsReadBy(none) = {}
  BY NoSignals
<1> HIDE DEF node, none
<1> DEFINE N == Nodes(ts)
<1>8. none \in Seq(N) /\ node \in N
  BY <1>3, <1>6
<1> HIDE DEF N
<1>9. SignalsReadBy(Append(none, node)) = SignalsReadBy(none) \cup IF node.op = "signal" THEN {node.at} ELSE {}
  BY <1>8, SignalsAppended
<1> QED
  BY <1>2, <1>4, <1>5, <1>6, <1>7, <1>9 DEF HasNames

LEMMA PrimaryReads ==
  ASSUME NEW ts, Len(ts) \in Nat, NEW f, IsParse(ts, f), NEW i \in Nat,
         CallsRead(f, ts, Weight(ts, "primary", i)), NEW r \in Primary(ts, i, f)
  PROVE  HasNames(ts, i, r)
<1> DEFINE t == TokenAt(ts, i)
<1>0. {"primary", "expression"} \subseteq Rules /\ i + 1 \in Nat /\ i + 1 > i
  BY DEF Rules
<1>1. ~IsNumber("end") /\ ~IsIdentifier("end") /\ "end" # "("
  BY DEF IsNumber, IsIdentifier, NumberTokens, Marks
<1>2. i > Len(ts) => t = "end"
  BY Tokens
<1>3. \A x : IsIdentifier(x) => ~IsNumber(x) /\ x # "("
  BY DEF IsIdentifier, Marks
<1>4. ~IsNumber("(")
  BY DEF IsNumber, NumberTokens
<1>5. i <= Len(ts)
  <2> SUFFICES ASSUME i > Len(ts) PROVE FALSE
    OBVIOUS
  <2>1. t = "end"
    BY <1>2
  <2> HIDE DEF t
  <2>2. Primary(ts, i, f) = {}
    BY <1>1, <2>1 DEF Primary, t
  <2> QED
    BY <2>2
<1> HIDE DEF t
<1>7. CASE IsNumber(t)
  <2>1. r \in WithNode(Made(<<>>, i + 1), "number", TokenAt(ts, i), 0)
    <3>1. ~IsIdentifier(t) /\ t # "("
      BY <1>3, <1>4, <1>7
    <3> QED
      BY <1>7, <3>1 DEF Primary, t
  <2> QED
    BY <1>5, <1>7, <2>1, LeafReads DEF t
<1>8. CASE IsIdentifier(t) /\ TokenAt(ts, i + 1) # "("
  <2>1. r \in WithNode(Made(<<>>, i + 1), "signal", TokenAt(ts, i), 0)
    BY <1>3, <1>8 DEF Primary, t
  <2>2. IsName(ts, i)
    BY <1>8 DEF IsName, t
  <2> QED
    BY <1>5, <2>1, <2>2, LeafReads
<1>9. CASE IsIdentifier(t) /\ TokenAt(ts, i + 1) = "("
  <2>1. r \in FunctionCall(ts, i, f)
    BY <1>3, <1>9 DEF Primary, t
  <2> QED
    BY <1>5, <1>9, <2>1, CallReads
<1>10. CASE t = "("
  <2> DEFINE calls == f[<<"expression", i + 1>>]
  <2>1. r \in Closed(calls, ts)
    <3>1. ~IsNumber(t) /\ ~IsIdentifier(t)
      BY <1>3, <1>4, <1>10
    <3> HIDE DEF calls
    <3> QED
      BY <1>10, <3>1 DEF Primary, t, calls
  <2>2. Weight(ts, "expression", i + 1) < Weight(ts, "primary", i)
    BY <1>0, <1>5, SmallerWeight
  <2>3. /\ calls \subseteq Results(ts)
        /\ \A a \in calls : a.next \in Nat /\ a.next > i + 1 /\ HasNames(ts, i + 1, a)
    BY <1>0, <2>2, AnswersAre DEF CallsRead
  <2> HIDE DEF calls
  <2>4. IsClosed(r, calls, ts)
    BY <2>1, <2>3, ClosedIs
  <2>5. PICK a \in calls : TokenAt(ts, a.next) = ")" /\ r.nodes = a.nodes /\ r.next = a.next + 1
    BY <2>4 DEF IsClosed
  <2> DEFINE n == a.next
             p == i + 1
  <2>6. /\ n \in Nat /\ p \in Nat /\ p <= n /\ r.next = n + 1 /\ n + 1 > i /\ p = i + 1
        /\ SignalsReadBy(r.nodes) = NamesFrom(ts, p, n)
    BY <2>3, <2>5 DEF HasNames
  <2>7. TokenAt(ts, n) \in Marks /\ TokenAt(ts, i) \in Marks
    BY <1>10, <2>5 DEF Marks, t
  <2> HIDE DEF n, p
  <2>8. NamesFrom(ts, p, n + 1) = NamesFrom(ts, p, n)
    BY <2>6, <2>7, MarksAreNoNames, LastIsNoName
  <2>9. HasNames(ts, i + 1, r)
    BY <2>6, <2>8 DEF HasNames
  <2>10. ~IsName(ts, i)
    BY <2>7, MarksAreNoNames
  <2>11. r.next \in Nat /\ r.next > i
    BY <2>6
  <2> QED
    BY <2>9, <2>10, <2>11, ReadsBefore
<1>11. CASE ~IsNumber(t) /\ ~IsIdentifier(t) /\ t # "("
  <2>1. Primary(ts, i, f) = {}
    BY <1>11 DEF Primary, t
  <2> QED
    BY <2>1
<1> QED
  BY <1>7, <1>8, <1>9, <1>10, <1>11

\* What a method returns has the names it read if the calls it makes have.
LEMMA RuleReads ==
  ASSUME NEW ts, Len(ts) \in Nat, NEW f, IsParse(ts, f), NEW rule \in Rules, NEW i \in Nat,
         CallsRead(f, ts, Weight(ts, rule, i)), NEW r \in f[<<rule, i>>]
  PROVE  HasNames(ts, i, r)
<1>0. r \in ParseFrom(ts, f, rule, i)
  BY AnswersAre
<1>1. CASE rule = "expression"
  <2>1. i <= Len(ts) => \A j \in Nat : j > i => Weight(ts, "terms", j) < Weight(ts, "expression", i)
    BY SmallerWeight DEF Rules
  <2>2. r \in Followed(f[<<"term", i>>], f, "terms")
    BY <1>0, <1>1 DEF ParseFrom, Sum
  <2>3. /\ "term" \in Rules \ {"terms", "factors"} /\ "terms" \in {"terms", "factors"}
        /\ "expression" \in Rules /\ Below("term") < Below("expression")
    BY DEF Rules, Below
  <2>4. Weight(ts, "term", i) < Weight(ts, "expression", i)
    BY <2>3, SmallerWeight
  <2>5. CallsRead(f, ts, Weight(ts, "expression", i))
    BY <1>1
  <2> QED
    BY <2>1, <2>2, <2>3, <2>4, <2>5, FirstThenReads
<1>2. CASE rule = "term"
  <2>1. i <= Len(ts) => \A j \in Nat : j > i => Weight(ts, "factors", j) < Weight(ts, "term", i)
    BY SmallerWeight DEF Rules
  <2>2. r \in Followed(f[<<"unary", i>>], f, "factors")
    BY <1>0, <1>2 DEF ParseFrom, Product
  <2>3. /\ "unary" \in Rules \ {"terms", "factors"} /\ "factors" \in {"terms", "factors"}
        /\ "term" \in Rules /\ Below("unary") < Below("term")
    BY DEF Rules, Below
  <2>4. Weight(ts, "unary", i) < Weight(ts, "term", i)
    BY <2>3, SmallerWeight
  <2>5. CallsRead(f, ts, Weight(ts, "term", i))
    BY <1>2
  <2> QED
    BY <2>1, <2>2, <2>3, <2>4, <2>5, FirstThenReads
<1>3. CASE rule = "unary"
  <2>1. r \in Unary(ts, i, f) /\ CallsRead(f, ts, Weight(ts, "unary", i))
    BY <1>0, <1>3 DEF ParseFrom
  <2> QED
    BY <2>1, UnaryReads
<1>4. CASE rule = "primary"
  <2>1. r \in Primary(ts, i, f) /\ CallsRead(f, ts, Weight(ts, "primary", i))
    BY <1>0, <1>4 DEF ParseFrom
  <2> QED
    BY <2>1, PrimaryReads
<1>5. CASE rule = "arguments"
  <2>1. r \in Arguments(ts, i, f) /\ CallsRead(f, ts, Weight(ts, "arguments", i))
    BY <1>0, <1>5 DEF ParseFrom
  <2> QED
    BY <2>1, ArgumentsRead
<1>6. CASE rule = "terms"
  <2> DEFINE ops == {"+", "-"}
  <2>1. r \in Repeated(ts, i, f, ops, "term", "terms") /\ CallsRead(f, ts, Weight(ts, "terms", i))
    BY <1>0, <1>6 DEF ParseFrom
  <2>2. /\ ops \subseteq {"+", "-", "*", "/"} /\ "term" \in {"term", "unary"}
        /\ "terms" \in {"terms", "factors"}
    OBVIOUS
  <2> HIDE DEF ops
  <2> QED
    BY <2>1, <2>2, RepeatedReads
<1>7. CASE rule = "factors"
  <2> DEFINE ops == {"*", "/"}
  <2>1. r \in Repeated(ts, i, f, ops, "unary", "factors") /\ CallsRead(f, ts, Weight(ts, "factors", i))
    BY <1>0, <1>7 DEF ParseFrom
  <2>2. /\ ops \subseteq {"+", "-", "*", "/"} /\ "unary" \in {"term", "unary"}
        /\ "factors" \in {"terms", "factors"}
    OBVIOUS
  <2> HIDE DEF ops
  <2> QED
    BY <2>1, <2>2, RepeatedReads
<1> QED
  BY <1>1, <1>2, <1>3, <1>4, <1>5, <1>6, <1>7 DEF Rules

LEMMA ParseReads ==
  ASSUME NEW ts, Len(ts) \in Nat, NEW f, IsParse(ts, f), NEW rule \in Rules, NEW i \in Nat,
         NEW r \in f[<<rule, i>>]
  PROVE  HasNames(ts, i, r)
<1> DEFINE S == {n \in Nat : CallsRead(f, ts, n)}
           all == 5 * Len(ts) + 10
<1>1. 0 \in S
  <2>1. \A q \in Rules, j \in Nat : ~(Weight(ts, q, j) < 0)
    BY WeightIsBounded
  <2> QED
    BY <2>1 DEF CallsRead
<1>2. \A n \in Nat : n \in S => n + 1 \in S
  <2> SUFFICES ASSUME NEW n \in Nat, CallsRead(f, ts, n) PROVE CallsRead(f, ts, n + 1)
    OBVIOUS
  <2> SUFFICES ASSUME NEW q \in Rules, NEW j \in Nat, Weight(ts, q, j) < n + 1, NEW a \in f[<<q, j>>]
               PROVE  HasNames(ts, j, a)
    BY DEF CallsRead
  <2> DEFINE w == Weight(ts, q, j)
  <2>0. w \in Nat /\ \A o \in Rules, k \in Nat : Weight(ts, o, k) \in Nat
    BY WeightIsBounded
  <2>1. \A o \in Rules, k \in Nat : Weight(ts, o, k) < w => Weight(ts, o, k) < n
    <3> HIDE DEF w, S, all
    <3>1. w < n + 1
      BY DEF w
    <3>2. TAKE o \in Rules, k \in Nat
    <3>3. Weight(ts, o, k) \in Nat
      BY <2>0
    <3> QED
      BY <2>0, <3>1, <3>3
  <2>2. CallsRead(f, ts, w)
    <3> HIDE DEF w
    <3> QED
      BY <2>1 DEF CallsRead
  <2> QED
    BY <2>2, RuleReads
<1>3. CallsRead(f, ts, all)
  <2> HIDE DEF S
  <2>1. Nat \subseteq S
    BY <1>1, <1>2, AllNaturals
  <2>2. all \in Nat
    OBVIOUS
  <2> QED
    BY <2>1, <2>2 DEF S
<1>4. Weight(ts, rule, i) < all
  BY WeightIsBounded
<1> HIDE DEF all
<1> QED
  BY <1>3, <1>4 DEF CallsRead

\* The names that are read, and those that are named.
LEMMA NamesReadAre ==
  ASSUME NEW N, NEW nodes \in Seq(N)
  PROVE  ToSet(NamesRead(nodes)) = SignalsReadBy(nodes)
<1> DEFINE signals == {m \in ToSet(nodes) : m.op = "signal"}
           kept == Kept(nodes, signals)
<1>1. ToSet(kept) = ToSet(nodes) \cap signals
  <2> HIDE DEF signals
  <2> QED
    BY KeptHolds
<1>2. NamesRead(nodes) = [i \in DOMAIN kept |-> kept[i].at]
  BY DEF NamesRead
<1>3. \A x : x \in ToSet(kept) <=> \E i \in DOMAIN kept : kept[i] = x
  BY DEF ToSet
<1>4. \A x : x \in ToSet(kept) <=> \E i \in DOMAIN nodes : nodes[i] = x /\ x.op = "signal"
  BY <1>1 DEF ToSet
<1> HIDE DEF kept
<1>5. ASSUME NEW n \in ToSet(NamesRead(nodes)) PROVE n \in SignalsReadBy(nodes)
  <2>1. PICK i \in DOMAIN kept : n = kept[i].at
    BY <1>2 DEF ToSet
  <2>2. PICK k \in DOMAIN nodes : nodes[k] = kept[i] /\ nodes[k].op = "signal"
    BY <1>3, <1>4, <2>1
  <2> QED
    BY <2>1, <2>2 DEF SignalsReadBy
<1>6. ASSUME NEW n \in SignalsReadBy(nodes) PROVE n \in ToSet(NamesRead(nodes))
  <2>1. PICK k \in DOMAIN nodes : nodes[k].op = "signal" /\ n = nodes[k].at
    BY DEF SignalsReadBy
  <2>2. PICK i \in DOMAIN kept : kept[i] = nodes[k]
    BY <1>3, <1>4, <2>1
  <2> QED
    BY <1>2, <2>1, <2>2 DEF ToSet
<1> QED
  BY <1>5, <1>6

LEMMA NamesInAre ==
  ASSUME NEW T, NEW ts \in Seq(T)
  PROVE  NamesIn(ts) = NamesFrom(ts, 1, Len(ts) + 1)
<1> DEFINE n == Len(ts)
<1>1. n \in Nat /\ DOMAIN ts = 1..n /\ (n + 1) - 1 = n
  OBVIOUS
<1>2. \A k \in 1..n : TokenAt(ts, k) = ts[k]
  BY DEF TokenAt
<1> HIDE DEF n
<1> QED
  BY <1>1, <1>2 DEF NamesIn, NamesFrom, IsName, n

\* The tree of a formula reads the names the formula has, each of them and no others.
THEOREM TreeReadsNames ==
  ASSUME NEW T, NEW ts \in Seq(T), NEW nodes \in Parsed(ts)
  PROVE  ToSet(NamesRead(nodes)) = NamesIn(ts)
<1>0. Len(ts) \in Nat /\ Len(ts) + 1 \in Nat
  OBVIOUS
<1> DEFINE parse == CHOOSE f : f = [p \in Rules \X Nat |-> ParseFrom(ts, f, p[1], p[2])]
<1>1. IsParse(ts, parse)
  <2>1. \E f : f = [p \in Rules \X Nat |-> ParseFrom(ts, f, p[1], p[2])]
    BY <1>0, ParseExists DEF IsParse
  <2> QED
    BY <2>1 DEF IsParse
<1>2. Parsed(ts) = {r.nodes : r \in {q \in parse[<<"expression", 1>>] : q.next = Len(ts) + 1}}
  BY DEF Parsed
<1> HIDE DEF parse
<1>3. PICK r \in parse[<<"expression", 1>>] : r.next = Len(ts) + 1 /\ nodes = r.nodes
  BY <1>2
<1>4. "expression" \in Rules /\ 1 \in Nat
  BY DEF Rules
<1>5. HasNames(ts, 1, r) /\ nodes \in Seq(Nodes(ts))
  BY <1>0, <1>1, <1>3, <1>4, ParseReads, AnswersAre
<1> QED
  BY <1>3, <1>5, NamesReadAre, NamesInAre DEF HasNames

-----------------------------------------------------------------------------
(* A formula has one meaning. *)

\* There is one at most.
One(S) == \A a, b \in S : a = b

\* What is made of one result is one.
LEMMA OneIsMade ==
  /\ \A nodes, n : One(Made(nodes, n))
  /\ \A results, op, at, operands : One(results) => One(WithNode(results, op, at, operands))
  /\ \A results, ts : One(results) => One(Closed(results, ts))
<1>1. \A nodes, n : One(Made(nodes, n))
  BY DEF One, Made
<1>2. ASSUME NEW results, NEW op, NEW at, NEW operands, One(results)
      PROVE  One(WithNode(results, op, at, operands))
  <2> DEFINE e(r) == [r EXCEPT !.nodes = Append(@, Node(op, at, operands))]
  <2>1. WithNode(results, op, at, operands) = {e(r) : r \in results}
    BY DEF WithNode
  <2> HIDE DEF e
  <2> QED
    BY <1>2, <2>1 DEF One
<1>3. ASSUME NEW results, NEW ts, One(results) PROVE One(Closed(results, ts))
  <2> DEFINE e(r) == [r EXCEPT !.next = @ + 1]
  <2>1. Closed(results, ts) = {e(r) : r \in {q \in results : TokenAt(ts, q.next) = ")"}}
    BY DEF Closed, Skipped
  <2> HIDE DEF e
  <2> QED
    BY <1>3, <2>1 DEF One
<1> QED
  BY <1>1, <1>2, <1>3

LEMMA OneIsFollowed ==
  ASSUME NEW results, One(results), NEW f, NEW rule, \A a \in results : One(f[<<rule, a.next>>])
  PROVE  One(Followed(results, f, rule))
<1> DEFINE e(a, b) == [b EXCEPT !.nodes = a.nodes \o @]
           own(a) == {e(a, b) : b \in f[<<rule, a.next>>]}
<1>1. Followed(results, f, rule) = UNION {own(a) : a \in results}
  BY DEF Followed
<1>2. \A a \in results : One(own(a))
  <2> HIDE DEF e
  <2> QED
    BY DEF One
<1> HIDE DEF own
<1> QED
  BY <1>1, <1>2 DEF One

\* The calls closer to the end than a distance have one result at most.
CallsOne(f, ts, w) == \A rule \in Rules, i \in Nat : Weight(ts, rule, i) < w => One(f[<<rule, i>>])

LEMMA OneOfParts ==
  ASSUME NEW ts, Len(ts) \in Nat, NEW f, IsParse(ts, f), NEW w, CallsOne(f, ts, w), NEW i \in Nat,
         NEW first \in Rules \ {"terms", "factors"}, NEW rest \in {"terms", "factors"},
         Weight(ts, first, i) < w, i <= Len(ts) => \A j \in Nat : j > i => Weight(ts, rest, j) < w
  PROVE  One(Followed(f[<<first, i>>], f, rest))
<1>0. rest \in Rules /\ first \in Rules
  BY DEF Rules
<1>1. \A a \in f[<<first, i>>] : a.next \in Nat /\ i <= Len(ts) /\ a.next > i
  BY <1>0, AnswersAre
<1>2. \A a \in f[<<first, i>>] : One(f[<<rest, a.next>>])
  BY <1>0, <1>1 DEF CallsOne
<1>3. One(f[<<first, i>>])
  BY <1>0 DEF CallsOne
<1> QED
  BY <1>2, <1>3, OneIsFollowed

LEMMA OneIsRepeated ==
  ASSUME NEW ts, Len(ts) \in Nat, NEW f, IsParse(ts, f), NEW k \in Nat,
         NEW operand \in {"term", "unary"}, NEW rule \in {"terms", "factors"},
         CallsOne(f, ts, Weight(ts, rule, k)), NEW ops, ops \subseteq {"+", "-", "*", "/"}
  PROVE  One(Repeated(ts, k, f, ops, operand, rule))
<1>0. /\ rule \in Rules /\ operand \in Rules /\ operand \notin {"terms", "factors"} /\ k + 1 \in Nat
  BY DEF Rules
<1>1. CASE TokenAt(ts, k) \notin ops
  BY <1>1, OneIsMade DEF Repeated
<1>2. CASE TokenAt(ts, k) \in ops
  <2> DEFINE m == k + 1
             calls == f[<<operand, m>>]
             made == WithNode(calls, TokenAt(ts, k), "", 2)
  <2>1. k <= Len(ts)
    BY <1>2, OperatorNode
  <2>2. \A other \in Rules, j \in Nat : j > k => Weight(ts, other, j) < Weight(ts, rule, k)
    BY <1>0, <2>1, SmallerWeight
  <2>3. m \in Nat /\ m > k
    OBVIOUS
  <2>4. Repeated(ts, k, f, ops, operand, rule) = Followed(made, f, rule)
    BY <1>2 DEF Repeated
  <2> HIDE DEF m
  <2>5. /\ One(calls) /\ calls \subseteq Results(ts)
        /\ \A a \in calls : a.next \in Nat /\ a.next > m
    BY <1>0, <2>2, <2>3, AnswersAre DEF CallsOne
  <2> DEFINE node == Node(TokenAt(ts, k), "", 2)
  <2> HIDE DEF calls
  <2>6. One(made)
    BY <2>5, OneIsMade
  <2>7. \A a \in made : HasOneMore(a, calls, node)
    BY <2>5, WithNodeIs
  <2> HIDE DEF made, node
  <2>8. \A a \in made : One(f[<<rule, a.next>>])
    <3> TAKE a \in made
    <3>1. PICK b \in calls : a.next = b.next
      BY <2>7 DEF HasOneMore
    <3> DEFINE n == b.next
    <3>2. n \in Nat /\ n > m /\ a.next = n
      BY <2>5, <3>1
    <3> HIDE DEF n
    <3>3. n > k
      BY <2>3, <3>2
    <3> QED
      BY <1>0, <2>2, <3>2, <3>3 DEF CallsOne
  <2> QED
    BY <2>4, <2>6, <2>8, OneIsFollowed
<1> QED
  BY <1>1, <1>2

LEMMA OneIsSigned ==
  ASSUME NEW ts, Len(ts) \in Nat, NEW f, IsParse(ts, f), NEW i \in Nat,
         CallsOne(f, ts, Weight(ts, "unary", i))
  PROVE  One(Unary(ts, i, f))
<1>0. {"unary", "primary"} \subseteq Rules /\ i + 1 \in Nat /\ i + 1 > i
  BY DEF Rules
<1>1. CASE TokenAt(ts, i) \in {"+", "-"}
  <2>1. i <= Len(ts)
    <3>1. {"+", "-"} \subseteq {"+", "-", "*", "/"}
      OBVIOUS
    <3> QED
      BY <1>1, <3>1, OperatorNode
  <2>2. Weight(ts, "unary", i + 1) < Weight(ts, "unary", i)
    BY <1>0, <2>1, SmallerWeight
  <2>3. One(f[<<"unary", i + 1>>])
    BY <1>0, <2>2 DEF CallsOne
  <2> QED
    BY <1>1, <2>3, OneIsMade DEF Unary
<1>2. CASE TokenAt(ts, i) \notin {"+", "-"}
  <2>1. Below("primary") < Below("unary")
    BY DEF Below
  <2>2. One(f[<<"primary", i>>])
    BY <1>0, <2>1, SmallerWeight DEF CallsOne
  <2> QED
    BY <1>2, <2>2 DEF Unary
<1> QED
  BY <1>1, <1>2

LEMMA OneListOfArguments ==
  ASSUME NEW ts, Len(ts) \in Nat, NEW f, IsParse(ts, f), NEW i \in Nat,
         CallsOne(f, ts, Weight(ts, "arguments", i))
  PROVE  One(Arguments(ts, i, f))
<1> DEFINE first == f[<<"expression", i>>]
           e(a, b) == [b EXCEPT !.nodes = a.nodes \o @]
           calls(a) == IF TokenAt(ts, a.next) = "," THEN f[<<"arguments", a.next + 1>>] ELSE {}
           more(a) == {e(a, b) : b \in calls(a)}
           all == Closed(first, ts) \cup UNION {more(a) : a \in first}
           one(r) == [r EXCEPT !.count = @ + 1]
<1>0. {"expression", "arguments"} \subseteq Rules /\ Below("expression") < Below("arguments")
  BY DEF Rules, Below
<1>1. One(first) /\ \A a \in first : a.next \in Nat /\ a.next > i /\ i <= Len(ts)
  <2>1. Weight(ts, "expression", i) < Weight(ts, "arguments", i)
    BY <1>0, SmallerWeight
  <2> QED
    BY <1>0, <2>1, AnswersAre DEF CallsOne
<1>2. Arguments(ts, i, f) = {one(r) : r \in all}
  BY DEF Arguments
<1>3. \A a \in first : One(calls(a))
  <2> TAKE a \in first
  <2> DEFINE m == a.next + 1
  <2>1. m \in Nat /\ m > i /\ i <= Len(ts)
    BY <1>1
  <2>2. calls(a) = IF TokenAt(ts, a.next) = "," THEN f[<<"arguments", m>>] ELSE {}
    OBVIOUS
  <2> HIDE DEF m, calls
  <2>3. One(f[<<"arguments", m>>])
    BY <1>0, <2>1, SmallerWeight DEF CallsOne
  <2> QED
    BY <2>2, <2>3 DEF One
<1>4. \A a \in first : calls(a) # {} => TokenAt(ts, a.next) = ","
  OBVIOUS
<1>5. Closed(first, ts) # {} => \E a \in first : TokenAt(ts, a.next) = ")"
  <2> HIDE DEF first
  <2> QED
    BY DEF Closed, Skipped
<1>6. One(Closed(first, ts))
  BY <1>1, OneIsMade
<1> HIDE DEF calls, first, e
<1>7. \A a \in first : One(more(a)) /\ (more(a) # {} => TokenAt(ts, a.next) = ",")
  BY <1>3, <1>4 DEF One
<1> HIDE DEF more
<1>8. One(all)
  <2> DEFINE C == Closed(first, ts)
             X == UNION {more(a) : a \in first}
  <2>1. One(X)
    <3> SUFFICES ASSUME NEW x \in X, NEW y \in X PROVE x = y
      BY DEF One
    <3>1. PICK a \in first : x \in more(a)
      OBVIOUS
    <3>2. PICK b \in first : y \in more(b)
      OBVIOUS
    <3>3. a = b /\ One(more(a))
      BY <1>1, <1>7, <3>1, <3>2 DEF One
    <3> QED
      BY <3>1, <3>2, <3>3 DEF One
  <2>2. C = {} \/ X = {}
    <3> SUFFICES ASSUME C # {}, X # {} PROVE FALSE
      OBVIOUS
    <3>1. PICK a \in first : TokenAt(ts, a.next) = ")"
      BY <1>5
    <3>2. PICK b \in first : more(b) # {}
      OBVIOUS
    <3>3. TokenAt(ts, b.next) = ","
      BY <1>7, <3>2
    <3>4. a = b
      BY <1>1, <3>1, <3>2 DEF One
    <3> QED
      BY <3>1, <3>3, <3>4
  <2>3. all = C \cup X /\ One(C)
    BY <1>6
  <2> HIDE DEF C, X, all
  <2> QED
    BY <2>1, <2>2, <2>3 DEF One
<1> HIDE DEF all, one
<1> QED
  BY <1>2, <1>8 DEF One

LEMMA OnePrimary ==
  ASSUME NEW ts, Len(ts) \in Nat, NEW f, IsParse(ts, f), NEW i \in Nat,
         CallsOne(f, ts, Weight(ts, "primary", i))
  PROVE  One(Primary(ts, i, f))
<1> DEFINE t == TokenAt(ts, i)
<1>0. {"primary", "expression", "arguments"} \subseteq Rules
  BY DEF Rules
<1>1. ~IsNumber("end") /\ ~IsIdentifier("end") /\ "end" # "("
  BY DEF IsNumber, IsIdentifier, NumberTokens, Marks
<1>2. i > Len(ts) => t = "end"
  BY Tokens
<1>3. i <= Len(ts) => \A rule \in Rules, j \in Nat : j > i => One(f[<<rule, j>>])
  BY <1>0, SmallerWeight DEF CallsOne
<1>4. One(WithNode(Made(<<>>, i + 1), "number", t, 0)) /\ One(WithNode(Made(<<>>, i + 1), "signal", t, 0))
  BY OneIsMade
<1>5. One({})
  BY DEF One
<1>6. IsIdentifier(t) => One(FunctionCall(ts, i, f))
  <2> SUFFICES ASSUME IsIdentifier(t) PROVE One(FunctionCall(ts, i, f))
    OBVIOUS
  <2> DEFINE m == i + 2
             arguments == IF TokenAt(ts, m) = ")" THEN Made(<<>>, i + 3) ELSE f[<<"arguments", m>>]
             call(r) == WithNode(Made(r.nodes, r.next), "call", ts[i], r.count)
  <2>1. m \in Nat /\ m > i /\ i <= Len(ts)
    BY <1>1, <1>2
  <2>2. FunctionCall(ts, i, f) = UNION {call(r) : r \in arguments}
    BY DEF FunctionCall
  <2> HIDE DEF m
  <2>3. One(arguments)
    BY <1>0, <1>3, <2>1, OneIsMade
  <2>4. \A r : One(call(r))
    BY OneIsMade
  <2> HIDE DEF arguments, call
  <2> QED
    BY <2>2, <2>3, <2>4 DEF One
<1>7. t = "(" => One(Closed(f[<<"expression", i + 1>>], ts))
  <2> DEFINE m == i + 1
  <2>1. m \in Nat /\ m > i
    OBVIOUS
  <2> HIDE DEF m, t
  <2>2. t = "(" => One(f[<<"expression", m>>])
    BY <1>0, <1>1, <1>2, <1>3, <2>1
  <2>3. t = "(" => One(Closed(f[<<"expression", m>>], ts))
    BY <2>2, OneIsMade
  <2> QED
    BY <2>3 DEF m
<1>8. \/ Primary(ts, i, f) = WithNode(Made(<<>>, i + 1), "number", t, 0)
      \/ Primary(ts, i, f) = WithNode(Made(<<>>, i + 1), "signal", t, 0)
      \/ IsIdentifier(t) /\ Primary(ts, i, f) = FunctionCall(ts, i, f)
      \/ t = "(" /\ Primary(ts, i, f) = Closed(f[<<"expression", i + 1>>], ts)
      \/ Primary(ts, i, f) = {}
  BY DEF Primary
<1> HIDE DEF t
<1> QED
  BY <1>4, <1>5, <1>6, <1>7, <1>8

\* A method has one result at most if the calls it makes have.
LEMMA RuleHasOne ==
  ASSUME NEW ts, Len(ts) \in Nat, NEW f, IsParse(ts, f), NEW rule \in Rules, NEW i \in Nat,
         CallsOne(f, ts, Weight(ts, rule, i))
  PROVE  One(f[<<rule, i>>])
<1>0. f[<<rule, i>>] = ParseFrom(ts, f, rule, i)
  BY AnswersAre
<1>1. CASE rule = "expression"
  <2>1. i <= Len(ts) => \A j \in Nat : j > i => Weight(ts, "terms", j) < Weight(ts, "expression", i)
    BY SmallerWeight DEF Rules
  <2>2. /\ "term" \in Rules \ {"terms", "factors"} /\ "terms" \in {"terms", "factors"}
        /\ "expression" \in Rules /\ Below("term") < Below("expression")
    BY DEF Rules, Below
  <2>3. Weight(ts, "term", i) < Weight(ts, "expression", i)
    BY <2>2, SmallerWeight
  <2>4. CallsOne(f, ts, Weight(ts, "expression", i))
    BY <1>1
  <2>5. One(Followed(f[<<"term", i>>], f, "terms"))
    BY <2>1, <2>2, <2>3, <2>4, OneOfParts
  <2> QED
    BY <1>0, <1>1, <2>5 DEF ParseFrom, Sum
<1>2. CASE rule = "term"
  <2>1. i <= Len(ts) => \A j \in Nat : j > i => Weight(ts, "factors", j) < Weight(ts, "term", i)
    BY SmallerWeight DEF Rules
  <2>2. /\ "unary" \in Rules \ {"terms", "factors"} /\ "factors" \in {"terms", "factors"}
        /\ "term" \in Rules /\ Below("unary") < Below("term")
    BY DEF Rules, Below
  <2>3. Weight(ts, "unary", i) < Weight(ts, "term", i)
    BY <2>2, SmallerWeight
  <2>4. CallsOne(f, ts, Weight(ts, "term", i))
    BY <1>2
  <2>5. One(Followed(f[<<"unary", i>>], f, "factors"))
    BY <2>1, <2>2, <2>3, <2>4, OneOfParts
  <2> QED
    BY <1>0, <1>2, <2>5 DEF ParseFrom, Product
<1>3. CASE rule = "unary"
  BY <1>0, <1>3, OneIsSigned DEF ParseFrom
<1>4. CASE rule = "primary"
  BY <1>0, <1>4, OnePrimary DEF ParseFrom
<1>5. CASE rule = "arguments"
  BY <1>0, <1>5, OneListOfArguments DEF ParseFrom
<1>6. CASE rule = "terms"
  <2>1. {"+", "-"} \subseteq {"+", "-", "*", "/"} /\ CallsOne(f, ts, Weight(ts, "terms", i))
    BY <1>6
  <2>2. One(Repeated(ts, i, f, {"+", "-"}, "term", "terms"))
    BY <2>1, OneIsRepeated
  <2> QED
    BY <1>0, <1>6, <2>2 DEF ParseFrom
<1>7. CASE rule = "factors"
  <2>1. {"*", "/"} \subseteq {"+", "-", "*", "/"} /\ CallsOne(f, ts, Weight(ts, "factors", i))
    BY <1>7
  <2>2. One(Repeated(ts, i, f, {"*", "/"}, "unary", "factors"))
    BY <2>1, OneIsRepeated
  <2> QED
    BY <1>0, <1>7, <2>2 DEF ParseFrom
<1> QED
  BY <1>1, <1>2, <1>3, <1>4, <1>5, <1>6, <1>7 DEF Rules

\* The parser makes one tree of a formula.
LEMMA ParseHasOne ==
  ASSUME NEW ts, Len(ts) \in Nat, NEW f, IsParse(ts, f), NEW rule \in Rules, NEW i \in Nat
  PROVE  One(f[<<rule, i>>])
<1> DEFINE S == {n \in Nat : CallsOne(f, ts, n)}
           all == 5 * Len(ts) + 10
<1>1. 0 \in S
  <2>1. \A q \in Rules, j \in Nat : ~(Weight(ts, q, j) < 0)
    BY WeightIsBounded
  <2> QED
    BY <2>1 DEF CallsOne
<1>2. \A n \in Nat : n \in S => n + 1 \in S
  <2> SUFFICES ASSUME NEW n \in Nat, CallsOne(f, ts, n) PROVE CallsOne(f, ts, n + 1)
    OBVIOUS
  <2> SUFFICES ASSUME NEW q \in Rules, NEW j \in Nat, Weight(ts, q, j) < n + 1
               PROVE  One(f[<<q, j>>])
    BY DEF CallsOne
  <2> DEFINE w == Weight(ts, q, j)
  <2>0. w \in Nat /\ \A o \in Rules, k \in Nat : Weight(ts, o, k) \in Nat
    BY WeightIsBounded
  <2>1. \A o \in Rules, k \in Nat : Weight(ts, o, k) < w => Weight(ts, o, k) < n
    <3> HIDE DEF w, S, all
    <3>1. w < n + 1
      BY DEF w
    <3>2. TAKE o \in Rules, k \in Nat
    <3>3. Weight(ts, o, k) \in Nat
      BY <2>0
    <3> QED
      BY <2>0, <3>1, <3>3
  <2>2. CallsOne(f, ts, w)
    <3> HIDE DEF w
    <3> QED
      BY <2>1 DEF CallsOne
  <2> QED
    BY <2>2, RuleHasOne
<1>3. CallsOne(f, ts, all)
  <2> HIDE DEF S
  <2>1. Nat \subseteq S
    BY <1>1, <1>2, AllNaturals
  <2>2. all \in Nat
    OBVIOUS
  <2> QED
    BY <2>1, <2>2 DEF S
<1>4. Weight(ts, rule, i) < all
  BY WeightIsBounded
<1> HIDE DEF all
<1> QED
  BY <1>3, <1>4 DEF CallsOne

\* A phrase is a chain of parts with operators between them.
IsChain(read, ts, whole, part, ops) ==
  /\ \A i, j \in Nat : Has(read, whole, i, j) =>
       Has(read, part, i, j) \/ HasSplit(read, ts, i, j, ops, whole, part)
  /\ \A i, j \in Nat : Has(read, part, i, j) => i < j /\ Has(read, whole, i, j)
  /\ \A i, j, k, m \in Nat : Has(read, whole, i, k) /\ ts[k] \in ops /\ m = k + 1 /\ Has(read, part, m, j) =>
       Has(read, whole, i, j)

\* Parts that begin at one token end at one, if no token that could go on from them comes next.
EndOnce(read, ts, part, bad) ==
  \A i, j, k \in Nat : /\ j <= Len(ts) + 1 /\ k <= Len(ts) + 1
                       /\ Has(read, part, i, j) /\ Has(read, part, i, k)
                       /\ TokenAt(ts, j) \notin bad /\ TokenAt(ts, k) \notin bad
                       => j = k

\* The first part of a phrase, and the phrase after it.
BeginsWith(read, ts, whole, part, ops, bad, i, q, j) ==
  /\ Has(read, part, i, q) /\ TokenAt(ts, q) \notin bad
  /\ \/ q = j
     \/ q < j /\ ts[q] \in ops /\ \A m \in Nat : m = q + 1 => Has(read, whole, m, j)
HasFirst(read, ts, whole, part, ops, bad, i, j) ==
  \E q \in Nat : BeginsWith(read, ts, whole, part, ops, bad, i, q, j)

LEMMA FirstPart ==
  ASSUME NEW ts, Len(ts) \in Nat, NEW read, NEW whole, NEW part, NEW ops, NEW bad, ops \cap bad = {},
         IsChain(read, ts, whole, part, ops)
  PROVE  \A i, j \in Nat : j <= Len(ts) + 1 /\ Has(read, whole, i, j) /\ TokenAt(ts, j) \notin bad =>
           HasFirst(read, ts, whole, part, ops, bad, i, j)
<1> DEFINE P(i, j) == j <= Len(ts) + 1 /\ Has(read, whole, i, j) /\ TokenAt(ts, j) \notin bad =>
                        HasFirst(read, ts, whole, part, ops, bad, i, j)
           S == {n \in Nat : \A i, j \in Nat : j < n => P(i, j)}
<1>1. 0 \in S
  OBVIOUS
<1>2. \A n \in Nat : n \in S => n + 1 \in S
  <2> SUFFICES ASSUME NEW n \in Nat, n \in S, NEW i \in Nat, NEW j \in Nat, j < n + 1,
                      j <= Len(ts) + 1, Has(read, whole, i, j), TokenAt(ts, j) \notin bad
               PROVE  HasFirst(read, ts, whole, part, ops, bad, i, j)
    OBVIOUS
  <2>1. CASE Has(read, part, i, j)
    BY <2>1 DEF HasFirst, BeginsWith
  <2>2. CASE HasSplit(read, ts, i, j, ops, whole, part)
    <3>1. PICK k \in i + 1..j - 2 : ts[k] \in ops /\ Has(read, whole, i, k) /\ Has(read, part, k + 1, j)
      BY <2>2 DEF HasSplit
    <3>2. k \in Nat /\ k < j /\ k < n /\ k <= Len(ts) + 1 /\ TokenAt(ts, k) = ts[k] /\ k + 1 \in Nat
      BY DEF TokenAt
    <3>3. HasFirst(read, ts, whole, part, ops, bad, i, k)
      BY <3>1, <3>2
    <3>4. PICK q \in Nat : BeginsWith(read, ts, whole, part, ops, bad, i, q, k)
      BY <3>3 DEF HasFirst
    <3> HIDE DEF S, P
    <3>5. Has(read, part, i, q) /\ TokenAt(ts, q) \notin bad
      BY <3>4 DEF BeginsWith
    <3>6. CASE q = k
      <4>1. \A m \in Nat : m = q + 1 => Has(read, whole, m, j)
        BY <3>1, <3>2, <3>6 DEF IsChain
      <4> QED
        BY <3>1, <3>2, <3>5, <3>6, <4>1 DEF HasFirst, BeginsWith
    <3>7. CASE q < k /\ ts[q] \in ops /\ \A m \in Nat : m = q + 1 => Has(read, whole, m, k)
      <4>1. \A m \in Nat : m = q + 1 => Has(read, whole, m, j)
        BY <3>1, <3>2, <3>7 DEF IsChain
      <4>2. q < j
        BY <3>2, <3>7
      <4> QED
        BY <3>5, <3>7, <4>1, <4>2 DEF HasFirst, BeginsWith
    <3> QED
      BY <3>4, <3>6, <3>7 DEF BeginsWith
  <2> QED
    BY <2>1, <2>2 DEF IsChain
<1> HIDE DEF S
<1>3. \A n \in Nat : n \in S
  BY <1>1, <1>2, AllNaturals
<1>4. ASSUME NEW i \in Nat, NEW j \in Nat PROVE P(i, j)
  <2>1. j + 1 \in S /\ j < j + 1
    BY <1>3
  <2> HIDE DEF P
  <2> QED
    BY <2>1 DEF S
<1> QED
  BY <1>4

\* What begins two phrases alike can be taken away from both.
LEMMA RestIsPhrase ==
  ASSUME NEW ts, Len(ts) \in Nat, NEW read, NEW whole, NEW part, NEW ops, NEW bad, ops \cap bad = {},
         IsChain(read, ts, whole, part, ops), EndOnce(read, ts, part, bad)
  PROVE  \A i, j, k, m \in Nat :
           /\ j < k /\ k <= Len(ts) + 1 /\ Has(read, whole, i, j) /\ Has(read, whole, i, k)
           /\ ts[j] \in ops /\ TokenAt(ts, k) \notin bad /\ m = j + 1
           => Has(read, whole, m, k)
<1> DEFINE P(i) == \A j, k, m \in Nat :
                     /\ j < k /\ k <= Len(ts) + 1 /\ Has(read, whole, i, j) /\ Has(read, whole, i, k)
                     /\ ts[j] \in ops /\ TokenAt(ts, k) \notin bad /\ m = j + 1
                     => Has(read, whole, m, k)
           last == Len(ts) + 1
           S == {n \in Nat : \A i \in Nat : last - i < n => P(i)}
<1>0. last \in Nat /\ last = Len(ts) + 1
  OBVIOUS
<1>1. \A i \in Nat : last < i => P(i)
  <2> SUFFICES ASSUME NEW i \in Nat, last < i, NEW j \in Nat, NEW k \in Nat, j < k, k <= last,
                      Has(read, whole, i, j)
               PROVE  FALSE
    BY <1>0
  <2>1. HasSplit(read, ts, i, j, ops, whole, part) => i + 1 <= j - 2
    BY DEF HasSplit
  <2>2. Has(read, part, i, j) => i < j
    BY DEF IsChain
  <2>3. Has(read, part, i, j) \/ HasSplit(read, ts, i, j, ops, whole, part)
    BY DEF IsChain
  <2> QED
    BY <1>0, <2>1, <2>2, <2>3
<1>2. 0 \in S
  <2>1. \A i \in Nat : last - i < 0 => last < i
    BY <1>0
  <2> HIDE DEF P, last
  <2> QED
    BY <1>1, <2>1
<1>3. \A n \in Nat : n \in S => n + 1 \in S
  <2> HIDE DEF P, last
  <2> SUFFICES ASSUME NEW n \in Nat, n \in S, NEW i \in Nat, last - i < n + 1 PROVE P(i)
    BY <1>0
  <2> USE DEF P, last
  <2>0. \A q \in Nat : i < q => P(q)
    <3>1. \A q \in Nat : i < q => last - q < n
      BY <1>0
    <3> HIDE DEF P, last
    <3> QED
      BY <3>1
  <2>1. \A q \in Nat : Has(read, part, i, q) => i < q
    BY DEF IsChain
  <2> HIDE DEF S
  <2> SUFFICES ASSUME NEW j \in Nat, NEW k \in Nat, NEW m \in Nat, j < k, k <= Len(ts) + 1,
                      Has(read, whole, i, j), Has(read, whole, i, k),
                      ts[j] \in ops, TokenAt(ts, k) \notin bad, m = j + 1
               PROVE  Has(read, whole, m, k)
    OBVIOUS
  <2> HIDE DEF P, last
  <2>2. TokenAt(ts, j) = ts[j] /\ j <= Len(ts) + 1
    BY DEF TokenAt
  <2>3. PICK q \in Nat : BeginsWith(read, ts, whole, part, ops, bad, i, q, j)
    BY <2>2, FirstPart DEF HasFirst
  <2>4. PICK p \in Nat : BeginsWith(read, ts, whole, part, ops, bad, i, p, k)
    BY FirstPart DEF HasFirst
  <2>5. q = p
    <3>1. Has(read, part, i, q) /\ TokenAt(ts, q) \notin bad /\ q <= Len(ts) + 1
      BY <2>2, <2>3 DEF BeginsWith
    <3>2. Has(read, part, i, p) /\ TokenAt(ts, p) \notin bad /\ p <= Len(ts) + 1
      BY <2>4 DEF BeginsWith
    <3> QED
      BY <3>1, <3>2 DEF EndOnce
  <2>6. CASE q = j
    BY <2>4, <2>5, <2>6 DEF BeginsWith
  <2>7. CASE q < j /\ \A o \in Nat : o = q + 1 => Has(read, whole, o, j)
    <3> DEFINE o == q + 1
    <3>1. o \in Nat /\ i < o /\ o = q + 1
      BY <2>1, <2>3 DEF BeginsWith
    <3> HIDE DEF o
    <3>2. Has(read, whole, o, j)
      BY <2>7, <3>1
    <3>3. Has(read, whole, o, k)
      BY <2>4, <2>5, <2>7, <3>1 DEF BeginsWith
    <3>4. P(o)
      BY <2>0, <3>1
    <3> QED
      BY <3>2, <3>3, <3>4 DEF P
  <2> QED
    BY <2>3, <2>6, <2>7 DEF BeginsWith
<1> HIDE DEF S
<1>4. \A n \in Nat : n \in S
  BY <1>2, <1>3, AllNaturals
<1>5. ASSUME NEW i \in Nat PROVE P(i)
  <2>1. last + 1 \in S /\ last - i < last + 1
    BY <1>0, <1>4
  <2> HIDE DEF P, last
  <2> QED
    BY <2>1 DEF S
<1> QED
  BY <1>5

IsSplit(read, ts, i, j, ops, left, right, k) ==
  ts[k] \in ops /\ Has(read, left, i, k) /\ Has(read, right, k + 1, j)

\* A phrase is split at one place.
LEMMA OneSplit ==
  ASSUME NEW ts, Len(ts) \in Nat, NEW read, NEW whole, NEW part, NEW ops, NEW bad, ops \cap bad = {},
         IsChain(read, ts, whole, part, ops), EndOnce(read, ts, part, bad),
         NEW i \in Nat, NEW j \in Nat, j <= Len(ts) + 1, TokenAt(ts, j) \notin bad
  PROVE  /\ Has(read, part, i, j) => ~HasSplit(read, ts, i, j, ops, whole, part)
         /\ \A k, m \in i + 1..j - 2 :
              IsSplit(read, ts, i, j, ops, whole, part, k) /\ IsSplit(read, ts, i, j, ops, whole, part, m)
              => k = m
<1>1. ASSUME NEW p \in Nat, NEW k \in Nat, k < j, ts[k] \in ops, Has(read, whole, p, k), Has(read, part, p, j)
      PROVE  FALSE
  <2>1. TokenAt(ts, k) = ts[k] /\ k <= Len(ts) + 1
    BY <1>1 DEF TokenAt
  <2>2. HasFirst(read, ts, whole, part, ops, bad, p, k)
    BY <1>1, <2>1, FirstPart
  <2>3. PICK q \in Nat : BeginsWith(read, ts, whole, part, ops, bad, p, q, k)
    BY <2>2 DEF HasFirst
  <2>4. Has(read, part, p, q) /\ TokenAt(ts, q) \notin bad /\ q <= k
    BY <2>3 DEF BeginsWith
  <2>5. q = j
    BY <1>1, <2>1, <2>4 DEF EndOnce
  <2> QED
    BY <1>1, <2>4, <2>5
<1>2. Has(read, part, i, j) => ~HasSplit(read, ts, i, j, ops, whole, part)
  <2> SUFFICES ASSUME Has(read, part, i, j), HasSplit(read, ts, i, j, ops, whole, part) PROVE FALSE
    OBVIOUS
  <2>1. PICK k \in i + 1..j - 2 : ts[k] \in ops /\ Has(read, whole, i, k)
    BY DEF HasSplit
  <2>2. k \in Nat /\ k < j
    OBVIOUS
  <2> QED
    BY <1>1, <2>1, <2>2
<1>3. ASSUME NEW k \in i + 1..j - 2, NEW m \in i + 1..j - 2, k < m,
             ts[k] \in ops, Has(read, whole, i, k), Has(read, part, k + 1, j),
             ts[m] \in ops, Has(read, whole, i, m)
      PROVE  FALSE
  <2> DEFINE p == k + 1
  <2>1. k \in Nat /\ m \in Nat /\ p \in Nat /\ p = k + 1 /\ m < j /\ m <= Len(ts) + 1 /\ TokenAt(ts, m) = ts[m]
        /\ Has(read, part, p, j)
    BY <1>3 DEF TokenAt
  <2> HIDE DEF p
  <2>2. Has(read, whole, p, m)
    BY <1>3, <2>1, RestIsPhrase
  <2> QED
    BY <1>1, <1>3, <2>1, <2>2
<1>4. ASSUME NEW k \in i + 1..j - 2, NEW m \in i + 1..j - 2,
             IsSplit(read, ts, i, j, ops, whole, part, k), IsSplit(read, ts, i, j, ops, whole, part, m)
      PROVE  k = m
  <2>1. k < m \/ m < k \/ k = m
    OBVIOUS
  <2> QED
    BY <1>3, <1>4, <2>1 DEF IsSplit
<1> QED
  BY <1>2, <1>4

LEMMA Chains ==
  ASSUME NEW ts, NEW read, NEW values, Reading(read, ts, values)
  PROVE  /\ IsChain(read, ts, "sum", "product", {"+", "-"})
         /\ IsChain(read, ts, "product", "signed", {"*", "/"})
         /\ IsChain(read, ts, "list", "sum", {","})
<1>0. Phrases = {"sum", "product", "signed", "primary", "list"}
  BY DEF Phrases
<1>1. \A kind \in Phrases, i, j \in Nat : Has(read, kind, i, j) => i < j
  BY ReadingHas
<1>2. ASSUME NEW left \in Phrases, NEW right \in Phrases, NEW i \in Nat, NEW j \in Nat, NEW k \in Nat,
             NEW m \in Nat, Has(read, left, i, k), m = k + 1, Has(read, right, m, j)
      PROVE  k \in i + 1..j - 2 /\ i < j /\ Has(read, right, k + 1, j)
  BY <1>1, <1>2
<1>3. ASSUME NEW kind, NEW lower, NEW ops, SplitKinds(read, ts, values, kind, lower, ops),
             kind \in Phrases, lower \in Phrases,
             \A i, j \in Nat : Has(read, kind, i, j) =>
               Has(read, lower, i, j) \/ HasSplit(read, ts, i, j, ops, kind, lower)
      PROVE  IsChain(read, ts, kind, lower, ops)
  <2>1. \A i, j \in Nat : Has(read, lower, i, j) => i < j /\ Has(read, kind, i, j)
    BY <1>1, <1>3 DEF SplitKinds, Has
  <2>2. ASSUME NEW i \in Nat, NEW j \in Nat, NEW k \in Nat, NEW m \in Nat,
               Has(read, kind, i, k), ts[k] \in ops, m = k + 1, Has(read, lower, m, j)
        PROVE  Has(read, kind, i, j)
    <3>1. k \in i + 1..j - 2 /\ i < j /\ Has(read, lower, k + 1, j)
      BY <1>2, <1>3, <2>2
    <3>2. PICK V \in read[<<kind, i, k>>] : TRUE
      BY <2>2 DEF Has
    <3>3. PICK W \in read[<<lower, k + 1, j>>] : TRUE
      BY <3>1 DEF Has
    <3>4. Both(V, W, ts[k], values) \in Splits(read, ts, values, i, j, ops, kind, lower)
      BY <2>2, <3>1, SplitIs
    <3>5. Splits(read, ts, values, i, j, ops, kind, lower) \subseteq read[<<kind, i, j>>]
      BY <1>3, <3>1 DEF SplitKinds
    <3> QED
      BY <3>4, <3>5 DEF Has
  <2> QED
    BY <1>3, <2>1, <2>2 DEF IsChain
<1>4. IsChain(read, ts, "sum", "product", {"+", "-"})
  <2>1. \A i, j \in Nat : Has(read, "sum", i, j) =>
          Has(read, "product", i, j) \/ HasSplit(read, ts, i, j, {"+", "-"}, "sum", "product")
    BY ReadingHas
  <2> QED
    BY <1>0, <1>3, <2>1, SumsSplit
<1>5. IsChain(read, ts, "product", "signed", {"*", "/"})
  <2>1. \A i, j \in Nat : Has(read, "product", i, j) =>
          Has(read, "signed", i, j) \/ HasSplit(read, ts, i, j, {"*", "/"}, "product", "signed")
    BY ReadingHas
  <2> QED
    BY <1>0, <1>3, <2>1, SumsSplit
<1>6. IsChain(read, ts, "list", "sum", {","})
  <2>1. \A i, j \in Nat : Has(read, "list", i, j) =>
          Has(read, "sum", i, j) \/ HasSplit(read, ts, i, j, {","}, "list", "sum")
    BY ReadingHas
  <2>2. ASSUME NEW i \in Nat, NEW j \in Nat, Has(read, "sum", i, j)
        PROVE  i < j /\ Has(read, "list", i, j)
    <3>1. i < j
      BY <1>0, <1>1, <2>2
    <3>2. read[<<"list", i, j>>] = ListFrom(read, ts, i, j)
      BY <3>1, ReadsLower
    <3>3. PICK V \in read[<<"sum", i, j>>] : TRUE
      BY <2>2 DEF Has
    <3>4. Singles(V) \in ListFrom(read, ts, i, j)
      BY ListFromIs
    <3> QED
      BY <3>1, <3>2, <3>4 DEF Has
  <2>3. ASSUME NEW i \in Nat, NEW j \in Nat, NEW k \in Nat, NEW m \in Nat,
               Has(read, "list", i, k), ts[k] \in {","}, m = k + 1, Has(read, "sum", m, j)
        PROVE  Has(read, "list", i, j)
    <3>1. k \in i + 1..j - 2 /\ i < j /\ Has(read, "sum", k + 1, j)
      BY <1>0, <1>2, <2>3
    <3>2. read[<<"list", i, j>>] = ListFrom(read, ts, i, j)
      BY <3>1, ReadsLower
    <3>3. PICK V \in read[<<"list", i, k>>] : TRUE
      BY <2>3 DEF Has
    <3>4. PICK W \in read[<<"sum", k + 1, j>>] : TRUE
      BY <3>1 DEF Has
    <3>5. Appended(V, W) \in ListsAt(read, i, j, k)
      BY <3>3, <3>4 DEF ListsAt, ListsOf
    <3>6. k \in {o \in i + 1..j - 2 : ts[o] = ","}
      BY <2>3, <3>1
    <3>7. Appended(V, W) \in ListFrom(read, ts, i, j)
      BY <3>5, <3>6, ListFromIs
    <3> QED
      BY <3>2, <3>7 DEF Has
  <2> QED
    BY <2>1, <2>2, <2>3 DEF IsChain
<1> QED
  BY <1>4, <1>5, <1>6

\* The parser has one result, so a phrase has one end.
LEMMA PhrasesEnd ==
  ASSUME NEW ts, Len(ts) \in Nat, NEW read, NEW values, Reading(read, ts, values)
  PROVE  /\ EndOnce(read, ts, "signed", {"("})
         /\ EndOnce(read, ts, "product", {"(", "*", "/"})
         /\ EndOnce(read, ts, "sum", {"(", "*", "/", "+", "-"})
<1>0. {"signed", "product", "sum"} \subseteq Phrases /\ {"unary", "term", "expression"} \subseteq Rules
  BY DEF Phrases, Rules
<1>1. PICK f : IsParse(ts, f)
  BY ParseExists
<1>2. ASSUME NEW kind \in Phrases, NEW i \in Nat, NEW j \in Nat, j <= Len(ts) + 1, Has(read, kind, i, j)
      PROVE  AllGot(read, ts, f, i, j)
  <2>1. i < j
    BY <1>2, ReadingHas
  <2>2. j - i \in Nat /\ (j - i) + 1 \in Nat /\ j - i < (j - i) + 1
    BY <2>1
  <2> DEFINE w == (j - i) + 1
  <2>3. w \in Nat /\ j - i < w
    BY <2>2
  <2> HIDE DEF w
  <2>4. ShorterGot(read, ts, f, w)
    BY <1>1, <2>3, EveryPhraseGot
  <2> QED
    BY <1>2, <2>1, <2>3, <2>4 DEF ShorterGot
<1>3. ASSUME NEW rule \in Rules, NEW i \in Nat, NEW j, NEW k, Gets(f, rule, i, j), Gets(f, rule, i, k)
      PROVE  j = k
  <2>1. One(f[<<rule, i>>])
    BY <1>1, ParseHasOne
  <2> QED
    BY <1>3, <2>1 DEF One, Gets, Reached
<1>4. ASSUME NEW i \in Nat, NEW j \in Nat, j <= Len(ts) + 1
      PROVE  /\ Has(read, "signed", i, j) /\ TokenAt(ts, j) \notin {"("} => Gets(f, "unary", i, j)
             /\ Has(read, "product", i, j) /\ TokenAt(ts, j) \notin {"(", "*", "/"} => Gets(f, "term", i, j)
             /\ Has(read, "sum", i, j) /\ TokenAt(ts, j) \notin {"(", "*", "/", "+", "-"} =>
                  Gets(f, "expression", i, j)
  <2>1. Has(read, "signed", i, j) /\ TokenAt(ts, j) \notin {"("} => Gets(f, "unary", i, j)
    BY <1>0, <1>2, <1>4 DEF AllGot, SignedGot
  <2>2. ASSUME Has(read, "product", i, j), TokenAt(ts, j) \notin {"(", "*", "/"} PROVE Gets(f, "term", i, j)
    <3>1. Gets(f, "factors", j, j)
      BY <1>1, <2>2, MethodsGet
    <3>2. ProductGot(read, ts, f, i, j)
      BY <1>0, <1>2, <1>4, <2>2 DEF AllGot
    <3> QED
      BY <2>2, <3>1, <3>2 DEF ProductGot
  <2>3. ASSUME Has(read, "sum", i, j), TokenAt(ts, j) \notin {"(", "*", "/", "+", "-"}
        PROVE  Gets(f, "expression", i, j)
    <3>1. Gets(f, "terms", j, j)
      BY <1>1, <2>3, MethodsGet
    <3>2. SumGot(read, ts, f, i, j)
      BY <1>0, <1>2, <1>4, <2>3 DEF AllGot
    <3> QED
      BY <2>3, <3>1, <3>2 DEF SumGot
  <2> QED
    BY <2>1, <2>2, <2>3
<1>5. EndOnce(read, ts, "signed", {"("})
  <2> SUFFICES ASSUME NEW i \in Nat, NEW j \in Nat, NEW k \in Nat, j <= Len(ts) + 1, k <= Len(ts) + 1,
                      Has(read, "signed", i, j), TokenAt(ts, j) \notin {"("},
                      Has(read, "signed", i, k), TokenAt(ts, k) \notin {"("}
               PROVE  j = k
    BY DEF EndOnce
  <2>1. Gets(f, "unary", i, j) /\ Gets(f, "unary", i, k)
    BY <1>4
  <2> QED
    BY <1>0, <1>3, <2>1
<1>6. EndOnce(read, ts, "product", {"(", "*", "/"})
  <2> SUFFICES ASSUME NEW i \in Nat, NEW j \in Nat, NEW k \in Nat, j <= Len(ts) + 1, k <= Len(ts) + 1,
                      Has(read, "product", i, j), TokenAt(ts, j) \notin {"(", "*", "/"},
                      Has(read, "product", i, k), TokenAt(ts, k) \notin {"(", "*", "/"}
               PROVE  j = k
    BY DEF EndOnce
  <2>1. Gets(f, "term", i, j) /\ Gets(f, "term", i, k)
    BY <1>4
  <2> QED
    BY <1>0, <1>3, <2>1
<1>7. EndOnce(read, ts, "sum", {"(", "*", "/", "+", "-"})
  <2> SUFFICES ASSUME NEW i \in Nat, NEW j \in Nat, NEW k \in Nat, j <= Len(ts) + 1, k <= Len(ts) + 1,
                      Has(read, "sum", i, j), TokenAt(ts, j) \notin {"(", "*", "/", "+", "-"},
                      Has(read, "sum", i, k), TokenAt(ts, k) \notin {"(", "*", "/", "+", "-"}
               PROVE  j = k
    BY DEF EndOnce
  <2>1. Gets(f, "expression", i, j) /\ Gets(f, "expression", i, k)
    BY <1>4
  <2> QED
    BY <1>0, <1>3, <2>1
<1> QED
  BY <1>5, <1>6, <1>7

\* A phrase means one thing, if no token that could go on from it comes next.
OneMeans(read, ts, i, j) ==
  /\ One(read[<<"primary", i, j>>]) /\ One(read[<<"signed", i, j>>])
  /\ TokenAt(ts, j) \notin {"("} => One(read[<<"product", i, j>>])
  /\ TokenAt(ts, j) \notin {"(", "*", "/"} => One(read[<<"sum", i, j>>])
  /\ TokenAt(ts, j) \notin {"(", "*", "/", "+", "-"} => One(read[<<"list", i, j>>])

ShorterOne(read, ts, w) ==
  \A p, q \in Nat : q <= Len(ts) + 1 /\ q - p < w => OneMeans(read, ts, p, q)

IsCovered(U, ks, g) == \A x \in U : \E k \in ks : x \in g[k]

LEMMA OneOfUnion ==
  ASSUME NEW ks, NEW g, NEW U, IsCovered(U, ks, g),
         \A k \in ks : One(g[k]), \A k, m \in ks : g[k] # {} /\ g[m] # {} => k = m
  PROVE  One(U)
<1> SUFFICES ASSUME NEW x \in U, NEW y \in U PROVE x = y
  BY DEF One
<1>1. PICK k \in ks : x \in g[k]
  BY DEF IsCovered
<1>2. PICK m \in ks : y \in g[m]
  BY DEF IsCovered
<1>3. k = m
  BY <1>1, <1>2
<1> QED
  BY <1>1, <1>2, <1>3 DEF One

LEMMA OneOfSplits ==
  ASSUME NEW ts, Len(ts) \in Nat, NEW read, NEW values, NEW whole, NEW part, NEW ops, NEW bad,
         ops \cap bad = {}, IsChain(read, ts, whole, part, ops), EndOnce(read, ts, part, bad),
         NEW i \in Nat, NEW j \in Nat, j <= Len(ts) + 1, TokenAt(ts, j) \notin bad,
         \A k \in i + 1..j - 2 : ts[k] \in ops => One(read[<<whole, i, k>>]) /\ One(read[<<part, k + 1, j>>])
  PROVE  One(Splits(read, ts, values, i, j, ops, whole, part))
<1> DEFINE at(m) == {Both(a, b, ts[m], values) :
                       a \in read[<<whole, i, m>>], b \in read[<<part, m + 1, j>>]}
           ks == {m \in i + 1..j - 2 : ts[m] \in ops}
           g == [m \in ks |-> at(m)]
           all == UNION {at(m) : m \in ks}
<1>1. Splits(read, ts, values, i, j, ops, whole, part) = all
  BY DEF Splits
<1>2. \A m \in ks : at(m) # {} => IsSplit(read, ts, i, j, ops, whole, part, m)
  BY DEF IsSplit, Has
<1>3. \A m \in ks : One(at(m))
  <2> SUFFICES ASSUME NEW m \in ks PROVE One(at(m))
    OBVIOUS
  <2>1. One(read[<<whole, i, m>>]) /\ One(read[<<part, m + 1, j>>])
    OBVIOUS
  <2> QED
    BY <2>1 DEF One
<1>4. \A k, m \in ks : IsSplit(read, ts, i, j, ops, whole, part, k) /\ IsSplit(read, ts, i, j, ops, whole, part, m)
                       => k = m
  BY OneSplit
<1> HIDE DEF at, ks
<1>5. One(all)
  <2>1. \A m \in ks : g[m] = at(m)
    OBVIOUS
  <2> HIDE DEF g
  <2>2. \A m \in ks : One(g[m])
    BY <1>3, <2>1
  <2>3. \A k, m \in ks : g[k] # {} /\ g[m] # {} => k = m
    BY <1>2, <1>4, <2>1
  <2>4. IsCovered(all, ks, g)
    BY <2>1 DEF IsCovered
  <2> HIDE DEF all
  <2> QED
    BY <2>2, <2>3, <2>4, OneOfUnion
<1> QED
  BY <1>1, <1>5

LEMMA OneOfEach ==
  ASSUME NEW A, NEW B
  PROVE  /\ ListsOf(A, B) # {} => A # {} /\ B # {}
         /\ One(A) /\ One(B) => One(ListsOf(A, B))
<1>1. \A x \in ListsOf(A, B) : \E a \in A, b \in B : x = Appended(a, b)
  BY DEF ListsOf
<1>2. ListsOf(A, B) # {} => A # {} /\ B # {}
  BY <1>1
<1>3. ASSUME One(A), One(B), NEW x \in ListsOf(A, B), NEW y \in ListsOf(A, B) PROVE x = y
  <2>1. PICK a \in A, b \in B : x = Appended(a, b)
    BY <1>1
  <2>2. PICK c \in A, d \in B : y = Appended(c, d)
    BY <1>1
  <2>3. a = c /\ b = d
    BY <1>3, <2>1, <2>2 DEF One
  <2> QED
    BY <2>1, <2>2, <2>3
<1> QED
  BY <1>2, <1>3 DEF One

LEMMA OneOfLists ==
  ASSUME NEW ts, Len(ts) \in Nat, NEW read, NEW bad, {","} \cap bad = {},
         IsChain(read, ts, "list", "sum", {","}), EndOnce(read, ts, "sum", bad),
         NEW i \in Nat, NEW j \in Nat, j <= Len(ts) + 1, TokenAt(ts, j) \notin bad,
         One(read[<<"sum", i, j>>]),
         \A k \in i + 1..j - 2 : ts[k] = "," => One(read[<<"list", i, k>>]) /\ One(read[<<"sum", k + 1, j>>])
  PROVE  One(ListFrom(read, ts, i, j))
<1> DEFINE at(m) == ListsAt(read, i, j, m)
           ks == {m \in i + 1..j - 2 : ts[m] = ","}
           g == [m \in ks |-> at(m)]
           all == UNION {g[k] : k \in ks}
           one == {Singles(a) : a \in read[<<"sum", i, j>>]}
<1>1. ListFrom(read, ts, i, j) = one \cup all
  BY ListFromIs
<1>2. \A m \in ks : at(m) # {} => IsSplit(read, ts, i, j, {","}, "list", "sum", m)
  BY OneOfEach DEF IsSplit, Has, ListsAt
<1>3. \A m \in ks : One(at(m))
  <2> SUFFICES ASSUME NEW m \in ks PROVE One(at(m))
    OBVIOUS
  <2>1. One(read[<<"list", i, m>>]) /\ One(read[<<"sum", m + 1, j>>])
    OBVIOUS
  <2> QED
    BY <2>1, OneOfEach DEF ListsAt
<1>4. \A k, m \in ks : IsSplit(read, ts, i, j, {","}, "list", "sum", k) /\ IsSplit(read, ts, i, j, {","}, "list", "sum", m)
                       => k = m
  BY OneSplit
<1>5. \A m \in ks : IsSplit(read, ts, i, j, {","}, "list", "sum", m) => HasSplit(read, ts, i, j, {","}, "list", "sum")
  BY DEF IsSplit, HasSplit
<1>6. One(one)
  BY DEF One
<1>7. one # {} => Has(read, "sum", i, j)
  BY DEF Has
<1>8. Has(read, "sum", i, j) => ~HasSplit(read, ts, i, j, {","}, "list", "sum")
  BY OneSplit
<1> HIDE DEF at, ks, one
<1>9. One(all)
  <2>1. \A m \in ks : g[m] = at(m)
    OBVIOUS
  <2> HIDE DEF g
  <2>2. \A m \in ks : One(g[m])
    BY <1>3, <2>1
  <2>3. \A k, m \in ks : g[k] # {} /\ g[m] # {} => k = m
    BY <1>2, <1>4, <2>1
  <2>4. IsCovered(all, ks, g)
    BY <2>1 DEF IsCovered
  <2> HIDE DEF all
  <2> QED
    BY <2>2, <2>3, <2>4, OneOfUnion
<1>10. all # {} => \E m \in ks : at(m) # {}
  OBVIOUS
<1> HIDE DEF all
<1>11. one = {} \/ all = {}
  BY <1>2, <1>5, <1>7, <1>8, <1>10
<1> QED
  BY <1>1, <1>6, <1>9, <1>11 DEF One

LEMMA PrimaryMeansOne ==
  ASSUME NEW ts, Len(ts) \in Nat, NEW read, NEW values, Reading(read, ts, values),
         NEW i \in Nat, NEW j \in Nat, i < j, j <= Len(ts) + 1, ShorterOne(read, ts, j - i)
  PROVE  One(read[<<"primary", i, j>>])
<1>0. read[<<"primary", i, j>>] = PrimaryFrom(read, ts, values, i, j)
  BY ReadsLower
<1>1. ASSUME ts[j - 1] = ")", NEW p \in Nat, i < p
      PROVE  One(read[<<"sum", p, j - 1>>]) /\ One(read[<<"list", p, j - 1>>])
  <2> DEFINE q == j - 1
  <2>1. q \in Nat /\ q <= Len(ts) + 1 /\ q - p < j - i /\ TokenAt(ts, q) = ")"
    BY <1>1 DEF TokenAt
  <2> HIDE DEF q
  <2>2. OneMeans(read, ts, p, q)
    BY <2>1 DEF ShorterOne
  <2>3. One(read[<<"sum", p, q>>]) /\ One(read[<<"list", p, q>>])
    BY <2>1, <2>2 DEF OneMeans
  <2> QED
    BY <2>3 DEF q
<1>2. \A x : One({x})
  BY DEF One
<1>3. ts[j - 1] = ")" => One(CallFrom(read, ts, i, j))
  <2> DEFINE p == i + 2
             lists == read[<<"list", p, j - 1>>] \cup IF j = i + 3 THEN {{<<>>}} ELSE {}
             e(a) == UNION {Called(ts[i], xs) : xs \in a}
  <2>1. CallFrom(read, ts, i, j) = {e(a) : a \in lists}
    BY DEF CallFrom
  <2>2. p \in Nat /\ i < p /\ j - 1 \in Nat /\ (j = i + 3 => j - 1 = p)
    OBVIOUS
  <2>3. j = i + 3 => read[<<"list", p, j - 1>>] = {}
    <3> DEFINE q == j - 1
    <3>1. q \in Nat /\ (j = i + 3 => ~(p < q)) /\ "list" \in Phrases
      BY <2>2 DEF Phrases
    <3> HIDE DEF p, q
    <3>2. Has(read, "list", p, q) => p < q
      BY <2>2, <3>1, ReadingHas
    <3> QED
      BY <3>1, <3>2 DEF Has, q
  <2>4. ts[j - 1] = ")" => One(read[<<"list", p, j - 1>>])
    BY <1>1, <2>2
  <2> HIDE DEF p
  <2>5. ts[j - 1] = ")" => One(lists)
    BY <2>3, <2>4 DEF One
  <2> HIDE DEF e, lists
  <2> QED
    BY <2>1, <2>5 DEF One
<1>4. \/ PrimaryFrom(read, ts, values, i, j) = {{NumberTokens[ts[i]]}}
      \/ PrimaryFrom(read, ts, values, i, j) = {{values[ts[i]]}}
      \/ ts[j - 1] = ")" /\ PrimaryFrom(read, ts, values, i, j) = read[<<"sum", i + 1, j - 1>>]
      \/ ts[j - 1] = ")" /\ PrimaryFrom(read, ts, values, i, j) = CallFrom(read, ts, i, j)
      \/ PrimaryFrom(read, ts, values, i, j) = {}
  BY DEF PrimaryFrom
<1>5. One({}) /\ i + 1 \in Nat /\ i < i + 1
  BY DEF One
<1>6. ts[j - 1] = ")" => One(read[<<"sum", i + 1, j - 1>>])
  BY <1>1, <1>5
<1> DEFINE all == PrimaryFrom(read, ts, values, i, j)
           sum == read[<<"sum", i + 1, j - 1>>]
<1> HIDE DEF all, sum
<1>7. One(all)
  BY <1>2, <1>3, <1>4, <1>5, <1>6 DEF all, sum
<1> QED
  BY <1>0, <1>7 DEF all

LEMMA SignedMeansOne ==
  ASSUME NEW ts, NEW read, NEW values, Reading(read, ts, values),
         NEW i \in Nat, NEW j \in Nat, i < j, j <= Len(ts) + 1, ShorterOne(read, ts, j - i),
         One(read[<<"primary", i, j>>])
  PROVE  One(read[<<"signed", i, j>>])
<1> DEFINE m == i + 1
           e(a) == {-x : x \in a}
<1>1. m \in Nat /\ j - m < j - i
  OBVIOUS
<1>2. \/ SignedFrom(read, ts, i, j) = read[<<"signed", m, j>>]
      \/ SignedFrom(read, ts, i, j) = {e(a) : a \in read[<<"signed", m, j>>]}
      \/ SignedFrom(read, ts, i, j) = read[<<"primary", i, j>>]
  BY DEF SignedFrom
<1>3. read[<<"signed", i, j>>] = SignedFrom(read, ts, i, j)
  BY ReadsLower
<1> HIDE DEF m, e
<1>4. One(read[<<"signed", m, j>>])
  BY <1>1 DEF ShorterOne, OneMeans
<1> QED
  BY <1>2, <1>3, <1>4 DEF One

LEMMA PhraseMeansOne ==
  ASSUME NEW ts, Len(ts) \in Nat, NEW read, NEW values, Reading(read, ts, values),
         NEW i \in Nat, NEW j \in Nat, j <= Len(ts) + 1, ShorterOne(read, ts, j - i)
  PROVE  OneMeans(read, ts, i, j)
<1>1. CASE ~(i < j)
  <2>1. \A kind \in Phrases : read[<<kind, i, j>>] = {}
    BY <1>1, ReadingHas DEF Has
  <2>2. \A kind \in Phrases : One(read[<<kind, i, j>>])
    BY <2>1 DEF One
  <2> QED
    BY <2>2 DEF OneMeans, Phrases
<1>2. CASE i < j
  <2>1. \A k \in i + 1..j - 2 : /\ TokenAt(ts, k) = ts[k]
                                /\ OneMeans(read, ts, i, k) /\ OneMeans(read, ts, k + 1, j)
    <3> TAKE k \in i + 1..j - 2
    <3>1. k \in Nat /\ k <= Len(ts) + 1 /\ k - i < j - i /\ TokenAt(ts, k) = ts[k]
      BY DEF TokenAt
    <3> DEFINE m == k + 1
    <3>2. m \in Nat /\ j - m < j - i
      OBVIOUS
    <3> HIDE DEF m
    <3>3. OneMeans(read, ts, i, k) /\ OneMeans(read, ts, m, j)
      BY <3>1, <3>2 DEF ShorterOne
    <3> QED
      BY <3>1, <3>3 DEF m
  <2>2. One(read[<<"primary", i, j>>])
    BY <1>2, PrimaryMeansOne
  <2>3. One(read[<<"signed", i, j>>])
    BY <1>2, <2>2, SignedMeansOne
  <2>4. ASSUME NEW whole, NEW lower, NEW ops, One(read[<<lower, i, j>>]), NEW bad, ops \cap bad = {},
               IsChain(read, ts, whole, lower, ops), EndOnce(read, ts, lower, bad), TokenAt(ts, j) \notin bad,
               read[<<whole, i, j>>] = read[<<lower, i, j>>] \cup Splits(read, ts, values, i, j, ops, whole, lower),
               \A k \in i + 1..j - 2 : ts[k] \in ops =>
                 One(read[<<whole, i, k>>]) /\ One(read[<<lower, k + 1, j>>])
        PROVE  One(read[<<whole, i, j>>])
    <3> DEFINE all == Splits(read, ts, values, i, j, ops, whole, lower)
    <3>1. One(all)
      BY <2>4, OneOfSplits
    <3>2. all # {} => HasSplit(read, ts, i, j, ops, whole, lower)
      BY SplitsHave
    <3>3. Has(read, lower, i, j) => ~HasSplit(read, ts, i, j, ops, whole, lower)
      BY <2>4, OneSplit
    <3>4. read[<<lower, i, j>>] = {} \/ all = {}
      BY <3>2, <3>3 DEF Has
    <3>5. read[<<whole, i, j>>] = read[<<lower, i, j>>] \cup all
      BY <2>4
    <3> HIDE DEF all
    <3> QED
      BY <2>4, <3>1, <3>4, <3>5 DEF One
  <2>5. /\ read[<<"product", i, j>>] = read[<<"signed", i, j>>] \cup
                                       Splits(read, ts, values, i, j, {"*", "/"}, "product", "signed")
        /\ read[<<"sum", i, j>>] = read[<<"product", i, j>>] \cup
                                   Splits(read, ts, values, i, j, {"+", "-"}, "sum", "product")
        /\ read[<<"list", i, j>>] = ListFrom(read, ts, i, j)
    <3>1. \A kind \in Phrases : read[<<kind, i, j>>] = ReadFrom(read, ts, values, kind, i, j)
      BY DEF Reading
    <3>2. {"sum", "product", "list"} \subseteq Phrases /\ ~(i >= j)
      BY <1>2 DEF Phrases
    <3> QED
      BY <3>1, <3>2 DEF ReadFrom
  <2>6. ASSUME TokenAt(ts, j) \notin {"("} PROVE One(read[<<"product", i, j>>])
    <3>1. \A k \in i + 1..j - 2 : ts[k] \in {"*", "/"} =>
            One(read[<<"product", i, k>>]) /\ One(read[<<"signed", k + 1, j>>])
      BY <2>1 DEF OneMeans
    <3>2. {"*", "/"} \cap {"("} = {}
      OBVIOUS
    <3> QED
      BY <2>3, <2>4, <2>5, <2>6, <3>1, <3>2, Chains, PhrasesEnd
  <2>7. ASSUME TokenAt(ts, j) \notin {"(", "*", "/"} PROVE One(read[<<"sum", i, j>>])
    <3>1. \A k \in i + 1..j - 2 : ts[k] \in {"+", "-"} =>
            One(read[<<"sum", i, k>>]) /\ One(read[<<"product", k + 1, j>>])
      BY <2>1, <2>7 DEF OneMeans
    <3>2. {"+", "-"} \cap {"(", "*", "/"} = {}
      OBVIOUS
    <3>3. One(read[<<"product", i, j>>])
      BY <2>6, <2>7
    <3> QED
      BY <2>4, <2>5, <2>7, <3>1, <3>2, <3>3, Chains, PhrasesEnd
  <2>8. ASSUME TokenAt(ts, j) \notin {"(", "*", "/", "+", "-"} PROVE One(read[<<"list", i, j>>])
    <3>1. \A k \in i + 1..j - 2 : ts[k] = "," =>
            One(read[<<"list", i, k>>]) /\ One(read[<<"sum", k + 1, j>>])
      BY <2>1, <2>8 DEF OneMeans
    <3>2. {","} \cap {"(", "*", "/", "+", "-"} = {}
      OBVIOUS
    <3>3. One(read[<<"sum", i, j>>])
      BY <2>7, <2>8
    <3>4. One(ListFrom(read, ts, i, j))
      BY <2>8, <3>1, <3>2, <3>3, Chains, PhrasesEnd, OneOfLists
    <3> QED
      BY <2>5, <3>4
  <2> QED
    BY <2>2, <2>3, <2>6, <2>7, <2>8 DEF OneMeans
<1> QED
  BY <1>1, <1>2

LEMMA EveryPhraseMeansOne ==
  ASSUME NEW ts, Len(ts) \in Nat, NEW read, NEW values, Reading(read, ts, values)
  PROVE  \A w \in Nat : ShorterOne(read, ts, w)
<1> DEFINE S == {w \in Nat : ShorterOne(read, ts, w)}
           next == Len(ts) + 1
<1>1. 0 \in S
  <2>1. ASSUME NEW i \in Nat, NEW j \in Nat, j <= Len(ts) + 1, j - i < 0 PROVE OneMeans(read, ts, i, j)
    <3>1. ~(i < j)
      BY <2>1
    <3>2. \A kind \in Phrases : read[<<kind, i, j>>] = {}
      BY <3>1, ReadingHas DEF Has
    <3>3. \A kind \in Phrases : One(read[<<kind, i, j>>])
      BY <3>2 DEF One
    <3> QED
      BY <3>3 DEF OneMeans, Phrases
  <2> QED
    BY <2>1 DEF ShorterOne
<1>2. \A w \in Nat : w \in S => w + 1 \in S
  <2> SUFFICES ASSUME NEW w \in Nat, ShorterOne(read, ts, w) PROVE ShorterOne(read, ts, w + 1)
    OBVIOUS
  <2> SUFFICES ASSUME NEW i \in Nat, NEW j \in Nat, j <= Len(ts) + 1, j - i < w + 1
               PROVE  OneMeans(read, ts, i, j)
    BY DEF ShorterOne
  <2>1. \A p, q \in Nat : q - p < j - i => q - p < w
    OBVIOUS
  <2>2. ShorterOne(read, ts, j - i)
    BY <2>1 DEF ShorterOne
  <2> QED
    BY <2>2, PhraseMeansOne
<1> HIDE DEF S
<1>3. \A w \in Nat : w \in S
  BY <1>1, <1>2, AllNaturals
<1> QED
  BY <1>3 DEF S

\* A formula means one thing: whichever way the grammar reads a list of tokens, what comes
\* out is what the evaluator calculates from the tree of FormulaParser::parse(), so that
\* neither the precedence of the operators nor the side they associate to is left open.
THEOREM OneMeaning ==
  ASSUME NEW ts, Len(ts) \in Nat, NEW values, NEW nodes \in Parsed(ts)
  PROVE  Meanings(ts, values) = {Evaluated(nodes, values)}
<1> DEFINE n == Len(ts) + 1
<1>1. n \in Nat /\ n <= Len(ts) + 1 /\ n - 1 < n /\ TokenAt(ts, n) = "end"
  BY DEF TokenAt
<1>2. PICK read : /\ \A kind \in Phrases, i \in Nat, j \in Nat :
                       read[<<kind, i, j>>] = ReadFrom(read, ts, values, kind, i, j)
                  /\ Meanings(ts, values) = read[<<"sum", 1, n>>]
  BY MeaningsRead
<1> HIDE DEF n
<1>3. ShorterOne(read, ts, n)
  BY <1>1, <1>2, EveryPhraseMeansOne DEF Reading
<1>4. OneMeans(read, ts, 1, n)
  BY <1>1, <1>3 DEF ShorterOne
<1>5. One(Meanings(ts, values))
  BY <1>1, <1>2, <1>4 DEF OneMeans
<1>6. Evaluated(nodes, values) \in Meanings(ts, values)
  BY EvaluationIsMeaning
<1> QED
  BY <1>5, <1>6 DEF One
=============================================================================
