--------------------------- MODULE CommandProofs ---------------------------
(***************************************************************************)
(* Theorems about Command, for any arguments, environments, names, values  *)
(* and number of calls: what spawn() has made of the calls is what the     *)
(* child reads back.                                                       *)
(***************************************************************************)
EXTENDS Command, SequenceTheorems, FiniteSetTheorems, TLAPS

-----------------------------------------------------------------------------
(* Induction over the naturals, and functions defined by recursion.  The   *)
(* property that is proved by induction is given as a set.                 *)

\* A set of naturals that is not empty has a least element.
LEMMA NatHasMinimum ==
  ASSUME NEW T, T \subseteq Nat, T # {}
  PROVE  \E x \in T : \A y \in T : ~(y < x)
<1> DEFINE R == OpToRel(<, Nat)
<1>1. \A x, y \in Nat : <<x, y>> \in R <=> x < y
  BY DEF OpToRel
<1>2. IsWellFoundedOn(R, Nat)
  BY NatLessThanWellFounded
<1> HIDE DEF R
<1>3. PICK x \in T : \A y \in T : ~ (<<y, x>> \in R)
  BY <1>2, WFMin
<1> QED BY <1>1, <1>3

\* A set with 0 and the successors of its naturals has them all.
LEMMA NatInduct ==
  ASSUME NEW S, 0 \in S, \A n \in Nat : n \in S => n + 1 \in S
  PROVE  \A n \in Nat : n \in S
<1> SUFFICES ASSUME Nat \ S # {} PROVE FALSE
  OBVIOUS
<1>1. PICK x \in Nat \ S : \A y \in Nat \ S : ~ (y < x)
  BY NatHasMinimum
<1>2. x # 0 /\ x - 1 \in Nat
  BY <1>1
<1>3. x - 1 \in S
  BY <1>1, <1>2
<1> QED BY <1>1, <1>2, <1>3

\* The same for the naturals up to a bound.
LEMMA UpToInduct ==
  ASSUME NEW S, NEW N \in Nat, 0 \in S,
         \A n \in 0..(N - 1) : n \in S => n + 1 \in S
  PROVE  \A n \in 0..N : n \in S
<1> DEFINE T == {n \in Nat : n <= N => n \in S}
<1>1. 0 \in T
  OBVIOUS
<1>2. \A n \in Nat : n \in T => n + 1 \in T
  OBVIOUS
<1>3. \A n \in Nat : n \in T
  <2> HIDE DEF T
  <2> QED BY <1>1, <1>2, NatInduct
<1> QED BY <1>3

\* Whatever the steps of a loop are, there is a function of its states.
LEMMA LoopExists ==
  ASSUME NEW X, NEW b \in X, NEW N \in Nat, NEW s \in [1..N -> [X -> X]]
  PROVE  \E f \in [0..N -> X] :
           f[0] = b /\ \A n \in 1..N : f[n] = s[n][f[n - 1]]
<1> DEFINE Is(f, k) == f[0] = b /\ \A n \in 1..k : f[n] = s[n][f[n - 1]]
           S == {k \in 0..N : \E f \in [0..k -> X] : Is(f, k)}
<1>1. 0 \in S
  <2> DEFINE f == [n \in 0..0 |-> b]
  <2>1. f \in [0..0 -> X] /\ Is(f, 0)
    OBVIOUS
  <2> HIDE DEF f, Is
  <2> QED BY <2>1
<1>2. ASSUME NEW k \in 0..(N - 1), k \in S
      PROVE  k + 1 \in S
  <2>1. PICK f \in [0..k -> X] : Is(f, k)
    BY <1>2
  <2> DEFINE g == [n \in 0..(k + 1) |->
                     IF n = k + 1 THEN s[k + 1][f[k]] ELSE f[n]]
  <2>2. s[k + 1][f[k]] \in X
    <3>1. s[k + 1] \in [X -> X]
      OBVIOUS
    <3> QED BY <3>1
  <2>3. g \in [0..(k + 1) -> X]
    BY <2>2
  <2>4. Is(g, k + 1)
    BY <2>1
  <2>5. k + 1 \in 0..N
    OBVIOUS
  <2> HIDE DEF g, Is
  <2> QED BY <2>3, <2>4, <2>5
<1>3. N \in S
  <2>1. \A k \in 0..(N - 1) : k \in S => k + 1 \in S
    BY <1>2
  <2> HIDE DEF S
  <2>2. \A k \in 0..N : k \in S
    BY <1>1, <2>1, UpToInduct
  <2> QED BY <2>2
<1> QED BY <1>3

\* What every step of a loop preserves holds of all its states.
LEMMA LoopInvariant ==
  ASSUME NEW X, NEW N \in Nat, NEW f, f[0] \in X,
         \A n \in 1..N : f[n - 1] \in X => f[n] \in X
  PROVE  \A n \in 0..N : f[n] \in X
<1> DEFINE S == {n \in 0..N : f[n] \in X}
<1>1. 0 \in S /\ \A n \in 0..(N - 1) : n \in S => n + 1 \in S
  OBVIOUS
<1>2. \A n \in 0..N : n \in S
  <2> HIDE DEF S
  <2> QED BY <1>1, UpToInduct
<1> QED BY <1>2

-----------------------------------------------------------------------------
(* The loops of the code.                                                  *)

\* What quote_arg() has written, and holds back, at any time.
QuoteState == [out : Seq(Char), backslashes : Nat]

\* What the assumption says of the characters the code looks for.
LEMMA Characters ==
  /\ Backslash \in Char /\ Quote \in Char /\ Space \in Char
  /\ Blank \subseteq Char /\ Space \in Blank /\ Replaced \in Char
  /\ Backslash # Quote /\ Backslash \notin Blank /\ Quote \notin Blank
  /\ Replaced \notin Blank /\ Replaced # Quote /\ Replaced # Backslash
BY CommandAssumption DEF Backslash, Quote, Blank, Space, Replaced

\* Backslashes(n) is n backslashes.
LEMMA BackslashesType ==
  ASSUME NEW n \in Nat
  PROVE  /\ Backslashes(n) \in Seq(Char)
         /\ Len(Backslashes(n)) = n
         /\ \A i \in 1..n : Backslashes(n)[i] = Backslash
<1>1. Backslashes(n) \in Seq(Char)
  BY Characters DEF Backslashes
<1>2. Len(Backslashes(n)) = n
  BY DEF Backslashes
<1>3. \A i \in 1..n : Backslashes(n)[i] = Backslash
  BY DEF Backslashes
<1> QED BY <1>1, <1>2, <1>3

\* A step of the loop of quote_arg() keeps the types.
LEMMA QuoteCharType ==
  ASSUME NEW acc \in QuoteState, NEW c \in Char
  PROVE  QuoteChar(acc, c) \in QuoteState
<1>1. \A n \in Nat : Backslashes(n) \in Seq(Char)
  BY BackslashesType
<1>2. acc.out \in Seq(Char) /\ acc.backslashes \in Nat
  BY DEF QuoteState
<1>3. CASE c = Backslash
  BY <1>2, <1>3 DEF QuoteChar, QuoteState
<1>4. CASE c # Backslash
  <2> DEFINE k == IF c = Quote THEN 2 * acc.backslashes + 1
                  ELSE acc.backslashes
  <2>1. k \in Nat
    BY <1>2
  <2>2. acc.out \o Backslashes(k) \o <<c>> \in Seq(Char)
    <3> HIDE DEF k
    <3> QED BY <1>1, <1>2, <2>1
  <2>3. QuoteChar(acc, c) =
          [out |-> acc.out \o Backslashes(k) \o <<c>>, backslashes |-> 0]
    BY <1>4 DEF QuoteChar
  <2> HIDE DEF k
  <2> QED BY <2>2, <2>3 DEF QuoteState
<1> QED BY <1>3, <1>4

\* The loop of quote_arg(), step by step.
LEMMA QuotingIs ==
  ASSUME NEW arg \in Seq(Char)
  PROVE  /\ \A n \in 0..Len(arg) : Quoting(arg)[n] \in QuoteState
         /\ Quoting(arg)[0] = [out |-> <<Quote>>, backslashes |-> 0]
         /\ \A n \in 1..Len(arg) :
              Quoting(arg)[n] = QuoteChar(Quoting(arg)[n - 1], arg[n])
<1> DEFINE b == [out |-> <<Quote>>, backslashes |-> 0]
           N == Len(arg)
           s == [n \in 1..N |-> [x \in QuoteState |-> QuoteChar(x, arg[n])]]
           Is(f) == f = [n \in 0..N |-> IF n = 0 THEN b
                                        ELSE QuoteChar(f[n - 1], arg[n])]
           q == Quoting(arg)
<1>1. b \in QuoteState /\ N \in Nat
  BY Characters DEF QuoteState
<1>2. s \in [1..N -> [QuoteState -> QuoteState]]
  BY QuoteCharType
<1>3. PICK f \in [0..N -> QuoteState] :
           f[0] = b /\ \A n \in 1..N : f[n] = s[n][f[n - 1]]
  <2> HIDE DEF b, N, s
  <2> QED BY <1>1, <1>2, LoopExists
<1>4. Is(f)
  <2>1. ASSUME NEW n \in 1..N PROVE f[n] = QuoteChar(f[n - 1], arg[n])
    <3>1. f[n - 1] \in QuoteState /\ f[n] = s[n][f[n - 1]]
      <4> HIDE DEF s, b, N
      <4> QED BY <1>1, <1>3
    <3>2. s[n] = [x \in QuoteState |-> QuoteChar(x, arg[n])]
      OBVIOUS
    <3> QED BY <3>1, <3>2
  <2> QED BY <1>3, <2>1
<1>5. q = CHOOSE g : Is(g)
  BY DEF Quoting, Loop
<1>6. Is(q)
  <2> HIDE DEF Is, q
  <2> QED BY <1>4, <1>5
<1>7. q[0] = b /\ \A n \in 1..N : q[n] = QuoteChar(q[n - 1], arg[n])
  <2> HIDE DEF q, b
  <2> QED BY <1>6
<1>8. \A n \in 0..N : q[n] \in QuoteState
  <2>1. \A n \in 1..N : q[n - 1] \in QuoteState => q[n] \in QuoteState
    BY <1>7, QuoteCharType
  <2> HIDE DEF q, b, N
  <2> QED BY <1>1, <1>7, <2>1, LoopInvariant
<1> QED BY <1>7, <1>8

\* How the child's runtime stands, between two characters.
ParseState ==
  [argv : Seq(Seq(Char)), arg : Seq(Char),
   mode : {"between", "word", "quoted"}, slashes : Nat]

\* The runtime starts in a state of its own.
LEMMA NoArgType == NoArg \in ParseState
BY DEF NoArg, ParseState

\* What is held back is written as characters.
LEMMA FlushedType ==
  ASSUME NEW p \in ParseState
  PROVE  Flushed(p) \in Seq(Char)
BY BackslashesType DEF Flushed, ParseState

\* The end of an argument keeps the types.
LEMMA EndArgType ==
  ASSUME NEW p \in ParseState
  PROVE  EndArg(p) \in ParseState
<1>1. p.argv \in Seq(Seq(Char)) /\ Flushed(p) \in Seq(Char)
  BY FlushedType DEF ParseState
<1>2. Append(p.argv, Flushed(p)) \in Seq(Seq(Char))
  BY <1>1
<1> QED BY <1>2, NoArgType DEF EndArg, ParseState

\* A character that is read keeps the types.
LEMMA ParseCharType ==
  ASSUME NEW p \in ParseState, NEW c \in Char
  PROVE  ParseChar(p, c) \in ParseState
<1> DEFINE half == p.arg \o Backslashes(p.slashes \div 2)
<1>1. p.arg \in Seq(Char) /\ p.slashes \in Nat /\ p.slashes \div 2 \in Nat
  BY DEF ParseState
<1>2. half \in Seq(Char) /\ Append(half, Quote) \in Seq(Char)
  BY <1>1, BackslashesType, Characters
<1>3. Append(Flushed(p), c) \in Seq(Char)
  BY FlushedType
<1> HIDE DEF half
<1>4. CASE c = Backslash
  <2> DEFINE begun == IF p.mode = "between" THEN "word" ELSE p.mode
  <2>1. begun \in {"between", "word", "quoted"} /\ p.slashes + 1 \in Nat
    BY DEF ParseState
  <2>2. ParseChar(p, c) = [p EXCEPT !.mode = begun, !.slashes = @ + 1]
    BY <1>4 DEF ParseChar
  <2> HIDE DEF begun
  <2> QED BY <2>1, <2>2 DEF ParseState
<1>5. CASE c = Quote
  BY <1>2, <1>5, Characters DEF ParseChar, ParseState, half
<1>6. CASE c # Backslash /\ c # Quote
  BY <1>3, <1>6, EndArgType DEF ParseChar, ParseState
<1> QED BY <1>4, <1>5, <1>6

\* From p the runtime comes to q by the characters of s.
Trace(f, p, s) ==
  f[0] = p /\ \A n \in 1..Len(s) : f[n] = ParseChar(f[n - 1], s[n])

Reads(p, s, q) ==
  \E f \in [0..Len(s) -> ParseState] : Trace(f, p, s) /\ f[Len(s)] = q

\* The runtime can read any string.
LEMMA TraceExists ==
  ASSUME NEW p \in ParseState, NEW s \in Seq(Char)
  PROVE  \E f \in [0..Len(s) -> ParseState] : Trace(f, p, s)
<1> DEFINE N == Len(s)
           t == [n \in 1..N |-> [x \in ParseState |-> ParseChar(x, s[n])]]
<1>1. N \in Nat /\ t \in [1..N -> [ParseState -> ParseState]]
  BY ParseCharType
<1>2. PICK f \in [0..N -> ParseState] :
           f[0] = p /\ \A n \in 1..N : f[n] = t[n][f[n - 1]]
  <2> HIDE DEF N, t
  <2> QED BY <1>1, LoopExists
<1>3. ASSUME NEW n \in 1..N PROVE f[n] = ParseChar(f[n - 1], s[n])
  <2>1. f[n - 1] \in ParseState /\ f[n] = t[n][f[n - 1]]
    <3> HIDE DEF t, N
    <3> QED BY <1>1, <1>2
  <2>2. t[n] = [x \in ParseState |-> ParseChar(x, s[n])]
    OBVIOUS
  <2> QED BY <2>1, <2>2
<1> QED BY <1>2, <1>3 DEF Trace

\* What is read step by step is what Parsing() computes.
LEMMA ParsingIs ==
  ASSUME NEW s \in Seq(Char), NEW q, Reads(NoArg, s, q)
  PROVE  Parsing(s)[Len(s)] = q
<1> DEFINE N == Len(s)
           Is(f) == f = [n \in 0..N |-> IF n = 0 THEN NoArg
                                        ELSE ParseChar(f[n - 1], s[n])]
           g == Parsing(s)
<1>1. PICK f \in [0..N -> ParseState] : Trace(f, NoArg, s) /\ f[N] = q
  BY DEF Reads
<1>2. Is(f)
  BY <1>1 DEF Trace
<1>3. g = CHOOSE h : Is(h)
  BY DEF Parsing, Loop
<1>4. Is(g)
  <2> HIDE DEF Is, g
  <2> QED BY <1>2, <1>3
<1>5. g[0] = NoArg /\ \A n \in 1..N : g[n] = ParseChar(g[n - 1], s[n])
  <2> HIDE DEF g
  <2> QED BY <1>4
<1> DEFINE S == {n \in 0..N : g[n] = f[n]}
<1>6. 0 \in S /\ \A n \in 0..(N - 1) : n \in S => n + 1 \in S
  <2> HIDE DEF g
  <2> QED BY <1>1, <1>5 DEF Trace
<1>7. N \in S
  <2>1. N \in Nat /\ N \in 0..N
    OBVIOUS
  <2> HIDE DEF S, N
  <2> QED BY <1>6, <2>1, UpToInduct
<1> QED BY <1>1, <1>7

\* Nothing that is read changes nothing.
LEMMA ReadsNothing ==
  ASSUME NEW p \in ParseState
  PROVE  Reads(p, <<>>, p)
<1> DEFINE f == [n \in 0..0 |-> p]
<1>1. f \in [0..Len(<<>>) -> ParseState] /\ Trace(f, p, <<>>)
  BY DEF Trace
<1>2. f[Len(<<>>)] = p
  OBVIOUS
<1> QED BY <1>1, <1>2 DEF Reads

\* Whatever is read, the runtime is in one of its states.
LEMMA ReadsType ==
  ASSUME NEW p, NEW s \in Seq(Char), NEW q, Reads(p, s, q)
  PROVE  q \in ParseState
BY DEF Reads

\* One string after another is read in this order.
LEMMA ReadsTwo ==
  ASSUME NEW p, NEW s \in Seq(Char), NEW q, NEW t \in Seq(Char), NEW r,
         Reads(p, s, q), Reads(q, t, r)
  PROVE  Reads(p, s \o t, r)
<1>1. PICK f \in [0..Len(s) -> ParseState] : Trace(f, p, s) /\ f[Len(s)] = q
  BY DEF Reads
<1>2. PICK g \in [0..Len(t) -> ParseState] : Trace(g, q, t) /\ g[Len(t)] = r
  BY DEF Reads
<1> DEFINE h == [n \in 0..Len(s \o t) |->
                   IF n <= Len(s) THEN f[n] ELSE g[n - Len(s)]]
<1>3. Len(s \o t) = Len(s) + Len(t) /\ Len(s) \in Nat /\ Len(t) \in Nat
  OBVIOUS
<1>4. h \in [0..Len(s \o t) -> ParseState]
  BY <1>3
<1>5. ASSUME NEW n \in 1..Len(s \o t)
      PROVE  h[n] = ParseChar(h[n - 1], (s \o t)[n])
  <2>1. CASE n <= Len(s)
    <3>1. (s \o t)[n] = s[n] /\ h[n] = f[n] /\ h[n - 1] = f[n - 1]
      BY <1>3, <2>1
    <3> QED BY <1>1, <1>3, <2>1, <3>1 DEF Trace
  <2>2. CASE n = Len(s) + 1
    <3>1. (s \o t)[n] = t[1] /\ h[n] = g[1] /\ h[n - 1] = q
      BY <1>1, <1>3, <2>2
    <3>2. g[1] = ParseChar(g[0], t[1]) /\ g[0] = q
      BY <1>2, <1>3, <2>2 DEF Trace
    <3> QED BY <3>1, <3>2
  <2>3. CASE n > Len(s) + 1
    <3> DEFINE m == n - Len(s)
    <3>1. m \in 1..Len(t)
      BY <1>3, <2>3
    <3>2. (s \o t)[n] = t[m] /\ h[n] = g[m] /\ h[n - 1] = g[m - 1]
      BY <1>3, <2>3
    <3> QED BY <1>2, <3>1, <3>2 DEF Trace
  <2> QED BY <1>3, <2>1, <2>2, <2>3
<1>6. h[0] = p
  BY <1>1, <1>3 DEF Trace
<1>7. h[Len(s \o t)] = r
  <2>1. CASE Len(t) = 0
    BY <1>1, <1>2, <1>3, <2>1 DEF Trace
  <2>2. CASE Len(t) # 0
    BY <1>2, <1>3, <2>2
  <2> QED BY <2>1, <2>2
<1>8. Trace(h, p, s \o t)
  BY <1>5, <1>6 DEF Trace
<1> HIDE DEF h
<1> QED BY <1>4, <1>7, <1>8 DEF Reads

\* A single character is read as ParseChar() has it.
LEMMA ReadsChar ==
  ASSUME NEW p \in ParseState, NEW c \in Char
  PROVE  Reads(p, <<c>>, ParseChar(p, c))
<1> DEFINE f == [n \in 0..1 |-> IF n = 0 THEN p ELSE ParseChar(p, c)]
<1>1. f \in [0..1 -> ParseState]
  BY ParseCharType
<1>2. Len(<<c>>) = 1 /\ <<c>>[1] = c
  OBVIOUS
<1>3. Trace(f, p, <<c>>)
  BY <1>2 DEF Trace
<1> QED BY <1>1, <1>2, <1>3 DEF Reads


-----------------------------------------------------------------------------
(* An argument, from quote_arg() to the child.                             *)

\* Backslashes after backslashes.
LEMMA BackslashesSum ==
  ASSUME NEW m \in Nat, NEW n \in Nat
  PROVE  Backslashes(m) \o Backslashes(n) = Backslashes(m + n)
<1> DEFINE a == Backslashes(m)
           b == Backslashes(n)
           c == Backslashes(m + n)
<1>1. /\ a \in Seq(Char) /\ Len(a) = m /\ \A i \in 1..m : a[i] = Backslash
      /\ b \in Seq(Char) /\ Len(b) = n /\ \A i \in 1..n : b[i] = Backslash
      /\ c \in Seq(Char) /\ Len(c) = m + n
      /\ \A i \in 1..(m + n) : c[i] = Backslash
  BY BackslashesType
<1> SUFFICES a \o b = c
  OBVIOUS
<1> HIDE DEF a, b, c
<1>2. \A i \in 1..(m + n) : (a \o b)[i] = c[i]
  BY <1>1
<1>3. a \o b \in Seq(Char)
  BY <1>1
<1>4. Len(a \o b) = m + n
  BY <1>1
<1> QED BY <1>1, <1>2, <1>3, <1>4, SeqEqual

\* No backslash, and one.
LEMMA BackslashesFew ==
  Backslashes(0) = <<>> /\ Backslashes(1) = <<Backslash>>
BY DEF Backslashes

\* An odd number of backslashes, an even one, and half of them.
LEMMA OddHalf ==
  ASSUME NEW b \in Nat
  PROVE  /\ (2 * b + 1) % 2 = 1 /\ (2 * b + 1) \div 2 = b
         /\ (2 * b) % 2 = 0 /\ (2 * b) \div 2 = b
OBVIOUS

\* The runtime after A, at v of an argument, with k backslashes.
At(A, v, m, k) == [argv |-> A, arg |-> v, mode |-> m, slashes |-> k]

\* At() is a state of the runtime.
LEMMA AtType ==
  ASSUME NEW A \in Seq(Seq(Char)), NEW v \in Seq(Char), NEW k \in Nat,
         NEW m \in {"between", "word", "quoted"}
  PROVE  At(A, v, m, k) \in ParseState
BY DEF At, ParseState

\* Characters in quotes.
LEMMA QuotedParses ==
  ASSUME NEW A, NEW v, NEW b \in Nat
  PROVE  /\ ParseChar(At(A, v, "quoted", b), Backslash) =
               At(A, v, "quoted", b + 1)
         /\ ParseChar(At(A, v, "quoted", 2 * b + 1), Quote) =
               At(A, Append(v \o Backslashes(b), Quote), "quoted", 0)
         /\ ParseChar(At(A, v, "quoted", 2 * b), Quote) =
               At(A, v \o Backslashes(b), "word", 0)
<1>1. ParseChar(At(A, v, "quoted", b), Backslash) = At(A, v, "quoted", b + 1)
  BY DEF ParseChar, At
<1>2. ASSUME NEW k \in Nat, k % 2 = 1
      PROVE  ParseChar(At(A, v, "quoted", k), Quote) =
               At(A, Append(v \o Backslashes(k \div 2), Quote), "quoted", 0)
  BY <1>2, Characters DEF ParseChar, At
<1>3. ASSUME NEW k \in Nat, k % 2 = 0
      PROVE  ParseChar(At(A, v, "quoted", k), Quote) =
               At(A, v \o Backslashes(k \div 2), "word", 0)
  <2> DEFINE p == At(A, v, "quoted", k)
             w == v \o Backslashes(k \div 2)
  <2>1. p.slashes = k /\ p.arg = v /\ p.mode = "quoted"
    BY DEF At
  <2>2. ParseChar(p, Quote) = [p EXCEPT !.arg = w, !.mode = "word",
                                        !.slashes = 0]
    <3> HIDE DEF p
    <3> QED BY <1>3, <2>1, Characters DEF ParseChar
  <2>3. [p EXCEPT !.arg = w, !.mode = "word", !.slashes = 0] =
          At(A, w, "word", 0)
    <3> HIDE DEF w
    <3>1. [At(A, v, "quoted", k) EXCEPT !.arg = w] = At(A, w, "quoted", k)
      BY DEF At
    <3>2. [At(A, w, "quoted", k) EXCEPT !.mode = "word"] = At(A, w, "word", k)
      BY DEF At
    <3>3. [At(A, w, "word", k) EXCEPT !.slashes = 0] = At(A, w, "word", 0)
      BY DEF At
    <3> QED BY <3>1, <3>2, <3>3
  <2> QED BY <2>2, <2>3
<1>5. 2 * b + 1 \in Nat /\ 2 * b \in Nat
  OBVIOUS
<1> QED BY <1>1, <1>2, <1>3, <1>5, OddHalf

\* Another character in quotes stands for itself.
LEMMA OtherParses ==
  ASSUME NEW A, NEW v, NEW b \in Nat, NEW c \in Char,
         c # Backslash, c # Quote
  PROVE  ParseChar(At(A, v, "quoted", b), c) =
           At(A, Append(v \o Backslashes(b), c), "quoted", 0)
BY DEF ParseChar, At, Flushed

\* Backslashes are counted.
LEMMA ReadsBackslashes ==
  ASSUME NEW A \in Seq(Seq(Char)), NEW v \in Seq(Char), NEW k \in Nat
  PROVE  Reads(At(A, v, "quoted", 0), Backslashes(k), At(A, v, "quoted", k))
<1> DEFINE f == [n \in 0..k |-> At(A, v, "quoted", n)]
           b == Backslashes(k)
<1>1. f \in [0..k -> ParseState]
  BY AtType
<1>2. Len(b) = k /\ b \in Seq(Char) /\ \A n \in 1..k : b[n] = Backslash
  BY BackslashesType
<1>3. ASSUME NEW n \in 1..k PROVE f[n] = ParseChar(f[n - 1], Backslash)
  <2>1. /\ n - 1 \in Nat /\ (n - 1) + 1 = n
        /\ f[n] = At(A, v, "quoted", n) /\ f[n - 1] = At(A, v, "quoted", n - 1)
    OBVIOUS
  <2> HIDE DEF f
  <2> QED BY <2>1, QuotedParses
<1>4. f[0] = At(A, v, "quoted", 0) /\ f[k] = At(A, v, "quoted", k)
  OBVIOUS
<1>5. Trace(f, At(A, v, "quoted", 0), b)
  <2> HIDE DEF f, b
  <2> QED BY <1>2, <1>3, <1>4 DEF Trace
<1> HIDE DEF f
<1> QED BY <1>1, <1>2, <1>4, <1>5 DEF Reads

\* What has been written of an argument, and what is held back, is read as
\* the part w of it that has been passed.
Written(p, out, b, w) ==
  \E v \in Seq(Char) :
    Reads(p, out, At(p.argv, v, "quoted", 0)) /\ v \o Backslashes(b) = w

\* After some more backslashes and another character.
LEMMA WrittenReads ==
  ASSUME NEW p, p.argv \in Seq(Seq(Char)), NEW out \in Seq(Char),
         NEW v \in Seq(Char), Reads(p, out, At(p.argv, v, "quoted", 0)),
         NEW k \in Nat, NEW c \in Char
  PROVE  Reads(p, out \o Backslashes(k) \o <<c>>,
               ParseChar(At(p.argv, v, "quoted", k), c))
<1> DEFINE A == p.argv
           o == out \o Backslashes(k)
           q == At(A, v, "quoted", k)
<1>1. Backslashes(k) \in Seq(Char) /\ <<c>> \in Seq(Char)
  BY BackslashesType
<1>2. Reads(At(A, v, "quoted", 0), Backslashes(k), q)
  BY ReadsBackslashes
<1>3. Reads(p, o, q)
  BY <1>1, <1>2, ReadsTwo
<1>4. q \in ParseState
  BY AtType
<1>5. Reads(q, <<c>>, ParseChar(q, c))
  <2> HIDE DEF q
  <2> QED BY <1>4, ReadsChar
<1>6. o \in Seq(Char)
  BY <1>1
<1> SUFFICES Reads(p, o \o <<c>>, ParseChar(q, c))
  OBVIOUS
<1> HIDE DEF o, q
<1> QED BY <1>1, <1>3, <1>5, <1>6, ReadsTwo

\* What quote_arg() writes of a character is read as this character.
LEMMA QuoteCharReads ==
  ASSUME NEW p, p.argv \in Seq(Seq(Char)), NEW acc \in QuoteState,
         NEW w \in Seq(Char), NEW c \in Char,
         Written(p, acc.out, acc.backslashes, w)
  PROVE  LET next == QuoteChar(acc, c)
         IN  Written(p, next.out, next.backslashes, Append(w, c))
<1> DEFINE A == p.argv
           b == acc.backslashes
           out == acc.out
           next == QuoteChar(acc, c)
<1> SUFFICES Written(p, next.out, next.backslashes, Append(w, c))
  OBVIOUS
<1>1. PICK v \in Seq(Char) :
        Reads(p, out, At(A, v, "quoted", 0)) /\ v \o Backslashes(b) = w
  BY DEF Written
<1>2. out \in Seq(Char) /\ b \in Nat /\ 2 * b + 1 \in Nat /\ b + 1 \in Nat
  BY DEF QuoteState
<1>3. \A k \in Nat : Reads(p, out \o Backslashes(k) \o <<c>>,
                           ParseChar(At(A, v, "quoted", k), c))
  BY <1>1, <1>2, WrittenReads
<1>4. Append(w, c) \in Seq(Char)
      /\ Append(w, c) \o Backslashes(0) = Append(w, c)
  BY BackslashesFew
<1>5. CASE c = Backslash
  <2>1. next.out = out /\ next.backslashes = b + 1
    BY <1>5 DEF QuoteChar, QuoteState
  <2>2. Backslashes(b) \in Seq(Char) /\ <<c>> \in Seq(Char)
    BY <1>2, BackslashesType
  <2>3. Backslashes(b + 1) = Backslashes(b) \o <<c>>
    BY <1>2, <1>5, BackslashesSum, BackslashesFew
  <2>4. v \o (Backslashes(b) \o <<c>>) = (v \o Backslashes(b)) \o <<c>>
    BY <2>2, ConcatAssociative
  <2>5. Append(w, c) = w \o <<c>>
    BY AppendIsConcat
  <2>6. v \o Backslashes(b + 1) = Append(w, c)
    BY <1>1, <2>3, <2>4, <2>5
  <2> HIDE DEF next
  <2> QED BY <1>1, <2>1, <2>6 DEF Written
<1>6. CASE c = Quote
  <2>1. next.out = out \o Backslashes(2 * b + 1) \o <<c>>
        /\ next.backslashes = 0
    BY <1>6, Characters DEF QuoteChar
  <2>2. ParseChar(At(A, v, "quoted", 2 * b + 1), c) =
          At(A, Append(w, c), "quoted", 0)
    BY <1>1, <1>2, <1>6, QuotedParses
  <2>3. Reads(p, next.out, At(A, Append(w, c), "quoted", 0))
    BY <1>2, <1>3, <2>1, <2>2
  <2> HIDE DEF next
  <2> QED BY <1>4, <2>1, <2>3 DEF Written
<1>7. CASE c # Backslash /\ c # Quote
  <2>1. next.out = out \o Backslashes(b) \o <<c>> /\ next.backslashes = 0
    BY <1>7 DEF QuoteChar
  <2>2. ParseChar(At(A, v, "quoted", b), c) = At(A, Append(w, c), "quoted", 0)
    <3>1. ParseChar(At(A, v, "quoted", b), c) =
            At(A, Append(v \o Backslashes(b), c), "quoted", 0)
      BY <1>2, <1>7, OtherParses
    <3> QED BY <1>1, <3>1
  <2>3. Reads(p, next.out, At(A, Append(w, c), "quoted", 0))
    BY <1>2, <1>3, <2>1, <2>2
  <2> HIDE DEF next
  <2> QED BY <1>4, <2>1, <2>3 DEF Written
<1> QED BY <1>5, <1>6, <1>7

\* The runtime between two arguments.
Between(A) == At(A, <<>>, "between", 0)

\* Between arguments there is nothing to flush, and a quote opens one.
LEMMA BetweenType ==
  ASSUME NEW A \in Seq(Seq(Char))
  PROVE  /\ Between(A) \in ParseState /\ Between(A).argv = A
         /\ Between(A).mode = "between" /\ Flushed(Between(A)) = <<>>
         /\ ParseChar(Between(A), Quote) = At(A, <<>>, "quoted", 0)
<1>1. <<>> \in Seq(Char)
  OBVIOUS
<1>2. Between(A) \in ParseState
  BY <1>1, AtType DEF Between
<1>3. Between(A).argv = A /\ Between(A).mode = "between"
  BY DEF Between, At
<1>4. Flushed(Between(A)) = <<>>
  BY BackslashesFew DEF Between, At, Flushed
<1>5. ParseChar(Between(A), Quote) = At(A, <<>>, "quoted", 0)
  <2> DEFINE p == Between(A)
  <2>1. p = At(A, <<>>, "between", 0) /\ p.slashes = 0 /\ p.arg = <<>>
    BY DEF Between, At
  <2>2. 0 % 2 # 1 /\ 0 \div 2 = 0
    OBVIOUS
  <2>3. p.arg \o Backslashes(p.slashes \div 2) = <<>>
    <3> HIDE DEF p
    <3> QED BY <2>1, <2>2, BackslashesFew
  <2>4. ParseChar(p, Quote) = [p EXCEPT !.arg = <<>>, !.mode = "quoted",
                                        !.slashes = 0]
    <3>1. p.slashes % 2 # 1 /\ p.mode # "quoted"
      BY <1>3, <2>1, <2>2
    <3> HIDE DEF p
    <3> QED BY <2>3, <3>1, Characters DEF ParseChar
  <2> HIDE DEF p
  <2>5. [p EXCEPT !.arg = <<>>] = At(A, <<>>, "between", 0)
    BY <2>1 DEF At
  <2>6. [At(A, <<>>, "between", 0) EXCEPT !.mode = "quoted"] =
          At(A, <<>>, "quoted", 0)
    BY DEF At
  <2>7. [At(A, <<>>, "quoted", 0) EXCEPT !.slashes = 0] =
          At(A, <<>>, "quoted", 0)
    BY DEF At
  <2>8. [p EXCEPT !.arg = <<>>, !.mode = "quoted", !.slashes = 0] =
          At(A, <<>>, "quoted", 0)
    BY <2>5, <2>6, <2>7
  <2> QED BY <2>4, <2>8 DEF p
<1> QED BY <1>2, <1>3, <1>4, <1>5

\* The end of an argument adds it to those that were read.
LEMMA ArgEnds ==
  ASSUME NEW q \in ParseState, q.mode = "word"
  PROVE  EndArg(q) = Between(Append(q.argv, Flushed(q)))
BY DEF EndArg, NoArg, Between, At

\* A beginning of s, and one character more.
LEMMA PrefixGrows ==
  ASSUME NEW S, NEW s \in Seq(S), NEW n \in 0..(Len(s) - 1)
  PROVE  /\ SubSeq(s, 1, n + 1) = Append(SubSeq(s, 1, n), s[n + 1])
         /\ SubSeq(s, 1, n) \in Seq(S) /\ s[n + 1] \in S
<1>1. n + 1 \in 1..Len(s) /\ n + 1 \in 1..(n + 1) /\ (n + 1) - 1 = n
      /\ 1 \in 1..Len(s) /\ n + 1 \in 1..Len(s)
  OBVIOUS
<1>2. SubSeq(s, 1, n + 1) = SubSeq(s, 1, n) \o <<s[n + 1]>>
  BY <1>1, SubSeqRecursiveSecond
<1>3. SubSeq(s, 1, n) \in Seq(S) /\ s[n + 1] \in S
  BY SubSeqProperties
<1> QED BY <1>2, <1>3, AppendIsConcat

\* Quoted, an argument is read as it was.
LEMMA QuotedReads ==
  ASSUME NEW A \in Seq(Seq(Char)), NEW a \in Seq(Char), NeedsQuote(a)
  PROVE  Reads(Between(A), QuoteArg(a), At(A, a, "word", 0))
<1> DEFINE p == Between(A)
           Q == Quoting(a)
           N == Len(a)
           Is(j) == Written(p, Q[j].out, Q[j].backslashes, SubSeq(a, 1, j))
           S == {j \in 0..N : Is(j)}
<1>1. /\ \A n \in 0..N : Q[n] \in QuoteState
      /\ Q[0] = [out |-> <<Quote>>, backslashes |-> 0]
      /\ \A n \in 1..N : Q[n] = QuoteChar(Q[n - 1], a[n])
  BY QuotingIs
<1>2. p \in ParseState /\ p.argv = A
  BY BetweenType
<1>3. 0 \in S
  <2>1. Reads(p, <<Quote>>, ParseChar(p, Quote))
    BY <1>2, Characters, ReadsChar
  <2>2. Reads(p, <<Quote>>, At(p.argv, <<>>, "quoted", 0))
    BY <2>1, <1>2, BetweenType
  <2>3. SubSeq(a, 1, 0) = <<>> /\ <<>> \o Backslashes(0) = <<>>
    BY BackslashesFew
  <2>4. <<>> \in Seq(Char)
    OBVIOUS
  <2> HIDE DEF p
  <2>5. Written(p, <<Quote>>, 0, SubSeq(a, 1, 0))
    BY <2>2, <2>3, <2>4 DEF Written
  <2>6. Q[0].out = <<Quote>> /\ Q[0].backslashes = 0
    BY <1>1
  <2>7. Is(0)
    <3> HIDE DEF Q
    <3> QED BY <2>5, <2>6
  <2> HIDE DEF Is
  <2> QED BY <2>7
<1>4. ASSUME NEW n \in 0..(N - 1), n \in S PROVE n + 1 \in S
  <2>1. n + 1 \in 1..N /\ (n + 1) - 1 = n /\ n \in 0..N
    OBVIOUS
  <2>2. Q[n] \in QuoteState /\ Q[n + 1] = QuoteChar(Q[n], a[n + 1])
    <3> HIDE DEF Q
    <3> QED BY <1>1, <2>1
  <2>3. /\ SubSeq(a, 1, n + 1) = Append(SubSeq(a, 1, n), a[n + 1])
        /\ SubSeq(a, 1, n) \in Seq(Char) /\ a[n + 1] \in Char
    BY PrefixGrows
  <2>4. Is(n)
    BY <1>4
  <2> HIDE DEF Q, p
  <2>5. Is(n + 1)
    BY <1>2, <2>2, <2>3, <2>4, QuoteCharReads
  <2> HIDE DEF Is
  <2> QED BY <2>1, <2>5
<1>5. Is(N)
  <2>1. \A n \in 0..(N - 1) : n \in S => n + 1 \in S
    BY <1>4
  <2>2. N \in Nat /\ N \in 0..N
    OBVIOUS
  <2>3. N \in S
    <3> HIDE DEF S, N
    <3> QED BY <1>3, <2>1, <2>2, UpToInduct
  <2> QED BY <2>3
<1> DEFINE out == Q[N].out
           b == Q[N].backslashes
<1>6. out \in Seq(Char) /\ b \in Nat /\ 2 * b \in Nat
  <2>1. Q[N] \in QuoteState
    <3> HIDE DEF Q
    <3> QED BY <1>1
  <2> HIDE DEF Q
  <2> QED BY <2>1 DEF QuoteState
<1>7. PICK v \in Seq(Char) :
        Reads(p, out, At(p.argv, v, "quoted", 0)) /\ v \o Backslashes(b) = a
  <2>1. SubSeq(a, 1, N) = a
    BY SubSeqFull
  <2> HIDE DEF p, Q
  <2> QED BY <1>5, <2>1 DEF Written
<1>8. QuoteArg(a) = out \o Backslashes(2 * b) \o <<Quote>>
  BY DEF QuoteArg
<1>9. ParseChar(At(A, v, "quoted", 2 * b), Quote) = At(A, a, "word", 0)
  <2> HIDE DEF b
  <2> QED BY <1>6, <1>7, QuotedParses
<1> HIDE DEF p, out, b
<1>10. Reads(p, out \o Backslashes(2 * b) \o <<Quote>>,
             ParseChar(At(p.argv, v, "quoted", 2 * b), Quote))
  BY <1>2, <1>6, <1>7, Characters, WrittenReads
<1>11. Reads(p, QuoteArg(a), At(A, a, "word", 0))
  BY <1>2, <1>8, <1>9, <1>10
<1> QED BY <1>11 DEF p

\* A character outside of quotes that is neither blank nor a quote.
LEMMA PlainParses ==
  ASSUME NEW p \in ParseState, p.mode # "quoted",
         NEW c \in Char, c \notin Blank, c # Quote
  PROVE  LET q == ParseChar(p, c)
         IN  /\ q.argv = p.argv /\ q.mode = "word"
             /\ Flushed(q) = Append(Flushed(p), c)
<1> DEFINE q == ParseChar(p, c)
<1>1. p.arg \in Seq(Char) /\ p.slashes \in Nat
      /\ p.mode \in {"between", "word"}
  BY DEF ParseState
<1>2. Backslashes(p.slashes) \in Seq(Char) /\ Flushed(p) \in Seq(Char)
  BY <1>1, BackslashesType, FlushedType
<1>3. CASE c = Backslash
  <2>1. q = [p EXCEPT !.mode = "word", !.slashes = @ + 1]
    BY <1>1, <1>3 DEF ParseChar
  <2>2. /\ q.argv = p.argv /\ q.mode = "word" /\ q.arg = p.arg
        /\ q.slashes = p.slashes + 1
    <3> HIDE DEF q
    <3> QED BY <2>1 DEF ParseState
  <2>3. Backslashes(p.slashes + 1) = Backslashes(p.slashes) \o <<c>>
    BY <1>1, <1>3, BackslashesSum, BackslashesFew
  <2>4. p.arg \o (Backslashes(p.slashes) \o <<c>>) =
          (p.arg \o Backslashes(p.slashes)) \o <<c>>
    <3>1. ASSUME NEW x \in Seq(Char), NEW y \in Seq(Char)
          PROVE  x \o (y \o <<c>>) = (x \o y) \o <<c>>
      BY ConcatAssociative
    <3> QED BY <1>1, <1>2, <3>1
  <2>5. Append(Flushed(p), c) = Flushed(p) \o <<c>>
    BY <1>2, AppendIsConcat
  <2>6. Flushed(q) = Append(Flushed(p), c)
    <3> HIDE DEF q
    <3> QED BY <2>2, <2>3, <2>4, <2>5 DEF Flushed
  <2> QED BY <2>2, <2>6
<1>4. CASE c # Backslash
  <2>1. q = [p EXCEPT !.arg = Append(Flushed(p), c), !.mode = "word",
                      !.slashes = 0]
    BY <1>1, <1>4 DEF ParseChar
  <2>2. /\ q.argv = p.argv /\ q.mode = "word"
        /\ q.arg = Append(Flushed(p), c) /\ q.slashes = 0
    <3> HIDE DEF q
    <3> QED BY <2>1 DEF ParseState
  <2>3. Append(Flushed(p), c) \in Seq(Char)
    BY <1>2
  <2>4. Flushed(q) = Append(Flushed(p), c)
    <3> DEFINE w == Append(Flushed(p), c)
    <3>1. q.arg = w /\ q.slashes = 0 /\ w \in Seq(Char)
      BY <2>2, <2>3
    <3> SUFFICES Flushed(q) = w
      OBVIOUS
    <3> HIDE DEF q, w
    <3>2. Flushed(q) = w \o <<>>
      BY <3>1, BackslashesFew DEF Flushed
    <3> QED BY <3>1, <3>2
  <2> QED BY <2>2, <2>4
<1> QED BY <1>3, <1>4

\* An argument that needs no quotes is read as it is.
LEMMA PlainReads ==
  ASSUME NEW A \in Seq(Seq(Char)), NEW a \in Seq(Char), ~NeedsQuote(a)
  PROVE  \E q : /\ Reads(Between(A), a, q)
                /\ q.mode = "word" /\ q.argv = A /\ Flushed(q) = a
<1> DEFINE p == Between(A)
           N == Len(a)
<1>1. N \in Nat \ {0} /\ \A i \in 1..N : a[i] \notin Blank /\ a[i] # Quote
  BY DEF NeedsQuote
<1>2. /\ p \in ParseState /\ p.argv = A /\ p.mode = "between"
      /\ Flushed(p) = <<>>
  BY BetweenType
<1>3. PICK f \in [0..N -> ParseState] : Trace(f, p, a)
  <2> HIDE DEF p
  <2> QED BY <1>2, TraceExists
<1> DEFINE Is(n) == /\ f[n].argv = A /\ Flushed(f[n]) = SubSeq(a, 1, n)
                    /\ f[n].mode = IF n = 0 THEN "between" ELSE "word"
           S == {n \in 0..N : Is(n)}
<1>4. 0 \in S
  <2>1. f[0] = p /\ SubSeq(a, 1, 0) = <<>>
    BY <1>3 DEF Trace
  <2>2. Is(0)
    <3> HIDE DEF p
    <3> QED BY <1>2, <2>1
  <2> HIDE DEF Is
  <2> QED BY <2>2
<1>5. ASSUME NEW n \in 0..(N - 1), n \in S PROVE n + 1 \in S
  <2>1. n + 1 \in 1..N /\ (n + 1) - 1 = n /\ n \in 0..N /\ n + 1 # 0
    OBVIOUS
  <2>2. f[n] \in ParseState /\ f[n + 1] = ParseChar(f[n], a[n + 1])
    BY <1>3, <2>1 DEF Trace
  <2>3. /\ SubSeq(a, 1, n + 1) = Append(SubSeq(a, 1, n), a[n + 1])
        /\ a[n + 1] \in Char
    BY PrefixGrows
  <2>4. Is(n) /\ f[n].mode # "quoted"
    BY <1>5
  <2>5. /\ f[n + 1].argv = f[n].argv /\ f[n + 1].mode = "word"
        /\ Flushed(f[n + 1]) = Append(Flushed(f[n]), a[n + 1])
    BY <1>1, <2>1, <2>2, <2>3, <2>4, PlainParses
  <2>6. Is(n + 1)
    BY <2>1, <2>3, <2>4, <2>5
  <2> HIDE DEF Is
  <2> QED BY <2>1, <2>6
<1>6. N \in S
  <2>1. \A n \in 0..(N - 1) : n \in S => n + 1 \in S
    BY <1>5
  <2>2. N \in Nat /\ N \in 0..N
    OBVIOUS
  <2> HIDE DEF S, N
  <2> QED BY <1>4, <2>1, <2>2, UpToInduct
<1>7. SubSeq(a, 1, N) = a
  BY SubSeqFull
<1>8. f[N].mode = "word" /\ f[N].argv = A /\ Flushed(f[N]) = a
  BY <1>1, <1>6, <1>7
<1>9. Reads(p, a, f[N])
  <2> HIDE DEF p
  <2> QED BY <1>3 DEF Reads
<1> QED BY <1>8, <1>9

\* quote_arg() of an argument is read as this argument.
LEMMA ArgReads ==
  ASSUME NEW A \in Seq(Seq(Char)), NEW a \in Seq(Char)
  PROVE  \E q : /\ Reads(Between(A), QuoteArg(a), q)
                /\ q.mode = "word" /\ EndArg(q) = Between(Append(A, a))
<1>1. CASE NeedsQuote(a)
  <2> DEFINE q == At(A, a, "word", 0)
  <2>1. Reads(Between(A), QuoteArg(a), q)
    BY <1>1, QuotedReads
  <2>2. q \in ParseState
    BY AtType
  <2>3. q.mode = "word" /\ q.argv = A /\ Flushed(q) = a
    BY BackslashesFew DEF At, Flushed
  <2>4. EndArg(q) = Between(Append(A, a))
    <3> HIDE DEF q
    <3> QED BY <2>2, <2>3, ArgEnds
  <2> HIDE DEF q
  <2> QED BY <2>1, <2>3, <2>4
<1>2. CASE ~NeedsQuote(a)
  <2>1. QuoteArg(a) = a
    BY <1>2 DEF QuoteArg
  <2>2. PICK q : /\ Reads(Between(A), a, q)
                 /\ q.mode = "word" /\ q.argv = A /\ Flushed(q) = a
    BY <1>2, PlainReads
  <2>3. q \in ParseState
    BY <2>2, ReadsType
  <2>4. EndArg(q) = Between(Append(A, a))
    BY <2>2, <2>3, ArgEnds
  <2> QED BY <2>1, <2>2, <2>4
<1> QED BY <1>1, <1>2

\* quote_arg() writes characters.
LEMMA QuoteArgType ==
  ASSUME NEW a \in Seq(Char)
  PROVE  QuoteArg(a) \in Seq(Char)
<1> DEFINE acc == Quoting(a)[Len(a)]
<1>1. acc \in QuoteState
  <2>1. Len(a) \in 0..Len(a)
    OBVIOUS
  <2> QED BY <2>1, QuotingIs
<1>2. QuoteArg(a) = IF ~NeedsQuote(a) THEN a
                    ELSE acc.out \o Backslashes(2 * acc.backslashes)
                         \o <<Quote>>
  BY DEF QuoteArg
<1> HIDE DEF acc
<1>3. acc.out \in Seq(Char) /\ 2 * acc.backslashes \in Nat
  BY <1>1 DEF QuoteState
<1>4. Backslashes(2 * acc.backslashes) \in Seq(Char) /\ <<Quote>> \in Seq(Char)
  BY <1>3, BackslashesType, Characters
<1>5. ASSUME NEW x \in Seq(Char), NEW y \in Seq(Char), NEW z \in Seq(Char)
      PROVE  x \o y \o z \in Seq(Char)
  OBVIOUS
<1> QED BY <1>2, <1>3, <1>4, <1>5

\* to_string_lossy() keeps the length, and what it can of the rest.
LEMMA LossyType ==
  ASSUME NEW s \in Seq(Char)
  PROVE  /\ Lossy(s) \in Seq(Char) /\ Len(Lossy(s)) = Len(s)
         /\ \A i \in 1..Len(s) :
              Lossy(s)[i] = IF s[i] = Lone THEN Replaced ELSE s[i]
<1>1. DOMAIN s = 1..Len(s) /\ Len(s) \in Nat
  OBVIOUS
<1>2. Lossy(s) = [i \in 1..Len(s) |-> IF s[i] = Lone THEN Replaced ELSE s[i]]
  BY <1>1 DEF Lossy
<1>3. Lossy(s) \in [1..Len(s) -> Char]
  BY <1>2, Characters
<1> QED BY <1>1, <1>2, <1>3

-----------------------------------------------------------------------------
(* The line, from build_command_line() to the child.                       *)

\* A sequence with one element more than another.
LEMMA SeqGrows ==
  ASSUME NEW S, NEW x \in Seq(S), NEW e \in S, NEW y \in Seq(S),
         Len(y) = Len(x) + 1, y[Len(x) + 1] = e,
         \A i \in 1..Len(x) : y[i] = x[i]
  PROVE  y = Append(x, e)
<1>1. Append(x, e) \in Seq(S) /\ Len(Append(x, e)) = Len(y)
  BY AppendProperties
<1>2. \A i \in 1..Len(y) : y[i] = Append(x, e)[i]
  BY AppendProperties
<1> QED BY <1>1, <1>2, SeqEqual

\* The order of two concatenations does not matter.
LEMMA ConcatThree ==
  ASSUME NEW w \in Seq(Char), NEW x \in Seq(Char), NEW y \in Seq(Char)
  PROVE  (w \o x) \o y = w \o (x \o y)
BY ConcatAssociative

\* The arguments as the child reads them, the first j of them.
ReadArgs(words, j) == [i \in 1..j |-> Lossy(words[i])]

\* One argument more is read.
LEMMA ReadArgsGrow ==
  ASSUME NEW words \in Seq(Seq(Char)), NEW j \in 0..(Len(words) - 1)
  PROVE  /\ ReadArgs(words, j) \in Seq(Seq(Char))
         /\ ReadArgs(words, j + 1) =
              Append(ReadArgs(words, j), Lossy(words[j + 1]))
<1>1. \A i \in 1..Len(words) : Lossy(words[i]) \in Seq(Char)
  BY LossyType
<1> DEFINE x == ReadArgs(words, j)
           y == ReadArgs(words, j + 1)
           e == Lossy(words[j + 1])
<1>2. x \in [1..j -> Seq(Char)] /\ e \in Seq(Char)
  BY <1>1 DEF ReadArgs
<1>3. y \in [1..(j + 1) -> Seq(Char)]
  BY <1>1 DEF ReadArgs
<1>4. y[j + 1] = e /\ \A i \in 1..j : y[i] = x[i]
  BY DEF ReadArgs
<1> SUFFICES x \in Seq(Seq(Char)) /\ y = Append(x, e)
  OBVIOUS
<1> HIDE DEF x, y, e
<1>5. x \in Seq(Seq(Char)) /\ Len(x) = j
  BY <1>2
<1>6. y \in Seq(Seq(Char)) /\ Len(y) = j + 1
  BY <1>3
<1> QED BY <1>2, <1>4, <1>5, <1>6, SeqGrows

\* LoopExists for the loop of build_command_line().
LEMMA LineLoopExists ==
  ASSUME NEW b \in Seq(Char), NEW N \in Nat,
         NEW s \in [1..N -> [Seq(Char) -> Seq(Char)]]
  PROVE  \E f \in [0..N -> Seq(Char)] :
           f[0] = b /\ \A n \in 1..N : f[n] = s[n][f[n - 1]]
BY LoopExists

\* The loop of build_command_line(), step by step.
LEMMA BuildingIs ==
  ASSUME NEW prog \in Seq(Char), NEW words \in Seq(Seq(Char))
  PROVE  LET at == Loop(AddArg, QuoteArg(Lossy(prog)), words)
         IN  /\ at[0] = QuoteArg(Lossy(prog))
             /\ \A n \in 1..Len(words) : at[n] = AddArg(at[n - 1], words[n])
<1> DEFINE X == Seq(Char)
           b == QuoteArg(Lossy(prog))
           N == Len(words)
           s == [n \in 1..N |-> [x \in X |-> AddArg(x, words[n])]]
           Is(f) == f = [n \in 0..N |-> IF n = 0 THEN b
                                        ELSE AddArg(f[n - 1], words[n])]
           q == Loop(AddArg, QuoteArg(Lossy(prog)), words)
<1>1. b \in X /\ N \in Nat
  BY LossyType, QuoteArgType
<1>2. s \in [1..N -> [X -> X]]
  <2>1. ASSUME NEW n \in 1..N, NEW x \in X PROVE AddArg(x, words[n]) \in X
    <3>1. QuoteArg(Lossy(words[n])) \in X /\ <<Space>> \in X
      BY LossyType, QuoteArgType, Characters
    <3>2. ASSUME NEW y \in X, NEW z \in X PROVE x \o y \o z \in X
      OBVIOUS
    <3> QED BY <3>1, <3>2 DEF AddArg
  <2> QED BY <2>1
<1>3. PICK f \in [0..N -> X] :
           f[0] = b /\ \A n \in 1..N : f[n] = s[n][f[n - 1]]
  <2> HIDE DEF b, N, s
  <2> QED BY <1>1, <1>2, LineLoopExists
<1>4. Is(f)
  <2>1. ASSUME NEW n \in 1..N PROVE f[n] = AddArg(f[n - 1], words[n])
    <3>1. f[n - 1] \in X /\ f[n] = s[n][f[n - 1]]
      <4> HIDE DEF s, b, N, X
      <4> QED BY <1>1, <1>3
    <3>2. s[n] = [x \in X |-> AddArg(x, words[n])]
      OBVIOUS
    <3> QED BY <3>1, <3>2
  <2> QED BY <1>3, <2>1
<1>5. q = CHOOSE g : Is(g)
  BY DEF Loop
<1>6. Is(q)
  <2> HIDE DEF Is, q
  <2> QED BY <1>4, <1>5
<1>7. q[0] = b /\ \A n \in 1..N : q[n] = AddArg(q[n - 1], words[n])
  <2> HIDE DEF q, b, N
  <2> QED BY <1>1, <1>6
<1> QED BY <1>7

\* The line is the program and something that is read as the arguments.
LEMMA LineReads ==
  ASSUME NEW prog \in Seq(Char), NEW words \in Seq(Seq(Char))
  PROVE  \E T \in Seq(Char) : \E q :
           /\ BuildCommandLine(prog, words) = QuoteArg(Lossy(prog)) \o T
           /\ T = <<>> \/ T[1] = Space
           /\ Reads(NoArg, T, q)
           /\ EndArg(q) = Between(ReadArgs(words, Len(words)))
<1> DEFINE N == Len(words)
           h == QuoteArg(Lossy(prog))
           at == Loop(AddArg, h, words)
           Is(j, T, q) == /\ at[j] = h \o T
                          /\ T = <<>> \/ T[1] = Space
                          /\ Reads(NoArg, T, q) /\ q.mode # "quoted"
                          /\ EndArg(q) = Between(ReadArgs(words, j))
           Fits(j) == \E T \in Seq(Char) : \E q : Is(j, T, q)
           S == {j \in 0..N : Fits(j)}
<1>1. h \in Seq(Char)
  BY LossyType, QuoteArgType
<1>2. at[0] = h /\ \A n \in 1..N : at[n] = AddArg(at[n - 1], words[n])
  BY BuildingIs
<1>3. Fits(0)
  <2>1. h = h \o <<>> /\ <<>> \in Seq(Char)
    BY <1>1
  <2>2. ReadArgs(words, 0) = <<>>
    BY DEF ReadArgs
  <2>3. Reads(NoArg, <<>>, NoArg)
    BY NoArgType, ReadsNothing
  <2>4. NoArg = Between(<<>>) /\ NoArg.mode = "between" /\ EndArg(NoArg) = NoArg
    BY DEF NoArg, Between, At, EndArg
  <2> HIDE DEF h, at
  <2>5. Is(0, <<>>, NoArg)
    BY <1>2, <2>1, <2>2, <2>3, <2>4
  <2> HIDE DEF Is
  <2> QED BY <2>1, <2>5
<1>4. ASSUME NEW j \in 0..(N - 1), Fits(j)
      PROVE  Fits(j + 1)
  <2>0. PICK T \in Seq(Char) : \E q : Is(j, T, q)
    BY <1>4
  <2>1. PICK q : Is(j, T, q)
    BY <2>0
  <2> DEFINE a == Lossy(words[j + 1])
             R == T \o <<Space>>
             A == ReadArgs(words, j)
  <2>2. /\ j + 1 \in 1..N /\ (j + 1) - 1 = j
        /\ words[j + 1] \in Seq(Char) /\ <<Space>> \in Seq(Char)
    BY Characters
  <2>3. a \in Seq(Char) /\ QuoteArg(a) \in Seq(Char)
    BY <2>2, LossyType, QuoteArgType
  <2>4. A \in Seq(Seq(Char)) /\ ReadArgs(words, j + 1) = Append(A, a)
    BY ReadArgsGrow
  <2>5. q \in ParseState /\ q.mode # "quoted"
    <3> HIDE DEF h, at
    <3> QED BY <2>1, ReadsType
  <2>6. ParseChar(q, Space) = Between(A)
    <3>1. EndArg(q) = Between(A)
      <4> HIDE DEF h, at
      <4> QED BY <2>1
    <3> QED BY <2>5, <3>1, Characters DEF ParseChar
  <2>7. Reads(NoArg, R, Between(A))
    <3>1. Reads(NoArg, T, q)
      BY <2>1
    <3>2. Reads(q, <<Space>>, Between(A))
      BY <2>5, <2>6, ReadsChar, Characters
    <3> QED BY <2>2, <3>1, <3>2, ReadsTwo
  <2>8. PICK r : /\ Reads(Between(A), QuoteArg(a), r)
                 /\ r.mode = "word" /\ EndArg(r) = Between(Append(A, a))
    BY <2>3, <2>4, ArgReads
  <2> DEFINE U == R \o QuoteArg(a)
  <2>9. R \in Seq(Char) /\ U \in Seq(Char)
    BY <2>2, <2>3
  <2>10. Reads(NoArg, U, r)
    BY <2>3, <2>7, <2>8, <2>9, ReadsTwo
  <2>11. U = <<>> \/ U[1] = Space
    <3>1. R[1] = Space /\ Len(R) > 0
      <4>1. T = <<>> \/ T[1] = Space
        BY <2>1
      <4> QED BY <4>1
    <3> HIDE DEF R
    <3> QED BY <2>3, <2>9, <3>1
  <2>12. at[j + 1] = h \o U
    <3>1. at[j + 1] = AddArg(at[j], words[j + 1]) /\ at[j] = h \o T
      <4>1. at[j] = h \o T
        BY <2>1
      <4> HIDE DEF at
      <4> QED BY <1>2, <2>2, <4>1
    <3>2. at[j + 1] = (h \o T) \o <<Space>> \o QuoteArg(a)
      <4> HIDE DEF at, h
      <4> QED BY <3>1 DEF AddArg
    <3> DEFINE y == <<Space>>
               z == QuoteArg(a)
    <3>3. y \in Seq(Char) /\ z \in Seq(Char)
      BY <2>2, <2>3
    <3>4. at[j + 1] = (h \o T) \o y \o z /\ R = T \o y /\ U = R \o z
      BY <3>2
    <3> HIDE DEF at, h, a, y, z, U
    <3>5. (h \o T) \o y = h \o (T \o y)
      BY <1>1, <3>3, ConcatThree
    <3> HIDE DEF R
    <3>6. (h \o R) \o z = h \o (R \o z)
      BY <1>1, <2>9, <3>3, ConcatThree
    <3> QED BY <3>4, <3>5, <3>6
  <2>13. Is(j + 1, U, r)
    <3> HIDE DEF U, h, at
    <3> QED BY <2>4, <2>8, <2>10, <2>11, <2>12
  <2> HIDE DEF Is, U
  <2> QED BY <2>9, <2>13
<1>5. Fits(N)
  <2>1. 0 \in S
    <3> HIDE DEF Fits
    <3> QED BY <1>3
  <2>2. ASSUME NEW n \in 0..(N - 1), n \in S PROVE n + 1 \in S
    <3>1. n + 1 \in 0..N
      OBVIOUS
    <3> HIDE DEF Fits
    <3>2. Fits(n)
      BY <2>2
    <3> QED BY <1>4, <3>1, <3>2
  <2>3. N \in Nat /\ N \in 0..N
    OBVIOUS
  <2>4. N \in S
    <3>1. \A n \in 0..(N - 1) : n \in S => n + 1 \in S
      BY <2>2
    <3> HIDE DEF S, N
    <3> QED BY <2>1, <2>3, <3>1, UpToInduct
  <2> HIDE DEF Fits
  <2> QED BY <2>4
<1>13. PICK T \in Seq(Char) : \E q : Is(N, T, q)
  BY <1>5
<1>6. PICK q : Is(N, T, q)
  BY <1>13
<1>7. BuildCommandLine(prog, words) = at[N]
  BY DEF BuildCommandLine
<1> HIDE DEF at
<1> QED BY <1>6, <1>7

\* A prefix and the character after it.
LEMMA PrefixConcat ==
  ASSUME NEW s \in Seq(Char), NEW n \in 0..(Len(s) - 1)
  PROVE  SubSeq(s, 1, n + 1) = SubSeq(s, 1, n) \o <<s[n + 1]>>
<1> DEFINE x == SubSeq(s, 1, n)
           c == s[n + 1]
<1>1. SubSeq(s, 1, n + 1) = Append(x, c) /\ x \in Seq(Char) /\ c \in Char
  BY PrefixGrows
<1>2. Append(x, c) = x \o <<c>>
  <2> HIDE DEF x, c
  <2> QED BY <1>1, AppendIsConcat
<1> QED BY <1>1, <1>2

\* A plain character is written after what was held back.
LEMMA QuoteCharWrites ==
  ASSUME NEW acc \in QuoteState, NEW c \in Char,
         c # Backslash, c # Quote
  PROVE  /\ QuoteChar(acc, c).out =
               acc.out \o Backslashes(acc.backslashes) \o <<c>>
         /\ QuoteChar(acc, c).backslashes = 0
BY DEF QuoteChar

\* A program that is quoted is only put between quotes.
LEMMA ProgramQuoted ==
  ASSUME NEW w \in Seq(Char), w # <<>>, NeedsQuote(w),
         \A i \in 1..Len(w) : w[i] # Quote, w[Len(w)] # Backslash
  PROVE  QuoteArg(w) = <<Quote>> \o w \o <<Quote>>
<1> DEFINE Q == Quoting(w)
           N == Len(w)
           Is(j) == Q[j].out \o Backslashes(Q[j].backslashes) =
                      <<Quote>> \o SubSeq(w, 1, j)
           S == {j \in 0..N : Is(j)}
<1>1. /\ \A n \in 0..N : Q[n] \in QuoteState
      /\ Q[0] = [out |-> <<Quote>>, backslashes |-> 0]
      /\ \A n \in 1..N : Q[n] = QuoteChar(Q[n - 1], w[n])
  BY QuotingIs
<1>2. <<Quote>> \in Seq(Char) /\ N \in Nat /\ N \in 0..N /\ N \in 1..N
  BY Characters
<1>3. 0 \in S
  <2>1. SubSeq(w, 1, 0) = <<>>
    OBVIOUS
  <2>2. <<Quote>> \o <<>> = <<Quote>>
    BY <1>2
  <2>3. Q[0].out = <<Quote>> /\ Q[0].backslashes = 0
    BY <1>1
  <2>4. Is(0)
    <3> HIDE DEF Q
    <3> QED BY <2>1, <2>2, <2>3, BackslashesFew
  <2> HIDE DEF Is
  <2> QED BY <2>4
<1>4. ASSUME NEW n \in 0..(N - 1), n \in S PROVE n + 1 \in S
  <2>1. n + 1 \in 1..N /\ (n + 1) - 1 = n /\ n \in 0..N
    OBVIOUS
  <2> DEFINE out == Q[n].out
             b == Q[n].backslashes
             c == w[n + 1]
             y == <<c>>
             x == SubSeq(w, 1, n)
             s == <<Quote>>
  <2>2. out \in Seq(Char) /\ b \in Nat /\ Q[n + 1] = QuoteChar(Q[n], c)
    <3>1. Q[n] \in QuoteState /\ Q[n + 1] = QuoteChar(Q[n], w[n + 1])
      <4> HIDE DEF Q
      <4> QED BY <1>1, <2>1
    <3> HIDE DEF Q
    <3> QED BY <3>1 DEF QuoteState
  <2>3. /\ SubSeq(w, 1, n + 1) = Append(x, c)
        /\ x \in Seq(Char) /\ c \in Char /\ c # Quote
    BY <2>1, PrefixGrows
  <2>4. /\ y \in Seq(Char) /\ s \in Seq(Char) /\ SubSeq(w, 1, n + 1) = x \o y
    <3>1. SubSeq(w, 1, n + 1) = x \o y
      BY PrefixConcat
    <3> HIDE DEF x, c
    <3> QED BY <1>2, <2>3, <3>1
  <2>5. Backslashes(b) \in Seq(Char)
    <3> HIDE DEF b
    <3> QED BY <2>2, BackslashesType
  <2>6. out \o Backslashes(b) = s \o x
    BY <1>4
  <2>7. (out \o Backslashes(b)) \o y = s \o SubSeq(w, 1, n + 1)
    <3> HIDE DEF out, b, x, y, s
    <3>1. (s \o x) \o y = s \o (x \o y)
      BY <2>3, <2>4, ConcatThree
    <3> QED BY <2>4, <2>6, <3>1
  <2>8. Q[n + 1].out \o Backslashes(Q[n + 1].backslashes) =
          (out \o Backslashes(b)) \o y
    <3>1. CASE c = Backslash
      <4>1. Q[n + 1].out = out /\ Q[n + 1].backslashes = b + 1
        <5>1. Q[n + 1] = [Q[n] EXCEPT !.backslashes = @ + 1]
          <6> HIDE DEF Q
          <6> QED BY <2>2, <3>1 DEF QuoteChar
        <5>2. Q[n] \in QuoteState
          BY <1>1, <2>1
        <5> HIDE DEF Q
        <5> QED BY <5>1, <5>2 DEF QuoteState
      <4>2. Backslashes(b + 1) = Backslashes(b) \o y
        <5> HIDE DEF b, c
        <5> QED BY <2>2, <3>1, BackslashesSum, BackslashesFew
      <4>3. out \o (Backslashes(b) \o y) = (out \o Backslashes(b)) \o y
        <5> DEFINE z == Backslashes(b)
        <5> HIDE DEF z, y, out
        <5> QED BY <2>2, <2>4, <2>5, ConcatThree DEF z
      <4> HIDE DEF Q, out, b, y
      <4> QED BY <4>1, <4>2, <4>3
    <3>2. CASE c # Backslash
      <4>1. /\ Q[n + 1].out = out \o Backslashes(b) \o y
            /\ Q[n + 1].backslashes = 0
        <5> DEFINE acc == Q[n]
        <5>1. c # Backslash /\ c # Quote /\ c \in Char
          BY <2>3, <3>2
        <5>2. acc \in QuoteState /\ Q[n + 1] = QuoteChar(acc, c)
          BY <1>1, <2>1, <2>2
        <5> HIDE DEF Q, acc, c
        <5>3. /\ QuoteChar(acc, c).out =
                   acc.out \o Backslashes(acc.backslashes) \o <<c>>
              /\ QuoteChar(acc, c).backslashes = 0
          BY <5>1, <5>2, QuoteCharWrites
        <5> QED BY <5>2, <5>3 DEF acc
      <4>2. out \o Backslashes(b) \o y \in Seq(Char)
        <5> DEFINE z == Backslashes(b)
        <5> HIDE DEF z, y, out
        <5> QED BY <2>2, <2>4, <2>5 DEF z
      <4> DEFINE e == out \o Backslashes(b) \o y
      <4> SUFFICES Q[n + 1].out \o Backslashes(Q[n + 1].backslashes) = e
        OBVIOUS
      <4>3. Q[n + 1].out = e /\ e \in Seq(Char)
        BY <4>1, <4>2
      <4>4. Q[n + 1].backslashes = 0
        BY <4>1
      <4> HIDE DEF e, Q
      <4>5. e \o <<>> = e
        BY <4>3
      <4> QED BY <4>3, <4>4, <4>5, BackslashesFew
    <3> QED BY <3>1, <3>2
  <2>9. Is(n + 1)
    <3> HIDE DEF Q, out, b, y, s
    <3> QED BY <2>7, <2>8 DEF s
  <2> HIDE DEF Is
  <2> QED BY <2>1, <2>9
<1>5. Is(N)
  <2>1. \A n \in 0..(N - 1) : n \in S => n + 1 \in S
    BY <1>4
  <2>2. N \in S
    <3> HIDE DEF S, N
    <3> QED BY <1>2, <1>3, <2>1, UpToInduct
  <2> QED BY <2>2
<1>6. Q[N].backslashes = 0
  <2>1. Q[N] = QuoteChar(Q[N - 1], w[N])
    <3> HIDE DEF Q
    <3> QED BY <1>1, <1>2
  <2> HIDE DEF Q
  <2> QED BY <2>1 DEF QuoteChar
<1>7. Q[N].out = <<Quote>> \o w
  <2>1. Q[N].out \in Seq(Char)
    <3>1. Q[N] \in QuoteState
      <4> HIDE DEF Q
      <4> QED BY <1>1, <1>2
    <3> HIDE DEF Q
    <3> QED BY <3>1 DEF QuoteState
  <2>2. SubSeq(w, 1, N) = w
    BY SubSeqFull
  <2> DEFINE e == Q[N].out
  <2>3. e \o Backslashes(0) = <<Quote>> \o w
    <3> HIDE DEF Q
    <3> QED BY <1>5, <1>6, <2>2
  <2> HIDE DEF e
  <2>4. e \o <<>> = e
    BY <2>1 DEF e
  <2> QED BY <2>3, <2>4, BackslashesFew DEF e
<1>8. QuoteArg(w) = Q[N].out \o Backslashes(2 * Q[N].backslashes) \o <<Quote>>
  BY DEF QuoteArg
<1>9. (<<Quote>> \o w) \o <<>> = <<Quote>> \o w
  BY <1>2
<1> HIDE DEF Q
<1> QED BY <1>6, <1>7, <1>8, <1>9, BackslashesFew

\* The first place of a sequence where it has one of some elements.
LEMMA FirstPlace ==
  ASSUME NEW s, NEW P, NEW n \in 1..Len(s), Len(s) \in Nat, s[n] \in P,
         \A i \in 1..(n - 1) : s[i] \notin P
  PROVE  LET I == {i \in 1..Len(s) : s[i] \in P}
         IN  I # {} /\ Min(I) = n
<1> DEFINE I == {i \in 1..Len(s) : s[i] \in P}
<1>1. n \in I /\ \A i \in I : n <= i
  OBVIOUS
<1>2. Min(I) = n
  <2> HIDE DEF I
  <2>1. I \subseteq Nat
    BY DEF I
  <2>2. ASSUME NEW x \in I, \A y \in I : x =< y PROVE x = n
    BY <1>1, <2>1, <2>2
  <2> QED BY <1>1, <2>2 DEF Min
<1> SUFFICES I # {} /\ Min(I) = n
  OBVIOUS
<1> HIDE DEF I
<1> QED BY <1>1, <1>2

\* Where the program ends that is quoted, and one that is not.
LEMMA QuotedEnd ==
  ASSUME NEW s, s[1] = Quote,
         NEW n \in 1..Len(Append(Tail(s), Quote)),
         Len(Append(Tail(s), Quote)) \in Nat,
         Append(Tail(s), Quote)[n] = Quote,
         \A i \in 1..(n - 1) : Append(Tail(s), Quote)[i] # Quote
  PROVE  ProgramEnd(s) = n
<1> DEFINE u == Append(Tail(s), Quote)
           P == {Quote}
           I == {i \in 1..Len(u) : u[i] \in P}
           J == {i \in 1..Len(u) : u[i] = Quote}
<1>1. u[n] \in P /\ (\A i \in 1..(n - 1) : u[i] \notin P)
      /\ n \in 1..Len(u) /\ Len(u) \in Nat
  OBVIOUS
<1>2. I # {} /\ Min(I) = n
  <2> HIDE DEF u, P
  <2> QED BY <1>1, FirstPlace
<1>3. I = J
  OBVIOUS
<1>4. ProgramEnd(s) = IF J # {} THEN Min(J) ELSE 0
  BY DEF ProgramEnd, SelectInSeq
<1> HIDE DEF I, J
<1> QED BY <1>2, <1>3, <1>4

\* The same for a program without quotes around it.
LEMMA PlainEnd ==
  ASSUME NEW s, s[1] # Quote,
         NEW n \in 1..Len(Append(Tail(s), Quote)),
         Len(Append(Tail(s), Quote)) \in Nat,
         Append(Tail(s), Quote)[n] \in Blank \cup {Quote},
         \A i \in 1..(n - 1) :
           Append(Tail(s), Quote)[i] \notin Blank \cup {Quote}
  PROVE  ProgramEnd(s) = n
<1> DEFINE u == Append(Tail(s), Quote)
           P == Blank \cup {Quote}
           I == {i \in 1..Len(u) : u[i] \in P}
<1>1. u[n] \in P /\ (\A i \in 1..(n - 1) : u[i] \notin P)
      /\ n \in 1..Len(u) /\ Len(u) \in Nat
  OBVIOUS
<1>2. I # {} /\ Min(I) = n
  <2> HIDE DEF u, P
  <2> QED BY <1>1, FirstPlace
<1>3. ProgramEnd(s) = IF I # {} THEN Min(I) ELSE 0
  BY DEF ProgramEnd, SelectInSeq
<1> HIDE DEF I
<1> QED BY <1>2, <1>3

\* A sequence without its first element, and with another at its end.
LEMMA Shifted ==
  ASSUME NEW z \in Seq(Char), z # <<>>, NEW c \in Char,
         NEW v, v = Append(Tail(z), c)
  PROVE  /\ v \in Seq(Char) /\ Len(v) = Len(z)
         /\ \A i \in 1..(Len(z) - 1) : v[i] = z[i + 1]
         /\ v[Len(z)] = c
<1> DEFINE u == Tail(z)
<1>1. /\ u \in Seq(Char) /\ Len(u) = Len(z) - 1 /\ Len(z) \in Nat
      /\ \A i \in 1..Len(u) : u[i] = z[i + 1]
  BY HeadTailProperties
<1> HIDE DEF u
<1>2. v \in Seq(Char) /\ Len(v) = Len(z)
  BY <1>1 DEF u
<1>3. \A i \in 1..(Len(z) - 1) : v[i] = z[i + 1]
  <2>1. \A i \in 1..Len(u) : Append(u, c)[i] = u[i]
    BY <1>1, AppendProperties
  <2> QED BY <1>1, <2>1 DEF u
<1>4. v[Len(z)] = c
  BY <1>1 DEF u
<1> QED BY <1>2, <1>3, <1>4

\* y is s, and then t.
Joins(y, s, t) ==
  /\ y \in Seq(Char) /\ Len(y) = Len(s) + Len(t)
  /\ \A i \in 1..Len(s) : y[i] = s[i]
  /\ \A i \in 1..Len(t) : y[Len(s) + i] = t[i]

\* Two strings, joined.
LEMMA Joined ==
  ASSUME NEW s \in Seq(Char), NEW t \in Seq(Char)
  PROVE  Joins(s \o t, s, t)
<1> DEFINE y == s \o t
<1>1. y \in Seq(Char)
  OBVIOUS
<1>2. Len(y) = Len(s) + Len(t)
  OBVIOUS
<1>3. \A i \in 1..Len(s) : y[i] = s[i]
  OBVIOUS
<1>4. \A i \in 1..Len(t) : y[Len(s) + i] = t[i]
  OBVIOUS
<1> HIDE DEF y
<1>5. Joins(y, s, t)
  BY <1>1, <1>2, <1>3, <1>4 DEF Joins
<1> QED BY <1>5 DEF y

\* y is a sequence between two quotes, and what follows.
QuotedJoins(y, w, T) ==
  /\ y \in Seq(Char) /\ Len(y) = Len(w) + 2 + Len(T)
  /\ y[1] = Quote /\ y[Len(w) + 2] = Quote
  /\ \A i \in 1..Len(w) : y[i + 1] = w[i]
  /\ \A i \in 1..Len(T) : y[i + Len(w) + 2] = T[i]

\* A string in quotes and what comes after it.
LEMMA Quoted ==
  ASSUME NEW w \in Seq(Char), NEW T \in Seq(Char)
  PROVE  QuotedJoins(<<Quote>> \o w \o <<Quote>> \o T, w, T)
<1> DEFINE a == <<Quote>>
           x == a \o w
           v == x \o a
           y == v \o T
<1>0. /\ a \in Seq(Char) /\ Len(a) = 1 /\ a[1] = Quote
      /\ Len(w) \in Nat /\ Len(T) \in Nat
  BY Characters
<1> HIDE DEF a
<1>1. /\ x \in Seq(Char) /\ Len(x) = Len(a) + Len(w)
      /\ \A i \in 1..Len(a) : x[i] = a[i]
      /\ \A i \in 1..Len(w) : x[Len(a) + i] = w[i]
  <2>1. Joins(x, a, w)
    BY <1>0, Joined
  <2> HIDE DEF x
  <2> QED BY <2>1 DEF Joins
<1> HIDE DEF x
<1>3. /\ v \in Seq(Char) /\ Len(v) = Len(x) + Len(a)
      /\ \A i \in 1..Len(x) : v[i] = x[i]
      /\ \A i \in 1..Len(a) : v[Len(x) + i] = a[i]
  <2>1. Joins(v, x, a)
    BY <1>0, <1>1, Joined
  <2> HIDE DEF v
  <2> QED BY <2>1 DEF Joins
<1> HIDE DEF v
<1>4. /\ y \in Seq(Char) /\ Len(y) = Len(v) + Len(T)
      /\ \A i \in 1..Len(v) : y[i] = v[i]
      /\ \A i \in 1..Len(T) : y[Len(v) + i] = T[i]
  <2>1. Joins(y, v, T)
    BY <1>3, Joined
  <2> HIDE DEF y
  <2> QED BY <2>1 DEF Joins
<1> HIDE DEF y
<1>5. Len(x) = Len(w) + 1 /\ Len(v) = Len(w) + 2
  <2>1. ASSUME NEW i \in Nat, NEW j, NEW k, NEW l,
               j = 1, k = j + i, l = k + j
        PROVE  k = i + 1 /\ l = i + 2
    BY <2>1
  <2>2. Len(w) \in Nat /\ Len(a) = 1
    BY <1>0
  <2>3. Len(x) = Len(a) + Len(w)
    BY <1>1
  <2>4. Len(v) = Len(x) + Len(a)
    BY <1>3
  <2> QED BY <2>1, <2>2, <2>3, <2>4
<1>6. y[1] = Quote
  <2>1. y[1] = v[1] /\ v[1] = x[1] /\ x[1] = a[1]
    BY <1>1, <1>0, <1>3, <1>4, <1>5
  <2> QED BY <1>0, <2>1
<1>7. y[Len(w) + 2] = Quote
  <2>1. y[Len(w) + 2] = v[Len(w) + 2]
    BY <1>0, <1>4, <1>5
  <2>2. v[Len(w) + 2] = a[1]
    BY <1>0, <1>3, <1>5
  <2> QED BY <1>0, <2>1, <2>2
<1>8. ASSUME NEW i \in 1..Len(w) PROVE y[i + 1] = w[i]
  <2>1. y[i + 1] = v[i + 1] /\ v[i + 1] = x[i + 1]
    BY <1>0, <1>3, <1>4, <1>5
  <2>2. x[i + 1] = w[i]
    BY <1>1, <1>0
  <2> QED BY <2>1, <2>2
<1>9. ASSUME NEW i \in 1..Len(T) PROVE y[i + Len(w) + 2] = T[i]
  BY <1>0, <1>4, <1>5
<1>10. QuotedJoins(y, w, T)
  BY <1>0, <1>4, <1>5, <1>6, <1>7, <1>8, <1>9 DEF QuotedJoins
<1> QED BY <1>10 DEF y, v, x, a

\* The child finds the program and the rest of the line.
LEMMA ProgramReads ==
  ASSUME NEW w \in Seq(Char), w # <<>>, \A i \in 1..Len(w) : w[i] # Quote,
         (\E i \in 1..Len(w) : w[i] \in Blank) => w[Len(w)] # Backslash,
         NEW T \in Seq(Char), T = <<>> \/ T[1] = Space,
         NEW q, Reads(NoArg, T, q)
  PROVE  ReadBack(QuoteArg(w) \o T) = <<w>> \o EndArg(q).argv
<1> DEFINE s == QuoteArg(w) \o T
           n == ProgramEnd(s)
           u == Append(Tail(s), Quote)
           prog == IF s[1] = Quote THEN SubSeq(s, 2, n) ELSE SubSeq(s, 1, n)
           from == IF s[1] = Quote THEN n + 2 ELSE n + 1
           rest == SubSeq(s, from, Len(s))
<1>1. prog = w /\ rest = T
  <2>1. CASE NeedsQuote(w)
    <3>1. QuoteArg(w) = <<Quote>> \o w \o <<Quote>>
      <4>1. \E i \in 1..Len(w) : w[i] \in Blank
        BY <2>1 DEF NeedsQuote
      <4> QED BY <2>1, <4>1, ProgramQuoted
    <3> DEFINE z == <<Quote>> \o w \o <<Quote>> \o T
               m == Len(w) + 1
               v == Append(Tail(z), Quote)
    <3>2. s = z
      BY <3>1
    <3>3. /\ z \in Seq(Char) /\ Len(z) = Len(w) + 2 + Len(T)
          /\ z[1] = Quote /\ z[m + 1] = Quote
          /\ \A i \in 1..Len(w) : z[i + 1] = w[i]
          /\ \A i \in 1..Len(T) : z[i + m + 1] = T[i]
      <4>1. QuotedJoins(z, w, T)
        BY Quoted
      <4> HIDE DEF z
      <4>2. m + 1 = Len(w) + 2 /\ \A i \in Nat : i + m + 1 = i + Len(w) + 2
        OBVIOUS
      <4> QED BY <4>1, <4>2 DEF QuotedJoins
    <3> HIDE DEF z
    <3>4. /\ v \in Seq(Char) /\ Len(v) = Len(z)
          /\ \A i \in 1..(Len(z) - 1) : v[i] = z[i + 1]
      <4>1. z # <<>> /\ Quote \in Char /\ v = Append(Tail(z), Quote)
        BY <3>3, Characters
      <4> HIDE DEF v
      <4> QED BY <3>3, <4>1, Shifted
    <3>5. ProgramEnd(z) = m
      <4>1. m \in 1..Len(v) /\ Len(v) \in Nat
        BY <3>3, <3>4
      <4>2. v[m] = Quote /\ \A i \in 1..(m - 1) : v[i] # Quote
        BY <3>3, <3>4
      <4> HIDE DEF m
      <4> QED BY <3>3, <4>1, <4>2, QuotedEnd
    <3>6. SubSeq(z, 2, m) = w
      BY <3>3
    <3>7. SubSeq(z, m + 2, Len(z)) = T
      BY <3>3
    <3>8. s[1] = Quote /\ n = m /\ s = z
      BY <3>2, <3>3, <3>5
    <3> HIDE DEF s, n, m
    <3> QED BY <3>6, <3>7, <3>8
  <2>2. CASE ~NeedsQuote(w)
    <3>1. QuoteArg(w) = w
      BY <2>2 DEF QuoteArg
    <3>2. \A i \in 1..Len(w) : w[i] \notin Blank \cup {Quote}
      BY <2>2 DEF NeedsQuote
    <3> DEFINE z == w \o T
               m == Len(w)
               v == Append(Tail(z), Quote)
    <3>3. s = z
      BY <3>1
    <3>4. /\ z \in Seq(Char) /\ Len(z) = m + Len(T) /\ m \in Nat \ {0}
          /\ \A i \in 1..m : z[i] = w[i]
          /\ \A i \in 1..Len(T) : z[i + m] = T[i]
      OBVIOUS
    <3> HIDE DEF z
    <3>5. /\ v \in Seq(Char) /\ Len(v) = Len(z)
          /\ \A i \in 1..(Len(z) - 1) : v[i] = z[i + 1]
          /\ v[Len(z)] = Quote
      <4>1. z # <<>> /\ Quote \in Char /\ v = Append(Tail(z), Quote)
        BY <3>4, Characters
      <4> HIDE DEF v
      <4> QED BY <3>4, <4>1, Shifted
    <3>6. ProgramEnd(z) = m
      <4>1. m \in 1..Len(v) /\ Len(v) \in Nat
        BY <3>4, <3>5
      <4>2. v[m] \in Blank \cup {Quote}
        <5>1. CASE T = <<>>
          BY <3>4, <3>5, <5>1
        <5>2. CASE T # <<>>
          <6>1. v[m] = z[m + 1] /\ z[1 + m] = T[1] /\ T[1] = Space
            BY <3>4, <3>5, <5>2
          <6>2. 1 + m = m + 1
            BY <3>4
          <6> QED BY <6>1, <6>2, Characters
        <5> QED BY <5>1, <5>2
      <4>3. \A i \in 1..(m - 1) : v[i] \notin Blank \cup {Quote}
        BY <3>2, <3>4, <3>5
      <4>4. z[1] # Quote
        BY <3>2, <3>4
      <4> HIDE DEF m
      <4> QED BY <4>1, <4>2, <4>3, <4>4, PlainEnd
    <3>7. SubSeq(z, 1, m) = w
      BY <3>4
    <3>8. SubSeq(z, m + 1, Len(z)) = T
      BY <3>4
    <3>9. s[1] # Quote /\ n = m /\ s = z
      BY <3>2, <3>3, <3>4, <3>6
    <3> HIDE DEF s, n, m
    <3> QED BY <3>7, <3>8, <3>9
  <2> QED BY <2>1, <2>2
<1>2. Parsing(T)[Len(T)] = q
  BY ParsingIs
<1>3. ReadBack(s) = <<prog>> \o EndArg(Parsing(rest)[Len(rest)]).argv
  BY DEF ReadBack
<1> HIDE DEF s, prog, rest
<1> QED BY <1>1, <1>2, <1>3 DEF s

\* The program, as the child reads its name.
LEMMA ProgramType ==
  ASSUME NEW p \in Programs
  PROVE  /\ p \in Seq(Char) /\ Lossy(p) \in Seq(Char) /\ Lossy(p) # <<>>
         /\ \A i \in 1..Len(Lossy(p)) : Lossy(p)[i] # Quote
         /\ (\E i \in 1..Len(Lossy(p)) : Lossy(p)[i] \in Blank) =>
              Lossy(p)[Len(Lossy(p))] # Backslash
<1>1. /\ p \in Seq(Char) /\ p # <<>> /\ Quote \notin ToSet(p)
      /\ ToSet(p) \cap Blank # {} => Last(p) # Backslash
  BY CommandAssumption
<1>2. \A i \in 1..Len(p) : p[i] # Quote
  BY <1>1 DEF ToSet
<1>3. (\E i \in 1..Len(p) : p[i] \in Blank) => p[Len(p)] # Backslash
  BY <1>1 DEF ToSet, Last
<1>4. /\ Lossy(p) \in Seq(Char) /\ Len(Lossy(p)) = Len(p)
      /\ \A i \in 1..Len(p) :
           Lossy(p)[i] = IF p[i] = Lone THEN Replaced ELSE p[i]
  BY <1>1, LossyType
<1>5. Len(p) \in 1..Len(p)
  BY <1>1
<1> QED BY <1>1, <1>2, <1>3, <1>4, <1>5, Characters

\* Whatever is asked for is what the child reads.
LEMMA ReadBackIs ==
  ASSUME NEW p \in Programs, NEW words \in Seq(FirstArgs \cup LaterArgs)
  PROVE  ReadBack(BuildCommandLine(p, words)) =
           <<Lossy(p)>> \o [i \in DOMAIN words |-> Lossy(words[i])]
<1>1. words \in Seq(Seq(Char))
  <2>1. FirstArgs \cup LaterArgs \subseteq Seq(Char)
    BY CommandAssumption
  <2> QED BY <2>1, SeqMonotonic
<1> DEFINE Is(T, q) ==
             /\ BuildCommandLine(p, words) = QuoteArg(Lossy(p)) \o T
             /\ T = <<>> \/ T[1] = Space
             /\ Reads(NoArg, T, q)
             /\ EndArg(q) = Between(ReadArgs(words, Len(words)))
<1>6. PICK T \in Seq(Char) : \E q : Is(T, q)
  BY <1>1, ProgramType, LineReads
<1>2. PICK q : Is(T, q)
  BY <1>6
<1>3. ReadBack(QuoteArg(Lossy(p)) \o T) = <<Lossy(p)>> \o EndArg(q).argv
  BY <1>2, ProgramType, ProgramReads
<1>4. EndArg(q).argv = ReadArgs(words, Len(words))
  BY <1>2 DEF Between, At
<1>5. ReadArgs(words, Len(words)) = [i \in DOMAIN words |-> Lossy(words[i])]
  BY <1>1 DEF ReadArgs
<1> QED BY <1>2, <1>3, <1>4, <1>5

-----------------------------------------------------------------------------
(* The order of the names, and sort_by_key().                              *)

\* Where two names differ first: the first is at its end there, or has the
\* lesser unit.
Differ(m, n, i) ==
  /\ i \in 1..Len(n) /\ i <= Len(m) + 1
  /\ \A j \in 1..(i - 1) : m[j] = n[j]
  /\ i = Len(m) + 1 \/ m[i] < n[i]

Units == Seq(Int)

\* One name comes before another at the first place they differ.
LEMMA BeforeIs ==
  ASSUME NEW m \in Units, NEW n \in Units
  PROVE  Before(m, n) <=> \E i \in Nat : Differ(m, n, i)
<1>1. Len(m) \in Nat /\ Len(n) \in Nat /\ DOMAIN m = 1..Len(m)
      /\ DOMAIN n = 1..Len(n)
  BY DEF Units
<1>2. ASSUME IsStrictPrefix(m, n)
      PROVE  Differ(m, n, Len(m) + 1)
  <2>1. /\ Len(m) <= Len(n) /\ SubSeq(m, 1, Len(m)) = SubSeq(n, 1, Len(m))
        /\ m # n
    BY <1>2 DEF IsStrictPrefix, IsPrefix
  <2>2. ASSUME NEW i \in 1..Len(m) PROVE m[i] = n[i]
    <3>1. SubSeq(m, 1, Len(m))[i] = m[i] /\ SubSeq(n, 1, Len(m))[i] = n[i]
      BY <1>1, <2>1 DEF Units
    <3> QED BY <2>1, <3>1
  <2>3. Len(m) # Len(n)
    BY <1>1, <2>1, <2>2, SeqEqual DEF Units
  <2>9. Len(m) <= Len(n) /\ Len(m) \in Nat /\ Len(n) \in Nat
    BY <1>1, <2>1
  <2>4. Len(m) < Len(n)
    BY <2>3, <2>9
  <2>5. PICK k \in Nat : k = Len(m) + 1
    BY <1>1
  <2>6. k \in 1..Len(n) /\ k <= Len(m) + 1
    BY <1>1, <2>4, <2>5
  <2>7. \A j \in 1..(k - 1) : m[j] = n[j]
    BY <1>1, <2>2, <2>5
  <2>8. Differ(m, n, k)
    BY <2>5, <2>6, <2>7 DEF Differ
  <2> QED BY <2>5, <2>8
<1>3. ASSUME Differ(m, n, Len(m) + 1)
      PROVE  IsStrictPrefix(m, n)
  <2>1. Len(m) < Len(n) /\ \A i \in 1..Len(m) : m[i] = n[i]
    BY <1>1, <1>3 DEF Differ
  <2> DEFINE x == SubSeq(m, 1, Len(m))
             y == SubSeq(n, 1, Len(m))
  <2>2. x \in Seq(Int) /\ Len(x) = Len(m)
        /\ \A i \in 1..Len(m) : x[i] = m[i]
    BY <1>1 DEF Units
  <2>3. y \in Seq(Int) /\ Len(y) = Len(m)
        /\ \A i \in 1..Len(m) : y[i] = n[i]
    BY <1>1, <2>1 DEF Units
  <2>4. x = y
    <3> HIDE DEF x, y
    <3> QED BY <2>1, <2>2, <2>3, SeqEqual
  <2> QED BY <1>1, <2>1, <2>4 DEF IsStrictPrefix, IsPrefix
<1>4. ASSUME NEW i \in DOMAIN m \cap DOMAIN n
      PROVE  Differ(m, n, i) <=>
               m[i] < n[i] /\ \A j \in 1..(i - 1) : m[j] = n[j]
  BY <1>1 DEF Differ
<1>5. ASSUME NEW i \in Nat, Differ(m, n, i)
      PROVE  i \in DOMAIN m \cap DOMAIN n \/ i = Len(m) + 1
  BY <1>1, <1>5 DEF Differ
<1>6. DOMAIN m \cap DOMAIN n \subseteq Nat /\ Len(m) + 1 \in Nat
  BY <1>1
<1> QED BY <1>2, <1>3, <1>4, <1>5, <1>6 DEF Before

\* Of two names that differ, one comes before the other.
LEMMA BeforeTotal ==
  ASSUME NEW m \in Units, NEW n \in Units
  PROVE  m = n \/ Before(m, n) \/ Before(n, m)
<1> SUFFICES ASSUME m # n
             PROVE  \E i \in Nat : Differ(m, n, i) \/ Differ(n, m, i)
  BY BeforeIs
<1>1. Len(m) \in Nat /\ Len(n) \in Nat
  BY DEF Units
<1> DEFINE T == {i \in Nat \ {0} : /\ i <= Len(m) + 1 /\ i <= Len(n) + 1
                                   /\ \/ i = Len(m) + 1
                                      \/ i = Len(n) + 1
                                      \/ m[i] # n[i]}
<1>2. T # {} /\ T \subseteq Nat
  <2>1. CASE Len(m) <= Len(n)
    <3>1. Len(m) + 1 \in T
      BY <1>1, <2>1
    <3> QED BY <3>1
  <2>2. CASE Len(n) <= Len(m)
    <3>1. Len(n) + 1 \in T
      BY <1>1, <2>2
    <3> QED BY <3>1
  <2> QED BY <1>1, <2>1, <2>2
<1>3. PICK i \in T : \A j \in T : ~(j < i)
  <2> HIDE DEF T
  <2> QED BY <1>2, NatHasMinimum
<1>4. \A j \in 1..(i - 1) : m[j] = n[j]
  BY <1>1, <1>3
<1>5. CASE i = Len(m) + 1 /\ i # Len(n) + 1
  BY <1>1, <1>4, <1>5 DEF Differ
<1>6. CASE i = Len(n) + 1 /\ i # Len(m) + 1
  BY <1>1, <1>4, <1>6 DEF Differ
<1>7. CASE i = Len(n) + 1 /\ i = Len(m) + 1
  <2>1. m = n
    BY <1>1, <1>4, <1>7, SeqEqual DEF Units
  <2> QED BY <2>1
<1>8. CASE i # Len(n) + 1 /\ i # Len(m) + 1
  <2>1. i \in 1..Len(m) /\ i \in 1..Len(n) /\ m[i] # n[i]
    BY <1>1, <1>8
  <2>2. m[i] \in Int /\ n[i] \in Int
    BY <2>1 DEF Units
  <2>3. m[i] < n[i] \/ n[i] < m[i]
    BY <2>1, <2>2
  <2> QED BY <1>1, <1>4, <2>1, <2>3 DEF Differ
<1> QED BY <1>5, <1>6, <1>7, <1>8

\* Of two names, only one comes before the other.
LEMMA BeforeOneWay ==
  ASSUME NEW m \in Units, NEW n \in Units, Before(m, n)
  PROVE  m # n /\ ~Before(n, m)
<1>1. Len(m) \in Nat /\ Len(n) \in Nat
      /\ (\A i \in 1..Len(m) : m[i] \in Int)
      /\ (\A i \in 1..Len(n) : n[i] \in Int)
  BY DEF Units
<1>2. PICK i \in Nat : Differ(m, n, i)
  BY BeforeIs
<1>3. m # n
  BY <1>1, <1>2 DEF Differ
<1>4. ASSUME NEW k \in Nat, Differ(n, m, k) PROVE FALSE
  <2>1. CASE i < k
    BY <1>1, <1>2, <1>4, <2>1 DEF Differ
  <2>2. CASE k < i
    BY <1>1, <1>2, <1>4, <2>2 DEF Differ
  <2>3. CASE i = k
    BY <1>1, <1>2, <1>4, <2>3 DEF Differ
  <2> QED BY <2>1, <2>2, <2>3
<1> QED BY <1>3, <1>4, BeforeIs

\* What comes before what comes before a name comes before it.
LEMMA BeforeTransitive ==
  ASSUME NEW m \in Units, NEW n \in Units, NEW p \in Units,
         Before(m, n), Before(n, p)
  PROVE  Before(m, p)
<1>1. /\ Len(m) \in Nat /\ Len(n) \in Nat /\ Len(p) \in Nat
      /\ \A i \in 1..Len(m) : m[i] \in Int
      /\ \A i \in 1..Len(n) : n[i] \in Int
      /\ \A i \in 1..Len(p) : p[i] \in Int
  BY DEF Units
<1>2. PICK i \in Nat : Differ(m, n, i)
  BY BeforeIs
<1>3. PICK k \in Nat : Differ(n, p, k)
  BY BeforeIs
<1>4. CASE i < k
  <2>1. Differ(m, p, i)
    BY <1>1, <1>2, <1>3, <1>4 DEF Differ
  <2> QED BY <2>1, BeforeIs
<1>5. CASE k < i
  <2>1. Differ(m, p, k)
    BY <1>1, <1>2, <1>3, <1>5 DEF Differ
  <2> QED BY <2>1, BeforeIs
<1>6. CASE i = k
  <2>1. Differ(m, p, i)
    BY <1>1, <1>2, <1>3, <1>6 DEF Differ
  <2> QED BY <2>1, BeforeIs
<1> QED BY <1>4, <1>5, <1>6

\* How many of 1..N come not after i in an order.
Rank(N, R, i) == Cardinality({j \in 1..N : <<j, i>> \in R})

\* In a total order, every rank is that of one, and ranks follow the order.
LEMMA RanksFollow ==
  ASSUME NEW N \in Nat, NEW R,
         \A i \in 1..N : <<i, i>> \in R,
         \A i, j, k \in 1..N :
           <<i, j>> \in R /\ <<j, k>> \in R => <<i, k>> \in R,
         \A i, j \in 1..N : i # j => (<<i, j>> \in R <=> <<j, i>> \notin R)
  PROVE  /\ \A i \in 1..N : Rank(N, R, i) \in 1..N
         /\ \A i, j \in 1..N :
              i # j => (Rank(N, R, i) < Rank(N, R, j) <=> <<i, j>> \in R)
         /\ \A r \in 1..N : \E i \in 1..N : Rank(N, R, i) = r
<1> DEFINE D(i) == {j \in 1..N : <<j, i>> \in R}
<1>1. IsFiniteSet(1..N) /\ Cardinality(1..N) = N
  BY FS_Interval
<1>2. ASSUME NEW i \in 1..N
      PROVE  Rank(N, R, i) \in 1..N /\ IsFiniteSet(D(i))
  <2>1. D(i) \in SUBSET (1..N) /\ i \in D(i)
    OBVIOUS
  <2> HIDE DEF D
  <2>2. IsFiniteSet(D(i)) /\ Cardinality(D(i)) <= N
    BY <1>1, <2>1, FS_Subset
  <2>3. Cardinality(D(i)) \in Nat /\ Cardinality(D(i)) # 0
    BY <2>1, <2>2, FS_CardinalityType, FS_EmptySet
  <2>4. Rank(N, R, i) = Cardinality(D(i))
    BY DEF Rank, D
  <2> QED BY <2>2, <2>3, <2>4
<1>8. \A i \in 1..N : Rank(N, R, i) \in Nat
  <2> HIDE DEF D
  <2> QED BY <1>2
<1>3. ASSUME NEW i \in 1..N, NEW j \in 1..N, i # j, <<i, j>> \in R
      PROVE  Rank(N, R, i) < Rank(N, R, j)
  <2>1. D(i) \in SUBSET D(j) /\ j \in D(j) /\ j \notin D(i)
    BY <1>3
  <2>2. Rank(N, R, i) = Cardinality(D(i)) /\ Rank(N, R, j) = Cardinality(D(j))
    BY DEF Rank
  <2>3. Rank(N, R, i) \in 1..N /\ Rank(N, R, j) \in 1..N
    BY <1>2
  <2>4. IsFiniteSet(D(j))
    BY <1>2
  <2> HIDE DEF D
  <2>5. Cardinality(D(i)) <= Cardinality(D(j))
        /\ Cardinality(D(i)) # Cardinality(D(j))
    BY <2>1, <2>4, FS_Subset
  <2> QED BY <2>2, <2>3, <2>5
<1>4. ASSUME NEW i \in 1..N, NEW j \in 1..N, i # j
      PROVE  Rank(N, R, i) < Rank(N, R, j) <=> <<i, j>> \in R
  <2>1. CASE <<i, j>> \in R
    BY <1>3, <1>4, <2>1
  <2>2. CASE <<j, i>> \in R
    <3>1. Rank(N, R, j) < Rank(N, R, i)
      BY <1>3, <1>4, <2>2
    <3>2. Rank(N, R, j) \in Nat /\ Rank(N, R, i) \in Nat
      BY <1>8
    <3> QED BY <1>4, <2>2, <3>1, <3>2
  <2> QED BY <1>4, <2>1, <2>2
<1> DEFINE f == [i \in 1..N |-> Rank(N, R, i)]
<1>5. f \in Injection(1..N, 1..N)
  <2>1. f \in [1..N -> 1..N]
    BY <1>2
  <2>2. ASSUME NEW i \in 1..N, NEW j \in 1..N, f[i] = f[j] PROVE i = j
    <3> SUFFICES ASSUME i # j PROVE FALSE
      OBVIOUS
    <3>1. <<i, j>> \in R \/ <<j, i>> \in R
      OBVIOUS
    <3>2. Rank(N, R, i) < Rank(N, R, j) \/ Rank(N, R, j) < Rank(N, R, i)
      BY <1>3, <3>1
    <3>3. Rank(N, R, j) \in Nat /\ Rank(N, R, i) \in Nat
      BY <1>8
    <3> QED BY <2>2, <3>2, <3>3
  <2> HIDE DEF f
  <2> QED BY <2>1, <2>2 DEF Injection, IsInjective
<1>6. f \in Surjection(1..N, 1..N)
  <2> HIDE DEF f
  <2> QED BY <1>1, <1>5, FS_Injection
<1>7. ASSUME NEW r \in 1..N PROVE \E i \in 1..N : Rank(N, R, i) = r
  <2>1. PICK i \in 1..N : f[i] = r
    <3> HIDE DEF f
    <3> QED BY <1>6 DEF Surjection
  <2> QED BY <2>1
<1> QED BY <1>2, <1>4, <1>7

\* Folding a name as build_env_block() does is folding it as Windows does.
LEMMA FoldedIs ==
  ASSUME NEW n \in Names
  PROVE  /\ UpperWide(n) \in Units
         /\ UpperWide(n) = [i \in DOMAIN n |-> WindowsUpper[n[i]]]
<1>1. n \in Seq(0..127)
  BY CommandAssumption
<1>2. Len(n) \in Nat /\ DOMAIN n = 1..Len(n)
      /\ \A i \in 1..Len(n) : n[i] \in Int /\ n[i] \in 0..127
  <2> DEFINE U == 0..127
  <2>1. n \in Seq(U) /\ \A u \in U : u \in Int
    BY <1>1
  <2> HIDE DEF U
  <2>2. Len(n) \in Nat /\ DOMAIN n = 1..Len(n)
        /\ \A i \in 1..Len(n) : n[i] \in U
    BY <2>1
  <2>3. \A i \in 1..Len(n) : n[i] \in Int /\ n[i] \in U
    BY <2>1, <2>2
  <2> QED BY <2>2, <2>3 DEF U
<1>3. \A i \in 1..Len(n) :
        (IF n[i] \in 97..122 THEN n[i] - 32 ELSE n[i]) \in Int
  <2>1. ASSUME NEW u \in Int
        PROVE  (IF u \in 97..122 THEN u - 32 ELSE u) \in Int
    OBVIOUS
  <2> QED BY <1>2, <2>1
<1>4. UpperWide(n) \in Seq(Int)
  BY <1>2, <1>3 DEF UpperWide
<1>5. \A i \in 1..Len(n) :
        WindowsUpper[n[i]] = IF n[i] \in 97..122 THEN n[i] - 32 ELSE n[i]
  BY <1>2 DEF WindowsUpper
<1>6. UpperWide(n) = [i \in DOMAIN n |-> WindowsUpper[n[i]]]
  BY <1>2, <1>5 DEF UpperWide
<1> QED BY <1>4, <1>6 DEF Units

\* The code and Windows agree on which names are the same.
LEMMA SameNameIs ==
  ASSUME NEW m \in Names, NEW n \in Names
  PROVE  SameName(m, n) <=> UpperWide(m) = UpperWide(n)
BY FoldedIs DEF SameName

\* The order of the block: by folded names, then as the pairs came.
NameOrder(e) ==
  {x \in (1..Len(e)) \X (1..Len(e)) :
     \/ Before(UpperWide(e[x[1]].name), UpperWide(e[x[2]].name))
     \/ /\ UpperWide(e[x[1]].name) = UpperWide(e[x[2]].name)
        /\ x[1] <= x[2]}

\* One pair is sorted before another by its name, then by its place.
LEMMA NameOrderIs ==
  ASSUME NEW e, NEW i \in 1..Len(e), NEW j \in 1..Len(e)
  PROVE  <<i, j>> \in NameOrder(e) <=>
           \/ Before(UpperWide(e[i].name), UpperWide(e[j].name))
           \/ /\ UpperWide(e[i].name) = UpperWide(e[j].name)
              /\ i <= j
BY DEF NameOrder

\* Where the sort puts the pair at i.
Place(e, i) == Rank(Len(e), NameOrder(e), i)

\* A pair of a sequence of pairs has a name, a value and an upper case.
LEMMA VariableType ==
  ASSUME NEW e \in Seq(Variable), NEW i \in 1..Len(e)
  PROVE  /\ e[i] \in Variable /\ e[i].name \in Names
         /\ e[i].value \in AnyValue /\ e[i].value # None
         /\ UpperWide(e[i].name) \in Units
<1>1. e[i] \in Variable
  OBVIOUS
<1>2. e[i].name \in Names /\ e[i].value \in AnyValue
  BY <1>1 DEF Variable
<1> QED BY <1>1, <1>2, FoldedIs, CommandAssumption

\* Every place of the block is taken by one pair, in the order of the names.
LEMMA PlacesFollow ==
  ASSUME NEW e \in Seq(Variable)
  PROVE  /\ \A i \in 1..Len(e) : Place(e, i) \in 1..Len(e)
         /\ \A i, j \in 1..Len(e) :
              i # j => (Place(e, i) < Place(e, j) <=> <<i, j>> \in NameOrder(e))
         /\ \A r \in 1..Len(e) : \E i \in 1..Len(e) : Place(e, i) = r
<1> DEFINE N == Len(e)
           R == NameOrder(e)
           K(i) == UpperWide(e[i].name)
<1>1. N \in Nat
  OBVIOUS
<1>2. \A i \in 1..N : K(i) \in Units
  BY VariableType
<1>3. \A i, j \in 1..N :
        <<i, j>> \in R <=> Before(K(i), K(j)) \/ (K(i) = K(j) /\ i <= j)
  BY NameOrderIs
<1> HIDE DEF R, K, N
<1>4. \A i \in 1..N : <<i, i>> \in R
  BY <1>1, <1>3
<1>5. \A i, j, k \in 1..N :
        <<i, j>> \in R /\ <<j, k>> \in R => <<i, k>> \in R
  <2> SUFFICES ASSUME NEW i \in 1..N, NEW j \in 1..N, NEW k \in 1..N,
                      <<i, j>> \in R, <<j, k>> \in R
               PROVE  <<i, k>> \in R
    OBVIOUS
  <2>1. K(i) \in Units /\ K(j) \in Units /\ K(k) \in Units
    BY <1>2
  <2>2. /\ Before(K(i), K(j)) \/ (K(i) = K(j) /\ i <= j)
        /\ Before(K(j), K(k)) \/ (K(j) = K(k) /\ j <= k)
    BY <1>3
  <2>3. Before(K(i), K(k)) \/ (K(i) = K(k) /\ i <= k)
    <3>1. CASE Before(K(i), K(j)) /\ Before(K(j), K(k))
      BY <2>1, <3>1, BeforeTransitive
    <3> QED BY <1>1, <2>2, <3>1
  <2> QED BY <1>3, <2>3
<1>6. \A i, j \in 1..N : i # j => (<<i, j>> \in R <=> <<j, i>> \notin R)
  <2> SUFFICES ASSUME NEW i \in 1..N, NEW j \in 1..N, i # j
               PROVE  <<i, j>> \in R <=> <<j, i>> \notin R
    OBVIOUS
  <2>1. K(i) \in Units /\ K(j) \in Units
    BY <1>2
  <2>2. /\ K(i) = K(j) \/ Before(K(i), K(j)) \/ Before(K(j), K(i))
        /\ Before(K(i), K(j)) => K(i) # K(j) /\ ~Before(K(j), K(i))
        /\ Before(K(j), K(i)) => K(i) # K(j) /\ ~Before(K(i), K(j))
    BY <2>1, BeforeTotal, BeforeOneWay
  <2>3. i <= j <=> ~(j <= i)
    BY <1>1
  <2>4. <<i, j>> \in R <=> Before(K(i), K(j)) \/ (K(i) = K(j) /\ i <= j)
    BY <1>3
  <2>5. <<j, i>> \in R <=> Before(K(j), K(i)) \/ (K(j) = K(i) /\ j <= i)
    BY <1>3
  <2> QED BY <2>2, <2>3, <2>4, <2>5
<1>7. /\ \A i \in 1..N : Rank(N, R, i) \in 1..N
      /\ \A i, j \in 1..N :
           i # j => (Rank(N, R, i) < Rank(N, R, j) <=> <<i, j>> \in R)
      /\ \A r \in 1..N : \E i \in 1..N : Rank(N, R, i) = r
  BY <1>1, <1>4, <1>5, <1>6, RanksFollow
<1> QED BY <1>7 DEF Place, N, R

\* The sorted pairs are the pairs, each at its place.
LEMMA SortedIs ==
  ASSUME NEW e \in Seq(Variable)
  PROVE  /\ SortByName(e) \in Seq(Variable)
         /\ Len(SortByName(e)) = Len(e)
         /\ \A i \in 1..Len(e) : SortByName(e)[Place(e, i)] = e[i]
<1> DEFINE K(i) == UpperWide(e[i].name)
           N == Len(e)
           rank(i) == Cardinality({j \in DOMAIN e : Before(K(j), K(i))
                                                    \/ (K(j) = K(i) /\ j <= i)})
           pick(r) == CHOOSE i \in DOMAIN e : rank(i) = r
           b == SortByName(e)
<1>1. DOMAIN e = 1..N /\ N \in Nat
  OBVIOUS
<1>2. b = [r \in DOMAIN e |-> e[pick(r)]]
  BY DEF SortByName
<1>3. ASSUME NEW i \in 1..N PROVE rank(i) = Place(e, i)
  <2>1. {j \in DOMAIN e : Before(K(j), K(i)) \/ (K(j) = K(i) /\ j <= i)}
          = {j \in 1..N : <<j, i>> \in NameOrder(e)}
    <3>1. \A j \in 1..N : <<j, i>> \in NameOrder(e) <=>
                            Before(K(j), K(i)) \/ (K(j) = K(i) /\ j <= i)
      BY NameOrderIs
    <3> HIDE DEF K
    <3> QED BY <1>1, <3>1
  <2> HIDE DEF K
  <2> QED BY <2>1 DEF Place, Rank
<1> HIDE DEF rank
<1>4. ASSUME NEW i \in 1..N, NEW j \in 1..N, rank(i) = rank(j)
      PROVE  i = j
  <2> SUFFICES ASSUME i # j PROVE FALSE
    OBVIOUS
  <2>1. Place(e, i) = Place(e, j) /\ Place(e, i) \in 1..N
    BY <1>3, <1>4, PlacesFollow
  <2>2. <<i, j>> \notin NameOrder(e) /\ <<j, i>> \notin NameOrder(e)
    BY <1>1, <2>1, PlacesFollow
  <2>3. (~(i <= j) /\ ~(j <= i)) \/ K(i) # K(j)
    BY <2>2, NameOrderIs
  <2>4. ~Before(K(i), K(j)) /\ ~Before(K(j), K(i))
    BY <2>2, NameOrderIs
  <2>5. K(i) \in Units /\ K(j) \in Units
    BY VariableType
  <2> HIDE DEF K
  <2>6. K(i) = K(j)
    BY <2>4, <2>5, BeforeTotal
  <2> QED BY <1>1, <2>3, <2>6
<1>5. ASSUME NEW i \in 1..N PROVE pick(rank(i)) = i
  <2>1. i \in DOMAIN e /\ rank(i) = rank(i)
    BY <1>1
  <2>2. pick(rank(i)) \in DOMAIN e /\ rank(pick(rank(i))) = rank(i)
    BY <2>1
  <2> HIDE DEF pick
  <2> QED BY <1>1, <1>4, <2>2
<1>6. ASSUME NEW r \in 1..N
      PROVE  pick(r) \in 1..N
  <2>1. PICK i \in 1..N : Place(e, i) = r
    BY PlacesFollow
  <2>2. rank(i) = r
    BY <1>3, <2>1
  <2> HIDE DEF pick
  <2> QED BY <1>5, <2>2
<1> HIDE DEF pick
<1>7. b \in Seq(Variable) /\ Len(b) = N
  <2>1. \A r \in 1..N : e[pick(r)] \in Variable
    BY <1>6, VariableType
  <2> HIDE DEF b
  <2>2. b \in [1..N -> Variable]
    BY <1>1, <1>2, <2>1
  <2> QED BY <1>1, <2>2
<1>8. ASSUME NEW i \in 1..N PROVE b[Place(e, i)] = e[i]
  <2>1. Place(e, i) \in DOMAIN e /\ pick(Place(e, i)) = i
    BY <1>1, <1>3, <1>5, PlacesFollow
  <2> HIDE DEF b
  <2> QED BY <1>2, <2>1
<1> QED BY <1>7, <1>8

\* No later name of the block comes before an earlier one.
LEMMA SortedInOrder ==
  ASSUME NEW e \in Seq(Variable), NEW r \in 1..Len(e), NEW s \in 1..Len(e),
         r < s
  PROVE  ~Before(UpperWide(SortByName(e)[s].name),
                 UpperWide(SortByName(e)[r].name))
<1> DEFINE K(i) == UpperWide(e[i].name)
<1>1. PICK i \in 1..Len(e) : Place(e, i) = r
  BY PlacesFollow
<1>2. PICK j \in 1..Len(e) : Place(e, j) = s
  BY PlacesFollow
<1>3. i # j /\ Place(e, i) < Place(e, j)
  BY <1>1, <1>2
<1>4. <<i, j>> \in NameOrder(e)
  BY <1>3, PlacesFollow
<1>5. Before(K(i), K(j)) \/ K(i) = K(j)
  BY <1>4, NameOrderIs
<1>6. K(i) \in Units /\ K(j) \in Units
  BY VariableType
<1>7. SortByName(e)[r] = e[i] /\ SortByName(e)[s] = e[j]
  BY <1>1, <1>2, SortedIs
<1>8. ~Before(K(j), K(i))
  <2> HIDE DEF K
  <2> QED BY <1>5, <1>6, BeforeOneWay
<1> QED BY <1>7, <1>8

-----------------------------------------------------------------------------
(* What a block says of a name.                                            *)

\* The first pair for n is the one at i.
FirstFit(e, n, i) ==
  /\ i \in 1..Len(e) /\ SameName(e[i].name, n)
  /\ \A j \in 1..(i - 1) : ~SameName(e[j].name, n)

NoFit(e, n) == \A i \in 1..Len(e) : ~SameName(e[i].name, n)

\* What is looked up is the value of the first pair that fits, if any.
LEMMA LookupFits ==
  ASSUME NEW e, Len(e) \in Nat, NEW n
  PROVE  /\ \A i \in Nat : FirstFit(e, n, i) => Lookup(e, n) = e[i].value
         /\ NoFit(e, n) => Lookup(e, n) = None
         /\ NoFit(e, n) \/ \E i \in Nat : FirstFit(e, n, i)
<1> DEFINE I == {i \in 1..Len(e) : SameName(e[i].name, n)}
           p == IF I # {} THEN Min(I) ELSE 0
<1>1. Lookup(e, n) = IF p = 0 THEN None ELSE e[p].value
  BY DEF Lookup, SelectInSeq
<1>2. ASSUME NEW i \in Nat, FirstFit(e, n, i)
      PROVE  Lookup(e, n) = e[i].value
  <2>1. i \in I /\ \A j \in I : i <= j
    BY <1>2 DEF FirstFit
  <2>2. I \subseteq Nat \ {0}
    OBVIOUS
  <2>3. Min(I) = i
    <3> HIDE DEF I
    <3>1. ASSUME NEW x \in I, \A y \in I : x =< y PROVE x = i
      BY <2>1, <2>2, <3>1
    <3> QED BY <2>1, <3>1 DEF Min
  <2>4. p = i /\ i # 0
    <3> HIDE DEF I
    <3> QED BY <2>1, <2>2, <2>3
  <2> HIDE DEF p
  <2> QED BY <1>1, <2>4
<1>3. ASSUME NoFit(e, n) PROVE Lookup(e, n) = None
  <2>1. I = {}
    BY <1>3 DEF NoFit
  <2>2. p = 0
    BY <2>1
  <2> HIDE DEF p
  <2> QED BY <1>1, <2>2
<1>4. ASSUME ~NoFit(e, n) PROVE \E i \in Nat : FirstFit(e, n, i)
  <2>1. I # {} /\ I \subseteq Nat
    BY <1>4 DEF NoFit
  <2>2. PICK i \in I : \A j \in I : ~(j < i)
    <3> HIDE DEF I
    <3> QED BY <2>1, NatHasMinimum
  <2>3. FirstFit(e, n, i)
    BY <2>2 DEF FirstFit
  <2> QED BY <2>3
<1> QED BY <1>2, <1>3, <1>4

\* A variable is found exactly if some pair fits.
LEMMA LookupType ==
  ASSUME NEW e \in Seq(Variable), NEW n
  PROVE  /\ Lookup(e, n) \in AnyValue \cup {None}
         /\ Lookup(e, n) = None <=> NoFit(e, n)
<1>1. CASE NoFit(e, n)
  BY <1>1, LookupFits
<1>2. CASE ~NoFit(e, n)
  <2>1. PICK i \in Nat : FirstFit(e, n, i)
    BY <1>2, LookupFits
  <2>2. Lookup(e, n) = e[i].value
    BY <2>1, LookupFits
  <2>3. e[i].value \in AnyValue /\ e[i].value # None
    BY <2>1, VariableType DEF FirstFit
  <2> QED BY <1>2, <2>2, <2>3
<1> QED BY <1>1, <1>2

\* A pair at the end is found only if no other fits.
LEMMA LookupAppend ==
  ASSUME NEW e \in Seq(Variable), NEW v \in Variable, NEW n
  PROVE  Lookup(Append(e, v), n) =
           IF Lookup(e, n) # None THEN Lookup(e, n)
           ELSE IF SameName(v.name, n) THEN v.value ELSE None
<1> DEFINE f == Append(e, v)
           N == Len(e)
<1>1. /\ f \in Seq(Variable) /\ Len(f) = N + 1 /\ N \in Nat
      /\ f[N + 1] = v /\ \A i \in 1..N : f[i] = e[i]
  OBVIOUS
<1> HIDE DEF f
<1>2. CASE ~NoFit(e, n)
  <2>1. PICK i \in Nat : FirstFit(e, n, i)
    BY <1>2, LookupFits
  <2>2. FirstFit(f, n, i) /\ f[i] = e[i]
    BY <1>1, <2>1 DEF FirstFit
  <2>3. Lookup(f, n) = Lookup(e, n)
    BY <1>1, <2>1, <2>2, LookupFits
  <2> QED BY <1>2, <2>3, LookupType DEF f
<1>3. CASE NoFit(e, n) /\ SameName(v.name, n)
  <2>1. N + 1 \in Nat /\ FirstFit(f, n, N + 1)
    BY <1>1, <1>3 DEF FirstFit, NoFit
  <2>2. Lookup(f, n) = v.value
    BY <1>1, <2>1, LookupFits
  <2> QED BY <1>3, <2>2, LookupType DEF f
<1>4. CASE NoFit(e, n) /\ ~SameName(v.name, n)
  <2>1. NoFit(f, n)
    <3> SUFFICES ASSUME NEW i \in 1..(N + 1) PROVE ~SameName(f[i].name, n)
      BY <1>1 DEF NoFit
    <3>1. CASE i = N + 1
      BY <1>1, <1>4, <3>1
    <3>2. CASE i \in 1..N
      BY <1>1, <1>4, <3>2 DEF NoFit
    <3> QED BY <1>1, <3>1, <3>2
  <2>2. Lookup(f, n) = None
    BY <1>1, <2>1, LookupFits
  <2> QED BY <1>4, <2>2, LookupType DEF f
<1> QED BY <1>2, <1>3, <1>4

\* A sequence of pairs from its end.
LEMMA ReverseIs ==
  ASSUME NEW e \in Seq(Variable)
  PROVE  /\ Reverse(e) \in Seq(Variable) /\ Len(Reverse(e)) = Len(e)
         /\ \A i \in 1..Len(e) : Reverse(e)[i] = e[(Len(e) - i) + 1]
<1>1. \A i \in 1..Len(e) : (Len(e) - i) + 1 \in 1..Len(e)
  OBVIOUS
<1>2. \A i \in 1..Len(e) : e[(Len(e) - i) + 1] \in Variable
  BY <1>1
<1>3. Reverse(e) \in [1..Len(e) -> Variable]
  BY <1>2 DEF Reverse
<1>4. Len(e) \in Nat
  OBVIOUS
<1> QED BY <1>3, <1>4 DEF Reverse

\* From the end, a pair at the end is found first.
LEMMA LookupReverse ==
  ASSUME NEW e \in Seq(Variable), NEW v \in Variable, NEW n
  PROVE  Lookup(Reverse(Append(e, v)), n) =
           IF SameName(v.name, n) THEN v.value ELSE Lookup(Reverse(e), n)
<1> DEFINE f == Append(e, v)
           N == Len(e)
           r == Reverse(e)
           s == Reverse(f)
<1>1. /\ f \in Seq(Variable) /\ Len(f) = N + 1 /\ N \in Nat
      /\ f[N + 1] = v /\ \A i \in 1..N : f[i] = e[i]
  OBVIOUS
<1>2. /\ r \in Seq(Variable) /\ Len(r) = N
      /\ \A i \in 1..N : r[i] = e[(N - i) + 1]
  BY ReverseIs
<1> HIDE DEF f, r
<1>3. /\ s \in Seq(Variable) /\ Len(s) = N + 1
      /\ \A i \in 1..(N + 1) : s[i] = f[((N + 1) - i) + 1]
  BY <1>1, ReverseIs
<1> HIDE DEF s
<1>4. s[1] = v /\ \A i \in 1..N : s[i + 1] = r[i]
  <2>1. s[1] = v
    BY <1>1, <1>3
  <2>2. ASSUME NEW i \in 1..N PROVE s[i + 1] = r[i]
    <3>1. /\ i + 1 \in 1..(N + 1) /\ ((N + 1) - (i + 1)) + 1 = (N - i) + 1
          /\ (N - i) + 1 \in 1..N
      BY <1>1
    <3> QED BY <1>1, <1>2, <1>3, <3>1
  <2> QED BY <2>1, <2>2
<1>5. CASE SameName(v.name, n)
  <2>1. FirstFit(s, n, 1)
    BY <1>1, <1>3, <1>4, <1>5 DEF FirstFit
  <2>2. Lookup(s, n) = v.value
    BY <1>1, <1>3, <1>4, <2>1, LookupFits
  <2> QED BY <1>5, <2>2 DEF s, f
<1>6. CASE ~SameName(v.name, n)
  <2>1. CASE NoFit(r, n)
    <3>1. NoFit(s, n)
      <4> SUFFICES ASSUME NEW i \in 1..(N + 1) PROVE ~SameName(s[i].name, n)
        BY <1>3 DEF NoFit
      <4>1. CASE i = 1
        BY <1>4, <1>6, <4>1
      <4>2. CASE i # 1
        <5>1. i - 1 \in 1..N /\ (i - 1) + 1 = i
          BY <1>1, <4>2
        <5>2. s[i] = r[i - 1] /\ ~SameName(r[i - 1].name, n)
          BY <1>2, <1>4, <2>1, <5>1 DEF NoFit
        <5> QED BY <5>2
      <4> QED BY <4>1, <4>2
    <3>2. Lookup(s, n) = None /\ Lookup(r, n) = None
      BY <1>1, <1>2, <1>3, <2>1, <3>1, LookupFits
    <3> QED BY <1>6, <3>2 DEF s, r, f
  <2>2. CASE ~NoFit(r, n)
    <3>1. PICK i \in Nat : FirstFit(r, n, i)
      BY <1>1, <1>2, <2>2, LookupFits
    <3>2. FirstFit(s, n, i + 1)
      <4>1. i + 1 \in 1..Len(s) /\ SameName(s[i + 1].name, n)
        BY <1>1, <1>2, <1>3, <1>4, <3>1 DEF FirstFit
      <4>2. ASSUME NEW j \in 1..((i + 1) - 1) PROVE ~SameName(s[j].name, n)
        <5>1. CASE j = 1
          BY <1>4, <1>6, <5>1
        <5>2. CASE j # 1
          <6>1. j - 1 \in 1..(i - 1) /\ (j - 1) + 1 = j /\ j - 1 \in 1..N
            BY <1>1, <1>2, <3>1, <5>2 DEF FirstFit
          <6>2. s[j] = r[j - 1] /\ ~SameName(r[j - 1].name, n)
            BY <1>4, <3>1, <6>1 DEF FirstFit
          <6> QED BY <6>2
        <5> QED BY <5>1, <5>2
      <4> QED BY <4>1, <4>2 DEF FirstFit
    <3>3. s[i + 1] = r[i]
      BY <1>2, <1>4, <3>1 DEF FirstFit
    <3>4. Lookup(s, n) = Lookup(r, n)
      <4>1. Lookup(s, n) = s[i + 1].value
        BY <1>1, <1>3, <3>2, LookupFits
      <4>2. Lookup(r, n) = r[i].value
        BY <1>1, <1>2, <3>1, LookupFits
      <4> QED BY <3>3, <4>1, <4>2
    <3> QED BY <1>6, <3>4 DEF s, r, f
  <2> QED BY <2>1, <2>2
<1> QED BY <1>5, <1>6

\* The order of the names changes nothing, as sort_by_key() is stable.
LEMMA LookupSorted ==
  ASSUME NEW e \in Seq(Variable), NEW n \in Names
  PROVE  Lookup(SortByName(e), n) = Lookup(e, n)
<1> DEFINE b == SortByName(e)
           N == Len(e)
<1>1. /\ Len(b) = N /\ N \in Nat
      /\ \A i \in 1..N : Place(e, i) \in 1..N /\ b[Place(e, i)] = e[i]
  BY SortedIs, PlacesFollow
<1>2. \A r \in 1..N : \E i \in 1..N : Place(e, i) = r
  BY PlacesFollow
<1> HIDE DEF b
<1>3. CASE NoFit(e, n)
  <2>1. NoFit(b, n)
    <3> SUFFICES ASSUME NEW r \in 1..N PROVE ~SameName(b[r].name, n)
      BY <1>1 DEF NoFit
    <3>1. PICK i \in 1..N : Place(e, i) = r
      BY <1>2
    <3> QED BY <1>1, <1>3, <3>1 DEF NoFit
  <2> QED BY <1>1, <1>3, <2>1, LookupFits DEF b
<1>4. CASE ~NoFit(e, n)
  <2>1. PICK i \in Nat : FirstFit(e, n, i)
    BY <1>4, LookupFits
  <2>2. i \in 1..N /\ SameName(e[i].name, n)
    BY <2>1 DEF FirstFit
  <2>3. Place(e, i) \in 1..N /\ b[Place(e, i)] = e[i]
    BY <1>1, <2>2
  <2>4. ASSUME NEW r \in 1..(Place(e, i) - 1), SameName(b[r].name, n)
        PROVE  FALSE
    <3>10. r \in 1..N
      <4>1. ASSUME NEW x \in 1..N, NEW y \in 1..(x - 1) PROVE y \in 1..N
        BY <1>1
      <4> QED BY <2>3, <4>1
    <3>1. PICK m \in 1..N : Place(e, m) = r
      BY <1>2, <3>10
    <3>2. b[r] = e[m]
      BY <1>1, <3>1
    <3>3. SameName(e[m].name, n)
      BY <2>4, <3>2
    <3>4. e[m].name \in Names /\ e[i].name \in Names
      BY <2>2, VariableType
    <3>5. UpperWide(e[m].name) = UpperWide(e[i].name)
      BY <2>2, <3>3, <3>4, SameNameIs
    <3>6. m # i /\ Place(e, m) < Place(e, i)
      BY <2>3, <3>1
    <3>7. i <= m
      <4>1. ~(m \in 1..(i - 1))
        BY <2>1, <3>3 DEF FirstFit
      <4> QED BY <1>1, <2>2, <4>1
    <3>8. <<i, m>> \in NameOrder(e)
      BY <2>2, <3>5, <3>7, NameOrderIs
    <3>9. Place(e, i) < Place(e, m)
      BY <2>2, <3>6, <3>8, PlacesFollow
    <3> QED BY <2>3, <3>1, <3>6, <3>9
  <2>5. FirstFit(b, n, Place(e, i)) /\ Place(e, i) \in Nat
    BY <1>1, <2>2, <2>3, <2>4 DEF FirstFit
  <2>6. Lookup(b, n) = b[Place(e, i)].value
    BY <1>1, <2>5, LookupFits
  <2>7. Lookup(e, n) = e[i].value
    BY <1>1, <2>1, LookupFits
  <2> QED BY <2>3, <2>6, <2>7 DEF b
<1> QED BY <1>3, <1>4

-----------------------------------------------------------------------------
(* Taking pairs out, and overriding them.                                  *)

Keep(kept, p, k) == IF p.name = k THEN kept ELSE Append(kept, p)

\* What is kept without k, pair by pair.
Keeping(e, k) ==
  Loop(LAMBDA kept, p : IF p.name = k THEN kept ELSE Append(kept, p), <<>>, e)

\* LoopExists for the loops over pairs.
LEMMA PairsLoopExists ==
  ASSUME NEW b \in Seq(Variable), NEW N \in Nat,
         NEW s \in [1..N -> [Seq(Variable) -> Seq(Variable)]]
  PROVE  \E f \in [0..N -> Seq(Variable)] :
           f[0] = b /\ \A n \in 1..N : f[n] = s[n][f[n - 1]]
BY LoopExists

\* LoopInvariant for the loops over pairs.
LEMMA PairsInvariant ==
  ASSUME NEW N \in Nat, NEW f, f[0] \in Seq(Variable),
         \A n \in 1..N : f[n - 1] \in Seq(Variable) => f[n] \in Seq(Variable)
  PROVE  \A n \in 0..N : f[n] \in Seq(Variable)
BY LoopInvariant

\* A pair kept or not leaves a sequence of pairs.
LEMMA KeepType ==
  ASSUME NEW e \in Seq(Variable), NEW p \in Variable, NEW k
  PROVE  Keep(e, p, k) \in Seq(Variable)
BY DEF Keep

\* The loop that removes a name, step by step.
LEMMA KeepingIs ==
  ASSUME NEW e \in Seq(Variable), NEW k
  PROVE  LET at == Keeping(e, k)
         IN  /\ at[0] = <<>>
             /\ \A n \in 1..Len(e) : at[n] = Keep(at[n - 1], e[n], k)
             /\ \A n \in 0..Len(e) : at[n] \in Seq(Variable)
<1> DEFINE X == Seq(Variable)
           N == Len(e)
           b == <<>>
           s == [n \in 1..N |-> [x \in X |-> Keep(x, e[n], k)]]
           Is(f) == f = [n \in 0..N |-> IF n = 0 THEN b
                                        ELSE Keep(f[n - 1], e[n], k)]
           q == Keeping(e, k)
<1>1. b \in X /\ N \in Nat
  OBVIOUS
<1>2. s \in [1..N -> [X -> X]]
  <2>1. ASSUME NEW n \in 1..N, NEW x \in X PROVE Keep(x, e[n], k) \in X
    BY KeepType, VariableType
  <2> QED BY <2>1
<1>3. PICK f \in [0..N -> X] :
           f[0] = b /\ \A n \in 1..N : f[n] = s[n][f[n - 1]]
  <2> HIDE DEF b, N, s
  <2> QED BY <1>1, <1>2, PairsLoopExists
<1>4. Is(f)
  <2>1. ASSUME NEW n \in 1..N PROVE f[n] = Keep(f[n - 1], e[n], k)
    <3>1. f[n - 1] \in X /\ f[n] = s[n][f[n - 1]]
      <4> HIDE DEF s, b, N, X
      <4> QED BY <1>1, <1>3
    <3>2. s[n] = [x \in X |-> Keep(x, e[n], k)]
      OBVIOUS
    <3> QED BY <3>1, <3>2
  <2> QED BY <1>3, <2>1
<1>5. q = CHOOSE g : Is(g)
  BY DEF Keeping, Loop, Keep
<1>6. Is(q)
  <2> HIDE DEF Is, q
  <2> QED BY <1>4, <1>5
<1>7. q[0] = b /\ \A n \in 1..N : q[n] = Keep(q[n - 1], e[n], k)
  <2> HIDE DEF q, b, N
  <2> QED BY <1>1, <1>6
<1>8. \A n \in 1..N : q[n - 1] \in X => q[n] \in X
  BY <1>7, KeepType, VariableType
<1>9. \A n \in 0..N : q[n] \in X
  <2> HIDE DEF q, b, N
  <2> QED BY <1>1, <1>7, <1>8, PairsInvariant
<1> QED BY <1>7, <1>9

\* An override leaves a sequence of pairs.
LEMMA OverrideType ==
  ASSUME NEW e \in Seq(Variable), NEW k, NEW p \in Variable
  PROVE  /\ Without(e, k) = Keeping(e, k)[Len(e)]
         /\ Without(e, k) \in Seq(Variable)
         /\ Override(e, p) \in Seq(Variable)
<1>1. ASSUME NEW j PROVE Without(e, j) = Keeping(e, j)[Len(e)]
  BY DEF Without, Keeping
<1>2. ASSUME NEW j PROVE Without(e, j) \in Seq(Variable)
  <2>1. Len(e) \in 0..Len(e)
    OBVIOUS
  <2> QED BY <1>1, <2>1, KeepingIs
<1>3. Override(e, p) = Append(Without(e, p.name), p)
  BY DEF Override
<1> QED BY <1>1, <1>2, <1>3

\* The loop over the overrides, step by step.
LEMMA OverridingIs ==
  ASSUME NEW own \in Seq(Variable), NEW es \in Seq(Variable)
  PROVE  LET at == Loop(Override, own, es)
         IN  /\ at[0] = own
             /\ \A n \in 1..Len(es) : at[n] = Override(at[n - 1], es[n])
             /\ \A n \in 0..Len(es) : at[n] \in Seq(Variable)
<1> DEFINE X == Seq(Variable)
           N == Len(es)
           b == own
           s == [n \in 1..N |-> [x \in X |-> Override(x, es[n])]]
           Is(f) == f = [n \in 0..N |-> IF n = 0 THEN b
                                        ELSE Override(f[n - 1], es[n])]
           q == Loop(Override, own, es)
<1>1. b \in X /\ N \in Nat
  OBVIOUS
<1>2. s \in [1..N -> [X -> X]]
  <2>1. ASSUME NEW n \in 1..N, NEW x \in X PROVE Override(x, es[n]) \in X
    BY OverrideType, VariableType
  <2> QED BY <2>1
<1>3. PICK f \in [0..N -> X] :
           f[0] = b /\ \A n \in 1..N : f[n] = s[n][f[n - 1]]
  <2> HIDE DEF b, N, s
  <2> QED BY <1>1, <1>2, PairsLoopExists
<1>4. Is(f)
  <2>1. ASSUME NEW n \in 1..N PROVE f[n] = Override(f[n - 1], es[n])
    <3>1. f[n - 1] \in X /\ f[n] = s[n][f[n - 1]]
      <4> HIDE DEF s, b, N, X
      <4> QED BY <1>1, <1>3
    <3>2. s[n] = [x \in X |-> Override(x, es[n])]
      OBVIOUS
    <3> QED BY <3>1, <3>2
  <2> QED BY <1>3, <2>1
<1>5. q = CHOOSE g : Is(g)
  BY DEF Loop
<1>6. Is(q)
  <2> HIDE DEF Is, q
  <2> QED BY <1>4, <1>5
<1>7. q[0] = b /\ \A n \in 1..N : q[n] = Override(q[n - 1], es[n])
  <2> HIDE DEF q, b, N
  <2> QED BY <1>1, <1>6
<1>8. \A n \in 1..N : q[n - 1] \in X => q[n] \in X
  BY <1>7, OverrideType, VariableType
<1>9. \A n \in 0..N : q[n] \in X
  <2> HIDE DEF q, b, N
  <2> QED BY <1>1, <1>7, <1>8, PairsInvariant
<1> QED BY <1>7, <1>9

\* Names that are the same to n and to each other are one name, x.
Only(e, n, x) == \A i \in 1..Len(e) : SameName(e[i].name, n) => e[i].name = x

\* Another pair under the one name leaves it the only one.
LEMMA OnlyAppend ==
  ASSUME NEW e \in Seq(Variable), NEW v \in Variable, NEW n, NEW x,
         Only(e, n, x), SameName(v.name, n) => v.name = x
  PROVE  Only(Append(e, v), n, x)
<1>1. /\ Len(Append(e, v)) = Len(e) + 1 /\ Len(e) \in Nat
      /\ Append(e, v)[Len(e) + 1] = v
      /\ \A i \in 1..Len(e) : Append(e, v)[i] = e[i]
  OBVIOUS
<1> SUFFICES ASSUME NEW i \in 1..(Len(e) + 1),
                    SameName(Append(e, v)[i].name, n)
             PROVE  Append(e, v)[i].name = x
  BY <1>1 DEF Only
<1>2. CASE i = Len(e) + 1
  BY <1>1, <1>2
<1>3. CASE i \in 1..Len(e)
  BY <1>1, <1>3 DEF Only
<1> QED BY <1>1, <1>2, <1>3

\* What taking k out of e leaves there for n.
Left(w, e, k, n) ==
  /\ ~SameName(k, n) => /\ Lookup(w, n) = Lookup(e, n)
                        /\ Lookup(Reverse(w), n) = Lookup(Reverse(e), n)
  /\ Only(e, n, k) /\ SameName(k, n) => /\ Lookup(w, n) = None
                                        /\ Lookup(Reverse(w), n) = None
  /\ \A x : Only(e, n, x) => Only(w, n, x)

\* Nothing is found in an empty environment.
LEMMA LookupNothing ==
  ASSUME NEW n
  PROVE  Lookup(<<>>, n) = None /\ Lookup(Reverse(<<>>), n) = None
<1>1. Len(<<>>) = 0 /\ <<>> \in Seq(Variable)
  OBVIOUS
<1>2. Len(Reverse(<<>>)) = 0
  BY <1>1, ReverseIs
<1>3. NoFit(<<>>, n) /\ NoFit(Reverse(<<>>), n)
  BY <1>1, <1>2 DEF NoFit
<1> HIDE DEF NoFit
<1> QED BY <1>1, <1>2, <1>3, LookupFits

\* A step of the loop that removes a name leaves what it should.
LEMMA KeepLeaves ==
  ASSUME NEW w \in Seq(Variable), NEW e \in Seq(Variable), NEW k, NEW n,
         NEW v \in Variable, Left(w, e, k, n)
  PROVE  Left(Keep(w, v, k), Append(e, v), k, n)
<1> DEFINE f == Append(e, v)
           y == Keep(w, v, k)
<1>1. f \in Seq(Variable) /\ Len(f) = Len(e) + 1 /\ Len(e) \in Nat
      /\ f[Len(e) + 1] = v /\ \A i \in 1..Len(e) : f[i] = e[i]
  OBVIOUS
<1>2. Lookup(f, n) = IF Lookup(e, n) # None THEN Lookup(e, n)
                     ELSE IF SameName(v.name, n) THEN v.value ELSE None
  BY LookupAppend
<1>3. Lookup(Reverse(f), n) =
        IF SameName(v.name, n) THEN v.value ELSE Lookup(Reverse(e), n)
  BY LookupReverse
<1>4. ASSUME NEW x, Only(f, n, x)
      PROVE  Only(e, n, x) /\ (SameName(v.name, n) => v.name = x)
  <2> HIDE DEF f
  <2>1. \A i \in 1..(Len(e) + 1) : SameName(f[i].name, n) => f[i].name = x
    BY <1>1, <1>4 DEF Only
  <2>2. Len(e) + 1 \in 1..(Len(e) + 1)
        /\ \A i \in 1..Len(e) : i \in 1..(Len(e) + 1)
    BY <1>1
  <2> QED BY <1>1, <2>1, <2>2 DEF Only
<1>5. CASE v.name = k
  <2>1. y = w
    BY <1>5 DEF Keep
  <2>2. ASSUME ~SameName(k, n)
        PROVE  Lookup(f, n) = Lookup(e, n)
               /\ Lookup(Reverse(f), n) = Lookup(Reverse(e), n)
    BY <1>2, <1>3, <1>5, <2>2
  <2> HIDE DEF f, y
  <2> QED BY <1>4, <2>1, <2>2 DEF Left, f, y
<1>6. CASE v.name # k
  <2>1. y = Append(w, v)
    BY <1>6 DEF Keep
  <2>2. Lookup(y, n) = IF Lookup(w, n) # None THEN Lookup(w, n)
                       ELSE IF SameName(v.name, n) THEN v.value ELSE None
    BY <2>1, LookupAppend
  <2>3. Lookup(Reverse(y), n) =
          IF SameName(v.name, n) THEN v.value ELSE Lookup(Reverse(w), n)
    BY <2>1, LookupReverse
  <2>4. ASSUME NEW x, Only(f, n, x) PROVE Only(y, n, x)
    <3>1. Only(w, n, x) /\ (SameName(v.name, n) => v.name = x)
      BY <1>4, <2>4 DEF Left
    <3> QED BY <2>1, <3>1, OnlyAppend
  <2> HIDE DEF f, y
  <2>5. ASSUME Only(f, n, k) PROVE ~SameName(v.name, n) /\ Only(e, n, k)
    BY <1>4, <1>6, <2>5
  <2>6. ~SameName(k, n) => /\ Lookup(y, n) = Lookup(f, n)
                           /\ Lookup(Reverse(y), n) = Lookup(Reverse(f), n)
    BY <1>2, <1>3, <2>2, <2>3 DEF Left
  <2>7. Only(f, n, k) /\ SameName(k, n) =>
          Lookup(y, n) = None /\ Lookup(Reverse(y), n) = None
    BY <2>2, <2>3, <2>5 DEF Left
  <2> QED BY <2>4, <2>6, <2>7 DEF Left, f, y
<1> QED BY <1>5, <1>6

\* Without one name, what is found under the others is as before.
LEMMA WithoutLeaves ==
  ASSUME NEW e \in Seq(Variable), NEW k, NEW n
  PROVE  Left(Without(e, k), e, k, n)
<1> DEFINE N == Len(e)
           at == Keeping(e, k)
           Is(j) == Left(at[j], SubSeq(e, 1, j), k, n)
           S == {j \in 0..N : Is(j)}
<1>1. /\ at[0] = <<>> /\ \A j \in 1..N : at[j] = Keep(at[j - 1], e[j], k)
      /\ \A j \in 0..N : at[j] \in Seq(Variable)
  BY KeepingIs
<1>2. N \in Nat
  OBVIOUS
<1> HIDE DEF at
<1>3. Is(0)
  <2>1. SubSeq(e, 1, 0) = <<>>
    OBVIOUS
  <2>2. Left(<<>>, <<>>, k, n)
    BY LookupNothing DEF Left
  <2> HIDE DEF Left
  <2> QED BY <1>1, <2>1, <2>2
<1>4. ASSUME NEW j \in 0..(N - 1), Is(j) PROVE Is(j + 1)
  <2>1. /\ SubSeq(e, 1, j + 1) = Append(SubSeq(e, 1, j), e[j + 1])
        /\ SubSeq(e, 1, j) \in Seq(Variable) /\ e[j + 1] \in Variable
    BY PrefixGrows
  <2>2. j + 1 \in 1..N /\ (j + 1) - 1 = j /\ j \in 0..N
    BY <1>2
  <2>3. at[j + 1] = Keep(at[j], e[j + 1], k) /\ at[j] \in Seq(Variable)
    BY <1>1, <2>2
  <2>4. Left(Keep(at[j], e[j + 1], k), Append(SubSeq(e, 1, j), e[j + 1]), k, n)
    BY <1>4, <2>1, <2>3, KeepLeaves
  <2> QED BY <2>1, <2>3, <2>4
<1>5. Is(N)
  <2>1. 0 \in S /\ \A j \in 0..(N - 1) : j \in S => j + 1 \in S
    <3> HIDE DEF Is
    <3> QED BY <1>2, <1>3, <1>4
  <2>2. \A j \in 0..N : j \in S
    <3> HIDE DEF S
    <3> QED BY <1>2, <2>1, UpToInduct
  <2> QED BY <1>2, <2>2
<1>6. SubSeq(e, 1, N) = e
  OBVIOUS
<1>7. Without(e, k) = at[N]
  BY DEF Without, Keeping, at
<1> QED BY <1>5, <1>6, <1>7

\* What an override leaves there for n.
LEMMA OverrideLookup ==
  ASSUME NEW e \in Seq(Variable), NEW v \in Variable, NEW n, NEW x,
         Only(e, n, x), SameName(v.name, n) => v.name = x
  PROVE  /\ Only(Override(e, v), n, x)
         /\ Lookup(Override(e, v), n) =
              IF SameName(v.name, n) THEN v.value ELSE Lookup(e, n)
<1> DEFINE w == Without(e, v.name)
<1>1. w \in Seq(Variable) /\ Override(e, v) = Append(w, v)
  BY OverrideType DEF Override
<1>2. Left(w, e, v.name, n)
  BY WithoutLeaves
<1> HIDE DEF w
<1>3. Lookup(Append(w, v), n) =
        IF Lookup(w, n) # None THEN Lookup(w, n)
        ELSE IF SameName(v.name, n) THEN v.value ELSE None
  BY <1>1, LookupAppend
<1>4. Only(w, n, x) /\ Only(Append(w, v), n, x)
  <2>1. Only(w, n, x)
    BY <1>2 DEF Left
  <2> QED BY <1>1, <2>1, OnlyAppend
<1>5. CASE SameName(v.name, n)
  <2>1. Lookup(w, n) = None
    BY <1>2, <1>5 DEF Left
  <2> QED BY <1>1, <1>3, <1>4, <1>5, <2>1
<1>6. CASE ~SameName(v.name, n)
  <2>1. Lookup(w, n) = Lookup(e, n)
    BY <1>2, <1>6 DEF Left
  <2> QED BY <1>1, <1>3, <1>4, <1>6, <2>1
<1> QED BY <1>5, <1>6

\* What build_env_block() has made of own and es, for n.
LEMMA OverridingLookup ==
  ASSUME NEW own \in Seq(Variable), NEW es \in Seq(Variable), NEW n, NEW x,
         Only(own, n, x), Only(es, n, x)
  PROVE  /\ Loop(Override, own, es)[Len(es)] \in Seq(Variable)
         /\ Lookup(Loop(Override, own, es)[Len(es)], n) =
              IF Lookup(Reverse(es), n) # None THEN Lookup(Reverse(es), n)
              ELSE Lookup(own, n)
<1> DEFINE N == Len(es)
           at == Loop(Override, own, es)
           Said(j) == Lookup(Reverse(SubSeq(es, 1, j)), n)
           Is(j) == /\ Only(at[j], n, x)
                    /\ Lookup(at[j], n) = IF Said(j) # None THEN Said(j)
                                          ELSE Lookup(own, n)
           S == {j \in 0..N : Is(j)}
<1>1. /\ at[0] = own /\ \A j \in 1..N : at[j] = Override(at[j - 1], es[j])
      /\ \A j \in 0..N : at[j] \in Seq(Variable)
  BY OverridingIs
<1>2. N \in Nat
  OBVIOUS
<1> HIDE DEF at
<1>3. Is(0)
  <2>1. SubSeq(es, 1, 0) = <<>>
    OBVIOUS
  <2>2. Said(0) = None
    BY <2>1, LookupNothing
  <2> HIDE DEF Said
  <2> QED BY <1>1, <2>2
<1>4. ASSUME NEW j \in 0..(N - 1), Is(j) PROVE Is(j + 1)
  <2> DEFINE v == es[j + 1]
             e == SubSeq(es, 1, j)
  <2>1. SubSeq(es, 1, j + 1) = Append(e, v)
        /\ e \in Seq(Variable) /\ v \in Variable
    BY PrefixGrows
  <2>2. j + 1 \in 1..N /\ (j + 1) - 1 = j /\ j \in 0..N
    BY <1>2
  <2>3. at[j + 1] = Override(at[j], v) /\ at[j] \in Seq(Variable)
    BY <1>1, <2>2
  <2>4. SameName(v.name, n) => v.name = x
    BY <2>2 DEF Only
  <2>5. Only(at[j], n, x)
    BY <1>4
  <2> HIDE DEF v, e
  <2>6. /\ Only(at[j + 1], n, x)
        /\ Lookup(at[j + 1], n) =
             IF SameName(v.name, n) THEN v.value ELSE Lookup(at[j], n)
    BY <2>1, <2>3, <2>4, <2>5, OverrideLookup
  <2>7. Said(j + 1) = IF SameName(v.name, n) THEN v.value ELSE Said(j)
    <3>1. Lookup(Reverse(Append(e, v)), n) =
            IF SameName(v.name, n) THEN v.value ELSE Lookup(Reverse(e), n)
      BY <2>1, LookupReverse
    <3>2. SubSeq(es, 1, j + 1) = Append(e, v)
      BY <2>1
    <3>3. Said(j + 1) = Lookup(Reverse(Append(e, v)), n)
      BY <3>2
    <3>4. Said(j) = Lookup(Reverse(e), n)
      BY DEF e
    <3> HIDE DEF Said
    <3> QED BY <3>1, <3>3, <3>4
  <2>8. v.value # None
    BY <2>1, CommandAssumption DEF Variable
  <2>9. Lookup(at[j], n) = IF Said(j) # None THEN Said(j)
                           ELSE Lookup(own, n)
    BY <1>4
  <2> HIDE DEF Said
  <2> QED BY <2>6, <2>7, <2>8, <2>9
<1>5. Is(N)
  <2>1. 0 \in S /\ \A j \in 0..(N - 1) : j \in S => j + 1 \in S
    <3> HIDE DEF Is
    <3> QED BY <1>2, <1>3, <1>4
  <2>2. \A j \in 0..N : j \in S
    <3> HIDE DEF S
    <3> QED BY <1>2, <2>1, UpToInduct
  <2> QED BY <1>2, <2>2
<1>6. SubSeq(es, 1, N) = es
  OBVIOUS
<1>7. at[N] \in Seq(Variable)
  BY <1>1, <1>2
<1> QED BY <1>5, <1>6, <1>7 DEF at

\* A block is nothing, or sorted pairs.
LEMMA BlockType ==
  ASSUME NEW es \in Seq(Variable), inherited \in Seq(Variable), NEW clear
  PROVE  \/ BuildEnvBlock(clear, es) = None /\ ~clear /\ es = <<>>
         \/ \E own \in Seq(Variable) :
              /\ own = IF clear THEN <<>> ELSE inherited
              /\ Loop(Override, own, es)[Len(es)] \in Seq(Variable)
              /\ BuildEnvBlock(clear, es) =
                   SortByName(Loop(Override, own, es)[Len(es)])
<1>1. CASE ~clear /\ es = <<>>
  BY <1>1 DEF BuildEnvBlock
<1>2. CASE ~(~clear /\ es = <<>>)
  <2> DEFINE own == IF clear THEN <<>> ELSE inherited
  <2>1. own \in Seq(Variable)
    OBVIOUS
  <2>2. BuildEnvBlock(clear, es) =
          SortByName(Loop(Override, own, es)[Len(es)])
    BY <1>2 DEF BuildEnvBlock
  <2>3. Len(es) \in 0..Len(es)
    OBVIOUS
  <2> HIDE DEF own
  <2>4. Loop(Override, own, es)[Len(es)] \in Seq(Variable)
    BY <2>1, <2>3, OverridingIs
  <2> QED BY <2>1, <2>2, <2>4 DEF own
<1> QED BY <1>1, <1>2

\* A child of CreateProcessW reads what one of std::process would.
LEMMA BlockReads ==
  ASSUME NEW es \in Seq(Variable), inherited \in Seq(Variable),
         NEW clear, NEW n \in Names, NEW x, Only(inherited, n, x),
         Only(es, n, x)
  PROVE  LET b == BuildEnvBlock(clear, es)
         IN  Lookup(IF b = None THEN inherited ELSE b, n) =
               StdEnvironment(clear, es, n)
<1> DEFINE b == BuildEnvBlock(clear, es)
<1>1. CASE b = None /\ ~clear /\ es = <<>>
  <2>1. Lookup(Reverse(es), n) = None
    BY <1>1, LookupNothing
  <2>2. StdEnvironment(clear, es, n) = Lookup(inherited, n)
    BY <1>1, <2>1 DEF StdEnvironment
  <2> HIDE DEF b
  <2>3. Lookup(IF b = None THEN inherited ELSE b, n) = Lookup(inherited, n)
    BY <1>1
  <2> QED BY <2>2, <2>3 DEF b
<1>2. CASE \E own \in Seq(Variable) :
              /\ own = IF clear THEN <<>> ELSE inherited
              /\ Loop(Override, own, es)[Len(es)] \in Seq(Variable)
              /\ b = SortByName(Loop(Override, own, es)[Len(es)])
  <2>1. PICK own \in Seq(Variable) :
              /\ own = IF clear THEN <<>> ELSE inherited
              /\ Loop(Override, own, es)[Len(es)] \in Seq(Variable)
              /\ b = SortByName(Loop(Override, own, es)[Len(es)])
    BY <1>2
  <2> DEFINE p == Loop(Override, own, es)[Len(es)]
             given == Lookup(Reverse(es), n)
  <2>2. Only(own, n, x)
    BY <2>1 DEF Only
  <2>3. Lookup(p, n) = IF given # None THEN given ELSE Lookup(own, n)
    BY <2>2, OverridingLookup
  <2>4. p \in Seq(Variable) /\ b = SortByName(p)
    BY <2>1
  <2> HIDE DEF p, b
  <2>5. Lookup(b, n) = Lookup(p, n) /\ b \in Seq(Variable)
    BY <2>4, LookupSorted, SortedIs
  <2>6. b # None
    BY <2>5, CommandAssumption
  <2>7. Lookup(own, n) = IF clear THEN None ELSE Lookup(inherited, n)
    BY <2>1, LookupNothing
  <2>8. StdEnvironment(clear, es, n) =
          IF given # None THEN given
          ELSE IF clear THEN None ELSE Lookup(inherited, n)
    BY DEF StdEnvironment
  <2> HIDE DEF given
  <2>9. Lookup(IF b = None THEN inherited ELSE b, n) = Lookup(b, n)
    BY <2>6
  <2>10. Lookup(IF b = None THEN inherited ELSE b, n)
           = StdEnvironment(clear, es, n)
    BY <2>3, <2>5, <2>7, <2>8, <2>9
  <2> QED BY <2>10 DEF b
<1>3. \/ b = None /\ ~clear /\ es = <<>>
      \/ \E own \in Seq(Variable) :
              /\ own = IF clear THEN <<>> ELSE inherited
              /\ Loop(Override, own, es)[Len(es)] \in Seq(Variable)
              /\ b = SortByName(Loop(Override, own, es)[Len(es)])
  BY BlockType
<1> QED BY <1>1, <1>2, <1>3

-----------------------------------------------------------------------------
(* The command.                                                            *)

\* What env() can have added is a variable.
LEMMA GivenType ==
  /\ Given \subseteq Variable /\ Seq(Given) \subseteq Seq(Variable)
  /\ \A k \in Names, v \in Values \cup {Handle} : Pair(k, v) \in Given
  /\ \A e \in Environments \cup {<<>>} : e \in Seq(Variable)
<1>1. Given \subseteq Variable
  BY DEF Given, Variable, AnyValue
<1>2. \A k \in Names, v \in Values \cup {Handle} : Pair(k, v) \in Given
  BY DEF Given, Pair
<1>3. \A e \in Environments \cup {<<>>} : e \in Seq(Variable)
  <2>1. Environments \subseteq Seq(Variable)
    BY CommandAssumption
  <2>2. <<>> \in Seq(Variable)
    OBVIOUS
  <2> QED BY <2>1, <2>2, Zenon
<1>4. Seq(Given) \subseteq Seq(Variable)
  BY <1>1, SeqMonotonic
<1> QED BY <1>1, <1>2, <1>3, <1>4

\* Nothing is added by taking pairs out.
LEMMA WithoutType ==
  ASSUME NEW e \in Seq(Given), NEW k
  PROVE  Without(e, k) \in Seq(Given)
<1> DEFINE X == Seq(Given)
           N == Len(e)
           at == Keeping(e, k)
<1>1. e \in Seq(Variable) /\ N \in Nat
  BY GivenType
<1>2. /\ at[0] = <<>> /\ \A n \in 1..N : at[n] = Keep(at[n - 1], e[n], k)
  BY <1>1, KeepingIs
<1>3. Without(e, k) = at[N]
  BY DEF Without, Keeping
<1> HIDE DEF at
<1>4. \A n \in 1..N : at[n - 1] \in X => at[n] \in X
  <2> SUFFICES ASSUME NEW n \in 1..N, at[n - 1] \in X PROVE at[n] \in X
    OBVIOUS
  <2>1. e[n] \in Given /\ at[n] = Keep(at[n - 1], e[n], k)
    BY <1>2
  <2>2. ASSUME NEW w \in X, NEW p \in Given PROVE Keep(w, p, k) \in X
    BY DEF Keep
  <2> QED BY <2>1, <2>2
<1>5. at[0] \in X
  BY <1>2
<1>6. \A n \in 0..N : at[n] \in X
  <2> HIDE DEF X, N
  <2> QED BY <1>1, <1>4, <1>5, LoopInvariant
<1> QED BY <1>1, <1>3, <1>6

\* The names in e are among those of S.
Spelt(e, S) == \A i \in 1..Len(e) : e[i].name \in S

\* To remove pairs brings in no new name.
LEMMA WithoutSpelt ==
  ASSUME NEW e \in Seq(Variable), NEW k, NEW S, Spelt(e, S)
  PROVE  Spelt(Without(e, k), S)
<1> DEFINE X == {w \in Seq(Variable) : Spelt(w, S)}
           N == Len(e)
           at == Keeping(e, k)
<1>1. N \in Nat
  OBVIOUS
<1>2. /\ at[0] = <<>> /\ \A n \in 1..N : at[n] = Keep(at[n - 1], e[n], k)
  BY KeepingIs
<1>3. Without(e, k) = at[N]
  BY DEF Without, Keeping
<1> HIDE DEF at
<1>4. \A n \in 1..N : at[n - 1] \in X => at[n] \in X
  <2> SUFFICES ASSUME NEW n \in 1..N, at[n - 1] \in X PROVE at[n] \in X
    OBVIOUS
  <2>1. /\ e[n] \in Variable /\ e[n].name \in S
        /\ at[n] = Keep(at[n - 1], e[n], k)
    BY <1>2 DEF Spelt
  <2>2. ASSUME NEW w \in X, NEW p \in Variable, p.name \in S
        PROVE  Keep(w, p, k) \in X
    <3>1. CASE p.name = k
      BY <3>1 DEF Keep
    <3>2. CASE p.name # k
      <4> DEFINE y == Append(w, p)
      <4>1. /\ y \in Seq(Variable) /\ Len(y) = Len(w) + 1 /\ Len(w) \in Nat
            /\ y[Len(w) + 1] = p /\ \A i \in 1..Len(w) : y[i] = w[i]
        OBVIOUS
      <4>2. \A i \in 1..Len(w) : w[i].name \in S
        BY DEF Spelt
      <4>3. Keep(w, p, k) = y
        BY <3>2 DEF Keep
      <4> HIDE DEF y
      <4>4. ASSUME NEW i \in 1..(Len(w) + 1) PROVE y[i].name \in S
        <5>1. i = Len(w) + 1 \/ i \in 1..Len(w)
          BY <4>1
        <5> QED BY <2>2, <4>1, <4>2, <5>1
      <4>5. Spelt(y, S)
        BY <4>1, <4>4 DEF Spelt
      <4> QED BY <4>1, <4>3, <4>5
    <3> QED BY <3>1, <3>2
  <2> QED BY <2>1, <2>2
<1>5. at[0] \in X
  BY <1>2 DEF Spelt
<1>6. \A n \in 0..N : at[n] \in X
  <2> HIDE DEF X, N
  <2> QED BY <1>1, <1>4, <1>5, LoopInvariant
<1> QED BY <1>1, <1>3, <1>6

\* build_command_line() writes characters.
LEMMA BuildCommandLineType ==
  ASSUME NEW prog \in Seq(Char), NEW words \in Seq(Seq(Char))
  PROVE  BuildCommandLine(prog, words) \in Seq(Char)
<1>1. PICK T \in Seq(Char) : \E q :
           /\ BuildCommandLine(prog, words) = QuoteArg(Lossy(prog)) \o T
           /\ T = <<>> \/ T[1] = Space
           /\ Reads(NoArg, T, q)
           /\ EndArg(q) = Between(ReadArgs(words, Len(words)))
  BY LineReads
<1>2. BuildCommandLine(prog, words) = QuoteArg(Lossy(prog)) \o T
  BY <1>1
<1>3. QuoteArg(Lossy(prog)) \in Seq(Char)
  BY LossyType, QuoteArgType
<1> HIDE DEF BuildCommandLine
<1> QED BY <1>2, <1>3

\* Programs and arguments are strings.
LEMMA CharArgs ==
  /\ Programs \cup {<<>>} \subseteq Seq(Char)
  /\ Seq(FirstArgs \cup LaterArgs) \subseteq Seq(Seq(Char))
<1>1. FirstArgs \cup LaterArgs \subseteq Seq(Char)
  BY CommandAssumption
<1>2. Programs \cup {<<>>} \subseteq Seq(Char)
  <2>1. Programs \subseteq Seq(Char)
    BY CommandAssumption
  <2>2. <<>> \in Seq(Char)
    OBVIOUS
  <2> QED BY <2>1, <2>2, Zenon
<1> QED BY <1>1, <1>2, SeqMonotonic

OneFor(S, n) ==
  \A a, b \in S : SameName(a, n) /\ SameName(b, n) => a = b

\* While it is built, a command has what it was told, up to the inherited
\* variables that env_remove() leaves.
Building ==
  state = "building" =>
    /\ program \in Programs /\ environment = None
    /\ Spelt(inherited, spelled) /\ Spelt(envs, spelled)
    /\ \A n \in Names :
         OneFor(spelled, n) =>
           \/ StdEnvironment(env_clear, envs, n) = wanted[n]
           \/ RemovedInherited(n)

CommandInv ==
  /\ CommandTypeOK /\ Building
  /\ ArgumentsReadBack /\ EnvironmentAsWanted /\ BlockIsSorted

\* Where a name has one spelling, it has it in all environments.
LEMMA OneName ==
  ASSUME NEW S, NEW n, OneFor(S, n)
  PROVE  \E x : \A e : Spelt(e, S) => Only(e, n, x)
<1>1. PICK x : \A a \in S : SameName(a, n) => a = x
  BY DEF OneFor
<1> QED BY <1>1 DEF Spelt, Only

\* What the child reads is a value, or nothing.
LEMMA WhatIsRead ==
  ASSUME CommandTypeOK, NEW n
  PROVE  /\ ChildReads(n) \in AnyValue \cup {None}
         /\ Lookup(inherited, n) \in AnyValue \cup {None}
<1>1. /\ envs \in Seq(Variable) /\ inherited \in Seq(Variable)
      /\ environment \in {None} \cup Seq(Variable)
  BY GivenType DEF CommandTypeOK
<1>2. Reverse(envs) \in Seq(Variable)
  BY <1>1, ReverseIs
<1>3. Lookup(Reverse(envs), n) \in AnyValue \cup {None}
      /\ Lookup(inherited, n) \in AnyValue \cup {None}
  BY <1>1, <1>2, LookupType
<1>4. StdEnvironment(env_clear, envs, n) \in AnyValue \cup {None}
  BY <1>3 DEF StdEnvironment
<1>5. environment # None => Lookup(environment, n) \in AnyValue \cup {None}
  BY <1>1, LookupType
<1>6. ChildReads(n) =
        IF monitors = {} THEN StdEnvironment(env_clear, envs, n)
        ELSE IF environment = None THEN Lookup(inherited, n)
        ELSE Lookup(environment, n)
  BY DEF ChildReads
<1> QED BY <1>3, <1>4, <1>5, <1>6

\* The invariant holds of a new builder.
LEMMA CommandInitInv == CommandInit => CommandInv
<1> SUFFICES ASSUME CommandInit PROVE CommandInv
  OBVIOUS
<1>1. inherited \in Seq(Variable) /\ inherited \in Environments
  BY GivenType DEF CommandInit
<1>2. \A n \in Names : Lookup(inherited, n) \in AnyValue \cup {None}
  BY <1>1, LookupType
<1>3. \A p \in ToSet(inherited) : p.name \in Names
  BY <1>1, VariableType DEF ToSet
<1>4. CommandTypeOK
  <2>1. wanted \in [Names -> AnyValue \cup {None}]
    BY <1>2 DEF CommandInit
  <2>2. spelled \subseteq Names
    BY <1>3 DEF CommandInit
  <2>3. calls \in 0..MaxCalls
    BY CommandAssumption DEF CommandInit
  <2>4. envs \in Seq(Given) /\ line \in Seq(Char)
        /\ args \in Seq(FirstArgs \cup LaterArgs)
    BY DEF CommandInit
  <2>5. /\ state = "building" /\ program \in Programs /\ monitors = {}
        /\ env_clear = FALSE /\ environment = None /\ told = None
    BY DEF CommandInit
  <2> QED BY <1>1, <2>1, <2>2, <2>3, <2>4, <2>5 DEF CommandTypeOK
<1>5. Building
  <2>1. Spelt(inherited, spelled) /\ Spelt(envs, spelled)
    BY <1>1 DEF CommandInit, Spelt, ToSet
  <2>2. ASSUME NEW n \in Names
        PROVE  StdEnvironment(env_clear, envs, n) = wanted[n]
    <3>1. env_clear = FALSE /\ envs = <<>> /\ wanted[n] = Lookup(inherited, n)
      BY DEF CommandInit
    <3>2. Lookup(Reverse(<<>>), n) = None
      BY LookupNothing
    <3> QED BY <3>1, <3>2 DEF StdEnvironment
  <2>3. program \in Programs /\ environment = None
    BY DEF CommandInit
  <2> QED BY <2>1, <2>2, <2>3 DEF Building
<1>6. ArgumentsReadBack /\ EnvironmentAsWanted /\ BlockIsSorted
  BY DEF CommandInit, ArgumentsReadBack, EnvironmentAsWanted, BlockIsSorted
<1> QED BY <1>4, <1>5, <1>6 DEF CommandInv

\* build_env_block() builds nothing or sorted pairs.
LEMMA BlockInType ==
  ASSUME CommandTypeOK, NEW es \in Seq(Variable)
  PROVE  /\ BuildEnvBlock(env_clear, es) \in {None} \cup Seq(Variable)
         /\ BuildEnvBlock(env_clear, es) # None =>
              \E p \in Seq(Variable) :
                BuildEnvBlock(env_clear, es) = SortByName(p)
<1> DEFINE b == BuildEnvBlock(env_clear, es)
<1>1. inherited \in Seq(Variable)
  BY GivenType DEF CommandTypeOK
<1>2. b = None \/ \E p \in Seq(Variable) : b = SortByName(p)
  BY <1>1, BlockType
<1>3. \A p \in Seq(Variable) : SortByName(p) \in Seq(Variable)
  BY SortedIs
<1> HIDE DEF b
<1>4. b \in {None} \cup Seq(Variable)
      /\ (b # None => \E p \in Seq(Variable) : b = SortByName(p))
  BY <1>2, <1>3
<1> QED BY <1>4 DEF b

\* The handle of the sentinel pipe is one pair more.
LEMMA WithHandleType ==
  ASSUME CommandTypeOK
  PROVE  WithHandle \in Seq(Given)
<1>1. Pair(ENV_VAR, Handle) \in Given /\ envs \in Seq(Given)
  BY GivenType, CommandAssumption DEF CommandTypeOK
<1>2. Append(envs, Pair(ENV_VAR, Handle)) \in Seq(Given)
  BY <1>1
<1> QED BY <1>1, <1>2 DEF WithHandle

\* The fields of a command stay what they are.
LEMMA CommandTypeStep ==
  ASSUME CommandTypeOK, [CommandNext]_commandVars
  PROVE  CommandTypeOK'
<1> USE DEF CommandTypeOK
<1>1. ASSUME Call
      PROVE  /\ state' = "building" /\ program' \in Programs \cup {<<>>}
             /\ inherited' \in Environments \cup {<<>>}
             /\ line' \in Seq(Char)
             /\ environment' \in {None} \cup Seq(Variable)
             /\ told' \in AnyValue \cup {None}
             /\ calls' \in 0..MaxCalls
  <2>1. calls + 1 \in 0..MaxCalls
    BY <1>1, CommandAssumption DEF Call
  <2> QED BY <1>1, <2>1 DEF Call
<1>2. ASSUME NEW k \in Names, NEW v \in Values \cup {None}, Want(k, v)
      PROVE  /\ wanted' \in [Names -> AnyValue \cup {None}]
             /\ spelled' \subseteq Names
  <2>1. v \in AnyValue \cup {None}
    BY DEF AnyValue
  <2> QED BY <1>2, <2>1 DEF Want
<1>3. ASSUME NEW a \in FirstArgs \cup LaterArgs, Arg(a) PROVE CommandTypeOK'
  <2>1. args' \in Seq(FirstArgs \cup LaterArgs)
    BY <1>3 DEF Arg
  <2>2. Call /\ UNCHANGED <<envs, env_clear, monitors, wanted, spelled>>
    BY <1>3 DEF Arg
  <2> QED BY <1>1, <2>1, <2>2
<1>4. ASSUME NEW k \in Names, NEW v \in Values, Env(k, v) PROVE CommandTypeOK'
  <2>1. Pair(k, v) \in Given
    BY GivenType
  <2>2. envs' \in Seq(Given)
    BY <1>4, <2>1 DEF Env
  <2>3. Call /\ Want(k, v) /\ UNCHANGED <<args, env_clear, monitors>>
    BY <1>4 DEF Env
  <2> QED BY <1>1, <1>2, <2>2, <2>3
<1>5. ASSUME NEW k \in Names, EnvRemove(k) PROVE CommandTypeOK'
  <2>1. envs' \in Seq(Given)
    BY <1>5, WithoutType DEF EnvRemove
  <2>2. Call /\ Want(k, None) /\ UNCHANGED <<args, env_clear, monitors>>
    BY <1>5 DEF EnvRemove
  <2> QED BY <1>1, <1>2, <2>1, <2>2
<1>6. ASSUME EnvClear PROVE CommandTypeOK'
  <2>1. Call /\ env_clear' = TRUE /\ envs' = <<>>
        /\ wanted' = [n \in Names |-> None]
        /\ UNCHANGED <<args, monitors, spelled>>
    BY <1>6 DEF EnvClear
  <2>2. <<>> \in Seq(Given)
    OBVIOUS
  <2> QED BY <1>1, <2>1, <2>2
<1>7. ASSUME NEW m \in Monitor, AddMonitor(m) PROVE CommandTypeOK'
  <2>1. Call /\ monitors' = monitors \cup {m}
        /\ UNCHANGED <<args, envs, env_clear, wanted, spelled>>
    BY <1>7 DEF AddMonitor
  <2> QED BY <1>1, <2>1
<1>8. ASSUME Spawn PROVE CommandTypeOK'
  <2>1. envs' \in Seq(Given) /\ envs' \in Seq(Variable)
    BY <1>8, WithHandleType, GivenType DEF Spawn
  <2>2. program \in Seq(Char) /\ args \in Seq(Seq(Char))
    BY CharArgs
  <2>3. BuildCommandLine(program, args) \in Seq(Char)
    BY <2>2, BuildCommandLineType
  <2>4. BuildEnvBlock(env_clear, envs') \in {None} \cup Seq(Variable)
    <3> HIDE DEF CommandTypeOK
    <3> QED BY <2>1, BlockInType
  <2>5. line' \in Seq(Char) /\ environment' \in {None} \cup Seq(Variable)
    BY <1>8, <2>3, <2>4 DEF Spawn
  <2>6. /\ state' = "asked"
        /\ UNCHANGED <<program, args, env_clear, monitors, inherited, told,
                       calls, wanted, spelled>>
    BY <1>8 DEF Spawn
  <2> QED BY <2>1, <2>5, <2>6
<1>9. ASSUME CreateProcess PROVE CommandTypeOK'
  <2>1. told' \in AnyValue \cup {None}
    BY <1>9, WhatIsRead DEF CreateProcess
  <2>2. <<>> \in Seq(Given) /\ <<>> \in Seq(Char)
        /\ <<>> \in Seq(FirstArgs \cup LaterArgs) /\ 0 \in 0..MaxCalls
    BY CommandAssumption
  <2> QED BY <1>9, <2>1, <2>2 DEF CreateProcess
<1>10. ASSUME UNCHANGED commandVars PROVE CommandTypeOK'
  BY <1>10 DEF commandVars
<1> QED BY <1>3, <1>4, <1>5, <1>6, <1>7, <1>8, <1>9, <1>10 DEF CommandNext

\* A call that concerns no variable leaves them as they are.
LEMMA BuildingKept ==
  ASSUME Building, state = "building",
         UNCHANGED <<program, inherited, envs, env_clear, environment, wanted,
                     spelled>>
  PROVE  Building'
BY DEF Building, Spelt, StdEnvironment, RemovedInherited

\* What is in a longer list of names is in it still.
LEMMA SpeltMore ==
  ASSUME NEW e, NEW S, NEW T, S \subseteq T, Spelt(e, S)
  PROVE  Spelt(e, T)
BY DEF Spelt

\* One spelling among some names is one among fewer.
LEMMA OneForFewer ==
  ASSUME NEW S, NEW T, S \subseteq T, NEW n, OneFor(T, n)
  PROVE  OneFor(S, n)
BY DEF OneFor

\* env() does for the child what it does in std.
LEMMA EnvBuilds ==
  ASSUME CommandTypeOK, Building, NEW k \in Names, NEW v \in Values, Env(k, v)
  PROVE  Building'
<1>1. /\ state = "building" /\ state' = "building" /\ program' = program
      /\ environment' = environment
      /\ inherited' = inherited /\ env_clear' = env_clear
      /\ envs' = Append(envs, Pair(k, v)) /\ spelled' = spelled \cup {k}
      /\ wanted' = [n \in Names |-> IF SameName(k, n) THEN v ELSE wanted[n]]
  BY DEF Env, Call, Want
<1>2. /\ program \in Programs /\ environment = None
      /\ Spelt(inherited, spelled)
      /\ Spelt(envs, spelled)
      /\ \A n \in Names :
           OneFor(spelled, n) =>
             \/ StdEnvironment(env_clear, envs, n) = wanted[n]
             \/ RemovedInherited(n)
  BY <1>1 DEF Building
<1>3. /\ Pair(k, v) \in Variable /\ Pair(k, v).name = k
      /\ Pair(k, v).value = v /\ v # None /\ envs \in Seq(Variable)
  <2>1. Pair(k, v) \in Variable /\ envs \in Seq(Variable)
    BY GivenType DEF CommandTypeOK
  <2> QED BY <2>1, CommandAssumption DEF Pair, AnyValue
<1>4. Spelt(inherited', spelled') /\ Spelt(envs', spelled')
  <2>1. Spelt(inherited, spelled') /\ Spelt(envs, spelled')
    BY <1>1, <1>2, SpeltMore
  <2>2. \A i \in 1..Len(envs') : envs'[i].name \in spelled'
    <3>1. /\ Len(envs') = Len(envs) + 1 /\ Len(envs) \in Nat
          /\ envs'[Len(envs) + 1] = Pair(k, v)
          /\ \A i \in 1..Len(envs) : envs'[i] = envs[i]
      BY <1>1, <1>3
    <3>2. \A i \in 1..Len(envs) : envs[i].name \in spelled'
      BY <2>1 DEF Spelt
    <3>3. k \in spelled'
      BY <1>1
    <3> SUFFICES ASSUME NEW i \in 1..(Len(envs) + 1)
                 PROVE  envs'[i].name \in spelled'
      BY <3>1
    <3>4. i = Len(envs) + 1 \/ i \in 1..Len(envs)
      BY <3>1
    <3> QED BY <1>3, <3>1, <3>2, <3>3, <3>4
  <2> QED BY <1>1, <2>1, <2>2 DEF Spelt
<1>5. ASSUME NEW n \in Names, OneFor(spelled', n)
      PROVE  \/ StdEnvironment(env_clear, envs, n)' = wanted'[n]
             \/ RemovedInherited(n)'
  <2>1. Lookup(Reverse(envs'), n) =
          IF SameName(k, n) THEN v ELSE Lookup(Reverse(envs), n)
    BY <1>1, <1>3, LookupReverse
  <2>2. OneFor(spelled, n)
    BY <1>1, <1>5, OneForFewer
  <2>3. wanted'[n] = IF SameName(k, n) THEN v ELSE wanted[n]
    BY <1>1
  <2>4. CASE SameName(k, n)
    BY <1>3, <2>1, <2>3, <2>4 DEF StdEnvironment
  <2>5. CASE ~SameName(k, n)
    BY <1>1, <1>2, <2>1, <2>2, <2>3, <2>5
    DEF StdEnvironment, RemovedInherited
  <2> QED BY <2>4, <2>5
<1> QED BY <1>1, <1>2, <1>4, <1>5 DEF Building

\* env_remove() does so too, but for a variable that is inherited.
LEMMA EnvRemoveBuilds ==
  ASSUME CommandTypeOK, Building, NEW k \in Names, EnvRemove(k)
  PROVE  Building'
<1>1. /\ state = "building" /\ state' = "building" /\ program' = program
      /\ environment' = environment
      /\ inherited' = inherited /\ env_clear' = env_clear
      /\ envs' = Without(envs, k) /\ spelled' = spelled \cup {k}
      /\ wanted' = [n \in Names |-> IF SameName(k, n) THEN None ELSE wanted[n]]
  BY DEF EnvRemove, Call, Want
<1>2. /\ program \in Programs /\ environment = None
      /\ Spelt(inherited, spelled)
      /\ Spelt(envs, spelled)
      /\ \A n \in Names :
           OneFor(spelled, n) =>
             \/ StdEnvironment(env_clear, envs, n) = wanted[n]
             \/ RemovedInherited(n)
  BY <1>1 DEF Building
<1>3. envs \in Seq(Variable) /\ inherited \in Seq(Variable)
  BY GivenType DEF CommandTypeOK
<1>4. Spelt(inherited', spelled') /\ Spelt(envs', spelled')
  <2>1. Spelt(inherited, spelled') /\ Spelt(envs, spelled')
    BY <1>1, <1>2, SpeltMore
  <2>2. Spelt(Without(envs, k), spelled')
    BY <1>3, <2>1, WithoutSpelt
  <2> QED BY <1>1, <2>1, <2>2
<1>5. ASSUME NEW n \in Names, OneFor(spelled', n)
      PROVE  \/ StdEnvironment(env_clear, envs, n)' = wanted'[n]
             \/ RemovedInherited(n)'
  <2>1. Left(envs', envs, k, n)
    BY <1>1, <1>3, WithoutLeaves
  <2>2. OneFor(spelled, n)
    BY <1>1, <1>5, OneForFewer
  <2>3. wanted'[n] = IF SameName(k, n) THEN None ELSE wanted[n]
    BY <1>1
  <2>4. CASE SameName(k, n)
    <3>1. Only(envs, n, k)
      BY <1>1, <1>2, <1>5, <2>4 DEF Only, Spelt, OneFor
    <3>2. Lookup(Reverse(envs'), n) = None
      BY <2>1, <2>4, <3>1 DEF Left
    <3> QED BY <1>1, <2>3, <2>4, <3>2 DEF StdEnvironment, RemovedInherited
  <2>5. CASE ~SameName(k, n)
    <3>1. Lookup(Reverse(envs'), n) = Lookup(Reverse(envs), n)
      BY <2>1, <2>5 DEF Left
    <3> QED BY <1>1, <1>2, <2>2, <2>3, <2>5, <3>1
        DEF StdEnvironment, RemovedInherited
  <2> QED BY <2>4, <2>5
<1> QED BY <1>1, <1>2, <1>4, <1>5 DEF Building

\* env_clear() does so too.
LEMMA EnvClearBuilds ==
  ASSUME Building, EnvClear
  PROVE  Building'
<1>1. /\ state = "building" /\ state' = "building" /\ program' = program
      /\ environment' = environment
      /\ inherited' = inherited /\ env_clear' = TRUE /\ envs' = <<>>
      /\ spelled' = spelled /\ wanted' = [n \in Names |-> None]
  BY DEF EnvClear, Call
<1>2. /\ program \in Programs /\ environment = None
      /\ Spelt(inherited, spelled)
  BY <1>1 DEF Building
<1>3. Spelt(envs', spelled')
  BY <1>1 DEF Spelt
<1>4. ASSUME NEW n \in Names
      PROVE  StdEnvironment(env_clear, envs, n)' = wanted'[n]
  <2>1. Lookup(Reverse(<<>>), n) = None
    BY LookupNothing
  <2> QED BY <1>1, <2>1 DEF StdEnvironment
<1> QED BY <1>1, <1>2, <1>3, <1>4 DEF Building

\* To be the same name works both ways, and from one to the next.
LEMMA SameNameTurns ==
  ASSUME NEW m \in Names, NEW n \in Names
  PROVE  /\ SameName(m, n) <=> SameName(n, m)
         /\ \A p \in Names : SameName(m, n) /\ SameName(p, n) => SameName(m, p)
BY SameNameIs

\* The line that spawn() asks for is read as the arguments.
LEMMA SpawnedReadsBack ==
  ASSUME CommandTypeOK, Building, Spawn
  PROVE  ArgumentsReadBack'
<1> SUFFICES ASSUME monitors' # {}
             PROVE  ReadBack(line') = <<Lossy(program')>> \o
                      [i \in DOMAIN args' |-> Lossy(args'[i])]
  BY DEF ArgumentsReadBack
<1>1. /\ line' = BuildCommandLine(program, args)
      /\ program' = program /\ args' = args
  BY DEF Spawn
<1>2. program \in Programs /\ args \in Seq(FirstArgs \cup LaterArgs)
  BY DEF Building, CommandTypeOK, Spawn
<1> QED BY <1>1, <1>2, ReadBackIs

\* A sorted block is in the order of Windows.
LEMMA SortedBlock ==
  ASSUME NEW p \in Seq(Variable), NEW b, b = SortByName(p),
         NEW i \in DOMAIN b, NEW j \in DOMAIN b, i < j
  PROVE  ~Before([u \in DOMAIN b[j].name |-> WindowsUpper[b[j].name[u]]],
                 [u \in DOMAIN b[i].name |-> WindowsUpper[b[i].name[u]]])
<1>1. b \in Seq(Variable) /\ Len(b) = Len(p)
  BY SortedIs
<1>2. i \in 1..Len(p) /\ j \in 1..Len(p) /\ i \in 1..Len(b) /\ j \in 1..Len(b)
  BY <1>1
<1>3. ~Before(UpperWide(b[j].name), UpperWide(b[i].name))
  BY <1>2, SortedInOrder
<1>4. b[i].name \in Names /\ b[j].name \in Names
  BY <1>1, <1>2, VariableType
<1>5. /\ UpperWide(b[j].name) =
           [u \in DOMAIN b[j].name |-> WindowsUpper[b[j].name[u]]]
      /\ UpperWide(b[i].name) =
           [u \in DOMAIN b[i].name |-> WindowsUpper[b[i].name[u]]]
  BY <1>4, FoldedIs
<1> QED BY <1>3, <1>5

\* The block that spawn() asks for is sorted.
LEMMA SpawnedIsSorted ==
  ASSUME CommandTypeOK, environment = None, Spawn
  PROVE  BlockIsSorted'
<1>1. WithHandle \in Seq(Variable)
  BY WithHandleType, GivenType
<1>2. environment' = None
      \/ environment' = BuildEnvBlock(env_clear, WithHandle)
  BY DEF Spawn
<1>3. environment' # None =>
        \E p \in Seq(Variable) : environment' = SortByName(p)
  BY <1>1, <1>2, BlockInType
<1>4. ASSUME environment' # None,
             NEW i \in DOMAIN environment', NEW j \in DOMAIN environment',
             i < j
      PROVE  ~Before([u \in DOMAIN environment'[j].name |->
                        WindowsUpper[environment'[j].name[u]]],
                     [u \in DOMAIN environment'[i].name |->
                        WindowsUpper[environment'[i].name[u]]])
  <2>1. PICK p \in Seq(Variable) : environment' = SortByName(p)
    BY <1>3, <1>4
  <2> QED BY <1>4, <2>1, SortedBlock
<1> QED BY <1>4 DEF BlockIsSorted

\* The names of the child are those of the calls and of the sentinel.
LEMMA HandleSpelt ==
  ASSUME CommandTypeOK, Spelt(envs, spelled)
  PROVE  Spelt(WithHandle, Spellings)
<1> DEFINE h == Pair(ENV_VAR, Handle)
           y == Append(envs, h)
<1>1. Spelt(envs, Spellings)
  BY SpeltMore DEF Spellings
<1>2. CASE "Sentinel" \notin monitors
  BY <1>1, <1>2 DEF WithHandle
<1>3. CASE "Sentinel" \in monitors
  <2>1. h \in Given /\ envs \in Seq(Given) /\ h.name = ENV_VAR
    BY GivenType, CommandAssumption DEF CommandTypeOK, Pair
  <2>2. ENV_VAR \in Spellings
    BY <1>3 DEF Spellings
  <2> HIDE DEF h
  <2>3. /\ Len(y) = Len(envs) + 1 /\ Len(envs) \in Nat
        /\ y[Len(envs) + 1] = h /\ \A i \in 1..Len(envs) : y[i] = envs[i]
    BY <2>1
  <2>4. \A i \in 1..Len(envs) : envs[i].name \in Spellings
    BY <1>1 DEF Spelt
  <2>5. WithHandle = y
    BY <1>3 DEF WithHandle, h
  <2> HIDE DEF y
  <2>6. ASSUME NEW i \in 1..(Len(envs) + 1) PROVE y[i].name \in Spellings
    <3>1. i = Len(envs) + 1 \/ i \in 1..Len(envs)
      BY <2>3
    <3> QED BY <2>1, <2>2, <2>3, <2>4, <3>1
  <2> QED BY <2>3, <2>5, <2>6 DEF Spelt
<1> QED BY <1>2, <1>3

\* What the child of spawn() reads is what was wanted.
LEMMA SpawnedReads ==
  ASSUME CommandTypeOK, Building, environment = None, Spawn
  PROVE  EnvironmentAsWanted'
<1>1. /\ state = "building" /\ envs' = WithHandle
      /\ UNCHANGED <<program, args, env_clear, monitors, inherited, wanted,
                     spelled>>
      /\ monitors # {} => environment' = BuildEnvBlock(env_clear, WithHandle)
  BY DEF Spawn
<1>2. /\ Spelt(inherited, spelled) /\ Spelt(envs, spelled)
      /\ \A n \in Names :
           OneFor(spelled, n) =>
             \/ StdEnvironment(env_clear, envs, n) = wanted[n]
             \/ RemovedInherited(n)
  BY <1>1 DEF Building
<1>3. /\ envs \in Seq(Variable) /\ inherited \in Seq(Variable)
      /\ WithHandle \in Seq(Variable) /\ Spellings \subseteq Names
  BY GivenType, WithHandleType, CommandAssumption DEF CommandTypeOK, Spellings
<1> SUFFICES ASSUME NEW n \in Names, OneSpelling(n)'
             PROVE  IF "Sentinel" \in monitors /\ SameName(n, ENV_VAR)
                    THEN ChildReads(n)' = Handle
                    ELSE \/ ChildReads(n)' = wanted[n]
                         \/ RemovedInherited(n)'
  BY <1>1 DEF EnvironmentAsWanted
<1>4. OneFor(Spellings, n)
  <2>1. Spellings' = Spellings
    BY <1>1 DEF Spellings
  <2> QED BY <2>1 DEF OneSpelling, OneFor
<1>5. OneFor(spelled, n)
  BY <1>4, OneForFewer DEF Spellings
<1>6. ChildReads(n)' = StdEnvironment(env_clear, WithHandle, n)
  <2>1. CASE monitors = {}
    BY <1>1, <2>1 DEF ChildReads, StdEnvironment
  <2>2. CASE monitors # {}
    <3>1. PICK x : Only(inherited, n, x) /\ Only(WithHandle, n, x)
      <4>1. Spelt(inherited, Spellings) /\ Spelt(WithHandle, Spellings)
        BY <1>2, HandleSpelt, SpeltMore DEF Spellings
      <4> QED BY <1>4, <4>1, OneName
    <3> DEFINE b == BuildEnvBlock(env_clear, WithHandle)
    <3>2. Lookup(IF b = None THEN inherited ELSE b, n) =
            StdEnvironment(env_clear, WithHandle, n)
      BY <1>3, <3>1, BlockReads
    <3>3. environment' = b /\ monitors' # {} /\ inherited' = inherited
      BY <1>1, <2>2
    <3> HIDE DEF b
    <3>4. ChildReads(n)' = Lookup(IF b = None THEN inherited ELSE b, n)
      BY <3>3 DEF ChildReads
    <3> QED BY <3>2, <3>4
  <2> QED BY <2>1, <2>2
<1>7. \/ StdEnvironment(env_clear, envs, n) = wanted[n]
      \/ RemovedInherited(n)
  BY <1>2, <1>5
<1>8. RemovedInherited(n)' <=> RemovedInherited(n)
  BY <1>1 DEF RemovedInherited
<1>9. CASE "Sentinel" \notin monitors
  BY <1>6, <1>7, <1>8, <1>9 DEF WithHandle
<1>10. CASE "Sentinel" \in monitors
  <2> DEFINE h == Pair(ENV_VAR, Handle)
  <2>1. h \in Variable /\ h.name = ENV_VAR /\ h.value = Handle
        /\ Handle # None /\ ENV_VAR \in Names
    BY GivenType, CommandAssumption DEF Pair, AnyValue
  <2>2. WithHandle = Append(envs, h)
    BY <1>10 DEF WithHandle
  <2> HIDE DEF h
  <2>3. Lookup(Reverse(WithHandle), n) =
          IF SameName(ENV_VAR, n) THEN Handle ELSE Lookup(Reverse(envs), n)
    BY <1>3, <2>1, <2>2, LookupReverse
  <2>4. SameName(ENV_VAR, n) <=> SameName(n, ENV_VAR)
    BY <2>1, SameNameTurns
  <2>5. CASE SameName(n, ENV_VAR)
    BY <1>6, <1>10, <2>1, <2>3, <2>4, <2>5 DEF StdEnvironment
  <2>6. CASE ~SameName(n, ENV_VAR)
    <3>1. StdEnvironment(env_clear, WithHandle, n) =
            StdEnvironment(env_clear, envs, n)
      BY <2>3, <2>4, <2>6 DEF StdEnvironment
    <3> QED BY <1>6, <1>7, <1>8, <2>6, <3>1
  <2> QED BY <2>5, <2>6
<1> QED BY <1>9, <1>10

\* Every call and step of the builder keeps the invariant.
LEMMA CommandStep == CommandInv /\ [CommandNext]_commandVars => CommandInv'
<1> SUFFICES ASSUME CommandInv, [CommandNext]_commandVars
             PROVE  CommandInv'
  OBVIOUS
<1>1. CommandTypeOK'
  BY CommandTypeStep DEF CommandInv
<1>2. CommandTypeOK /\ Building
  BY DEF CommandInv
<1>3. ASSUME state' # "asked"
      PROVE  ArgumentsReadBack' /\ EnvironmentAsWanted' /\ BlockIsSorted'
  BY <1>3 DEF ArgumentsReadBack, EnvironmentAsWanted, BlockIsSorted
<1>4. ASSUME NEW a \in FirstArgs \cup LaterArgs, Arg(a) PROVE CommandInv'
  <2>1. state = "building" /\ state' = "building"
        /\ UNCHANGED <<program, inherited, envs, env_clear, environment, wanted,
                     spelled>>
    BY <1>4 DEF Arg, Call
  <2>2. Building'
    BY <1>2, <2>1, BuildingKept
  <2> QED BY <1>1, <1>3, <2>1, <2>2 DEF CommandInv
<1>5. ASSUME NEW m \in Monitor, AddMonitor(m) PROVE CommandInv'
  <2>1. state = "building" /\ state' = "building"
        /\ UNCHANGED <<program, inherited, envs, env_clear, environment, wanted,
                     spelled>>
    BY <1>5 DEF AddMonitor, Call
  <2>2. Building'
    BY <1>2, <2>1, BuildingKept
  <2> QED BY <1>1, <1>3, <2>1, <2>2 DEF CommandInv
<1>6. ASSUME NEW k \in Names, NEW v \in Values, Env(k, v) PROVE CommandInv'
  <2>1. state' = "building"
    BY <1>6 DEF Env, Call
  <2> QED BY <1>1, <1>2, <1>3, <1>6, <2>1, EnvBuilds DEF CommandInv
<1>7. ASSUME NEW k \in Names, EnvRemove(k) PROVE CommandInv'
  <2>1. state' = "building"
    BY <1>7 DEF EnvRemove, Call
  <2> QED BY <1>1, <1>2, <1>3, <1>7, <2>1, EnvRemoveBuilds DEF CommandInv
<1>8. ASSUME EnvClear PROVE CommandInv'
  <2>1. state' = "building"
    BY <1>8 DEF EnvClear, Call
  <2> QED BY <1>1, <1>2, <1>3, <1>8, <2>1, EnvClearBuilds DEF CommandInv
<1>9. ASSUME Spawn PROVE CommandInv'
  <2>1. environment = None
    BY <1>2, <1>9 DEF Building, Spawn
  <2>2. Building'
    BY <1>9 DEF Building, Spawn
  <2> QED BY <1>1, <1>2, <1>9, <2>1, <2>2, SpawnedReadsBack, SpawnedIsSorted,
             SpawnedReads
      DEF CommandInv
<1>10. ASSUME CreateProcess PROVE CommandInv'
  <2>1. state' = "created" /\ Building'
    BY <1>10 DEF CreateProcess, Building
  <2> QED BY <1>1, <1>3, <2>1 DEF CommandInv
<1>11. ASSUME UNCHANGED commandVars PROVE CommandInv'
  <2>1. UNCHANGED <<state, program, args, envs, env_clear, monitors, inherited,
                    line, environment, wanted, spelled>>
    BY <1>11 DEF commandVars
  <2>2. Building'
    BY <1>2, <2>1
    DEF Building, Spelt, StdEnvironment, RemovedInherited
  <2>3. ArgumentsReadBack'
    BY <2>1 DEF CommandInv, ArgumentsReadBack
  <2>4. BlockIsSorted'
    BY <2>1 DEF CommandInv, BlockIsSorted
  <2>5. EnvironmentAsWanted'
    <3>1. \A n : /\ ChildReads(n)' = ChildReads(n)
                 /\ RemovedInherited(n)' <=> RemovedInherited(n)
                 /\ OneSpelling(n)' <=> OneSpelling(n)
      BY <2>1 DEF ChildReads, StdEnvironment, RemovedInherited, OneSpelling,
                  Spellings
    <3>2. EnvironmentAsWanted
      BY DEF CommandInv
    <3> QED BY <2>1, <3>1, <3>2 DEF EnvironmentAsWanted
  <2> QED BY <1>1, <2>2, <2>3, <2>4, <2>5 DEF CommandInv
<1> QED BY <1>4, <1>5, <1>6, <1>7, <1>8, <1>9, <1>10, <1>11 DEF CommandNext

\* The invariant of the builder.
LEMMA CommandInvHolds == CommandSpec => []CommandInv
BY CommandInitInv, CommandStep, PTL DEF CommandSpec

\* The fields of the builder, and what it gives to CreateProcessW, have
\* values of their types, after any number of calls.
THEOREM CommandTypeCorrect == CommandSpec => []CommandTypeOK
BY CommandInvHolds, PTL DEF CommandInv

\* build_command_line(): whatever characters the program and the arguments
\* have, and however many there are, the runtime of the child reads back
\* exactly these, up to lone surrogates.
THEOREM ReadsBackArguments == CommandSpec => []ArgumentsReadBack
BY CommandInvHolds, PTL DEF CommandInv

\* build_env_block() and the calls of the builder: the child of every path
\* sees what std::process would give it after the same calls, and a sentinel
\* child its handle.
THEOREM ReadsWantedEnvironment == CommandSpec => []EnvironmentAsWanted
BY CommandInvHolds, PTL DEF CommandInv

\* build_env_block(): the block is in the order of CreateProcessW.
THEOREM SortsBlock == CommandSpec => []BlockIsSorted
BY CommandInvHolds, PTL DEF CommandInv
=============================================================================
