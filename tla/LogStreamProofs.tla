-------------------------- MODULE LogStreamProofs --------------------------
(***************************************************************************)
(* What is written to the text log is read back, for any texts publishers  *)
(* choose, of any length, and any number of records.  A reading of a text  *)
(* is a function from its prefixes to states of the reader: readings of    *)
(* two texts that meet join to one of the whole, so the argument follows   *)
(* the rendering, from the escaped character to the field, the line and    *)
(* the stream.  Loops (over characters and fields) are inductions on the   *)
(* natural numbers, in the form of a set that is closed under successor.   *)
(***************************************************************************)
EXTENDS LogStream, SequenceTheorems, FiniteSetTheorems, WellFoundedInduction, TLAPS

(* Induction on the natural numbers: a set with zero and every successor has them all. *)
LEMMA Induction == ASSUME NEW S, 0 \in S, \A n \in Nat : n \in S => n + 1 \in S
                   PROVE  Nat \subseteq S
<1> DEFINE T == Nat \ S
<1> SUFFICES ASSUME T # {} PROVE FALSE
  OBVIOUS
<1>1. PICK x \in T : \A y \in T : ~ (<<y, x>> \in OpToRel(<, Nat))
  <2>1. T \subseteq Nat
    OBVIOUS
  <2> HIDE DEF T
  <2>2. IsWellFoundedOn(OpToRel(<, Nat), Nat)
    BY NatLessThanWellFounded
  <2>3. \A R, N, U : IsWellFoundedOn(R, N) /\ U \subseteq N /\ U # {}
                       => \E x \in U : \A y \in U : ~ (<<y, x>> \in R)
    BY WFMin
  <2> QED BY <2>1, <2>2, <2>3
<1>2. x - 1 \in Nat
  OBVIOUS
<1>3. <<x - 1, x>> \in OpToRel(<, Nat)
  BY <1>2 DEF OpToRel
<1>4. x - 1 \notin T
  BY <1>1, <1>3
<1> QED BY <1>2, <1>4

(* f holds the partial results of a loop of n rounds that starts with v. *)
Iterates(f, V, v, n, F) == /\ f \in [0..n -> V] /\ f[0] = v
                           /\ \A i \in 1..n : f[i] = F[<<f[i - 1], i>>]

(* Every loop has its partial results. *)
LEMMA Iteration ==
  ASSUME NEW V, NEW v \in V, NEW n \in Nat, NEW F \in [V \X (1..n) -> V]
  PROVE  \E f : Iterates(f, V, v, n, F)
<1> DEFINE P(k) == \E f \in [0..k -> V] : /\ f[0] = v
                                          /\ \A i \in 1..k : f[i] = F[<<f[i - 1], i>>]
           E == {k \in Nat : k <= n => P(k)}
<1>1. P(0)
  <2> DEFINE f == [i \in 0..0 |-> v]
  <2>1. f \in [0..0 -> V] /\ f[0] = v /\ 1..0 = {}
    OBVIOUS
  <2> HIDE DEF f
  <2> QED BY <2>1
<1>2. ASSUME NEW k \in Nat, k + 1 <= n, P(k) PROVE P(k + 1)
  <2>1. PICK f \in [0..k -> V] : f[0] = v /\ \A i \in 1..k : f[i] = F[<<f[i - 1], i>>]
    BY <1>2
  <2> DEFINE g == [i \in 0..(k + 1) |-> IF i = k + 1 THEN F[<<f[k], k + 1>>] ELSE f[i]]
  <2>2. F[<<f[k], k + 1>>] \in V
    BY <1>2
  <2>3. g \in [0..(k + 1) -> V] /\ g[0] = v
    BY <2>1, <2>2
  <2>4. ASSUME NEW i \in 1..(k + 1) PROVE g[i] = F[<<g[i - 1], i>>]
    <3>1. CASE i = k + 1
      <4>1. g[k + 1] = F[<<f[k], k + 1>>] /\ g[k] = f[k] /\ (k + 1) - 1 = k
        OBVIOUS
      <4> HIDE DEF g
      <4> QED BY <3>1, <4>1
    <3>2. CASE i # k + 1
      <4>1. i \in 1..k /\ i - 1 \in 0..k /\ i \in 0..(k + 1) /\ i - 1 \in 0..(k + 1)
        BY <3>2
      <4>2. g[i] = f[i] /\ g[i - 1] = f[i - 1]
        BY <3>2, <4>1
      <4> HIDE DEF g
      <4> QED BY <2>1, <4>1, <4>2
    <3> QED BY <3>1, <3>2
  <2> HIDE DEF g
  <2> QED BY <2>3, <2>4
<1> HIDE DEF P
<1>3. 0 \in E
  BY <1>1
<1>4. \A k \in Nat : k \in E => k + 1 \in E
  BY <1>2
<1>5. Nat \subseteq E
  <2> HIDE DEF E
  <2> QED BY <1>3, <1>4, Induction
<1>6. P(n)
  BY <1>5
<1> QED BY <1>6 DEF P, Iterates

-----------------------------------------------------------------------------
(* The partial results of FlattenSeq. *)
Flattens(seqs, f) == /\ f[0] = <<>>
                     /\ \A i \in 1..Len(seqs) : f[i] = f[i - 1] \o seqs[i]
                     /\ FlattenSeq(seqs) = f[Len(seqs)]

(* FlattenSeq joins its sequences one by one, from the first. *)
LEMMA FlattenSteps ==
  ASSUME NEW S, NEW seqs \in Seq(Seq(S))
  PROVE  \E f \in [0..Len(seqs) -> Seq(S)] : Flattens(seqs, f)
<1> DEFINE n == Len(seqs)
           F == [p \in Seq(S) \X (1..n) |-> p[1] \o seqs[p[2]]]
<1>1. n \in Nat /\ \A i \in 1..n : seqs[i] \in Seq(S)
  OBVIOUS
<1>2. <<>> \in Seq(S) /\ \A s \in Seq(S) : <<>> \o s = s
  BY ConcatEmptySeq
<1>3. PICK f \in [0..n -> Seq(S)] : f[0] = <<>> /\ \A i \in 1..n : f[i] = F[<<f[i - 1], i>>]
  <2>1. \A p \in Seq(S) \X (1..n) : p[1] \o seqs[p[2]] \in Seq(S)
    BY <1>1
  <2>2. F \in [Seq(S) \X (1..n) -> Seq(S)]
    BY <2>1
  <2>3. n \in Nat /\ <<>> \in Seq(S)
    BY <1>1, <1>2
  <2> HIDE DEF F, n
  <2>4. \E f : Iterates(f, Seq(S), <<>>, n, F)
    BY <2>2, <2>3, Iteration
  <2> QED BY <2>4 DEF Iterates
<1>4. \A i \in 0..n : f[i] \in Seq(S)
  <2> HIDE DEF n, F
  <2> QED OBVIOUS
<1>5. f[0] = <<>>
  BY <1>3
<1>6. ASSUME NEW i \in 1..n PROVE f[i] = f[i - 1] \o seqs[i]
  <2>1. f[i - 1] \in Seq(S)
    <3> HIDE DEF n, F
    <3>1. i - 1 \in 0..n
      BY <1>1
    <3> QED BY <3>1, <1>4
  <2>2. <<f[i - 1], i>> \in Seq(S) \X (1..n)
    <3> HIDE DEF n, F
    <3> QED BY <2>1
  <2>3. F[<<f[i - 1], i>>] = f[i - 1] \o seqs[i]
    BY <2>2
  <2> QED BY <1>3, <2>3
<1> HIDE DEF F
<1>7. 1 \in 1..n => f[1] = seqs[1]
  <2> HIDE DEF n
  <2>1. 1 \in 1..n => f[1] = f[0] \o seqs[1] /\ seqs[1] \in Seq(S)
    <3>1. 1 \in 1..n => f[1] = f[1 - 1] \o seqs[1]
      BY <1>6
    <3> QED BY <3>1, <1>1
  <2> QED BY <2>1, <1>2, <1>5
<1>8. CASE n = 0
  <2>1. FlattenSeq(seqs) = <<>>
    BY <1>8 DEF FlattenSeq
  <2> QED BY <1>3, <1>6, <1>8, <2>1 DEF Flattens
<1>9. CASE n # 0
  <2> DEFINE Step(g, i) == IF i = 1 THEN seqs[i] ELSE g[i - 1] \o seqs[i]
             G == CHOOSE g : g = [i \in 1..n |-> Step(g, i)]
             h == [i \in 1..n |-> f[i]]
  <2>1. FlattenSeq(seqs) = G[n]
    BY <1>9 DEF FlattenSeq
  <2>2. h = [i \in 1..n |-> Step(h, i)]
    <3>1. ASSUME NEW i \in 1..n PROVE f[i] = IF i = 1 THEN seqs[i] ELSE f[i - 1] \o seqs[i]
      BY <1>1, <1>6, <1>7
    <3>2. ASSUME NEW i \in 1..n PROVE h[i] = Step(h, i)
      <4>1. i # 1 => i - 1 \in 1..n
        BY <1>1
      <4> QED BY <3>1, <4>1
    <3> HIDE DEF Step
    <3> QED BY <3>2
  <2>3. G = [i \in 1..n |-> Step(G, i)]
    <3> HIDE DEF h, Step
    <3> QED BY <2>2
  <2>4. ASSUME NEW i \in 1..n PROVE G[i] = IF i = 1 THEN seqs[i] ELSE G[i - 1] \o seqs[i]
    <3> HIDE DEF G
    <3> QED BY <2>3
  <2> HIDE DEF G, h, n
  <2> DEFINE U == {k \in Nat : k + 1 \in 1..n => G[k + 1] = f[k + 1]}
  <2>5. 0 \in U
    <3>1. 1 \in 1..n => G[1] = seqs[1]
      BY <2>4
    <3>2. 1 \in 1..n => f[1] = seqs[1]
      BY <1>7
    <3> QED BY <3>1, <3>2
  <2>6. ASSUME NEW k \in Nat, k \in U PROVE k + 1 \in U
    <3>1. ASSUME (k + 1) + 1 \in 1..n PROVE G[(k + 1) + 1] = f[(k + 1) + 1]
      <4>1. k + 1 \in 1..n /\ ((k + 1) + 1) - 1 = k + 1 /\ (k + 1) + 1 # 1
        BY <1>1, <3>1
      <4>2. G[k + 1] = f[k + 1]
        BY <2>6, <4>1
      <4> HIDE DEF U
      <4>3. G[(k + 1) + 1] = G[k + 1] \o seqs[(k + 1) + 1]
        BY <2>4, <3>1, <4>1
      <4>4. f[(k + 1) + 1] = f[k + 1] \o seqs[(k + 1) + 1]
        BY <1>6, <3>1, <4>1
      <4> QED BY <4>2, <4>3, <4>4
    <3> QED BY <3>1
  <2>7. G[n] = f[n]
    <3>1. Nat \subseteq U
      <4> HIDE DEF U
      <4> QED BY <2>5, <2>6, Induction
    <3>2. n - 1 \in Nat /\ (n - 1) + 1 = n /\ n \in 1..n
      BY <1>1, <1>9
    <3> QED BY <3>1, <3>2
  <2> QED BY <1>3, <1>6, <2>1, <2>7 DEF Flattens, n
<1> QED BY <1>8, <1>9

-----------------------------------------------------------------------------
(* The tokens of a log: the provers do not know a literal for a member of STRING. *)
Tokens == STRING \cup {" ", "\"", "\\", "=", "\n", "[STATS]", "json"}
            \cup {MESSAGE_FIELDS[i] : i \in DOMAIN MESSAGE_FIELDS}
            \cup {STATS_FIELDS[i] : i \in DOMAIN STATS_FIELDS}
            \cup {OUTCOME_TAGS[o] : o \in DOMAIN OUTCOME_TAGS}

(* What publishers choose is text of the log. *)
LEMMA TextsAreTokens == Seq(STRING) \subseteq Seq(Tokens)
<1>1. STRING \subseteq Tokens
  BY DEF Tokens
<1> HIDE DEF Tokens
<1> QED BY <1>1, SeqMonotonic

(* Joined texts are texts. *)
LEMMA Joined == \A s, t \in Seq(Tokens) : s \o t \in Seq(Tokens)
<1> HIDE DEF Tokens
<1> QED BY ConcatProperties

(* Two tokens, joined. *)
LEMMA Pair ==
  ASSUME NEW c \in Tokens, NEW d \in Tokens
  PROVE  <<c>> \in Seq(Tokens) /\ <<c, d>> \in Seq(Tokens) /\ <<c>> \o <<d>> = <<c, d>>
<1>1. <<c>> \in Seq(Tokens) /\ <<d>> \in Seq(Tokens) /\ <<c, d>> \in Seq(Tokens)
  OBVIOUS
<1>2. /\ Len(<<c>>) = 1 /\ Len(<<d>>) = 1 /\ Len(<<c, d>>) = 2
      /\ <<c>>[1] = c /\ <<d>>[1] = d /\ <<c, d>>[1] = c /\ <<c, d>>[2] = d
  OBVIOUS
<1>3. <<c>> \o <<d>> \in Seq(Tokens) /\ Len(<<c>> \o <<d>>) = 2
  BY <1>1, <1>2
<1>4. (<<c>> \o <<d>>)[1] = c /\ (<<c>> \o <<d>>)[2] = d
  BY <1>1, <1>2, ConcatProperties
<1>5. ASSUME NEW s \in Seq(Tokens), NEW t \in Seq(Tokens),
             Len(s) = 2, Len(t) = 2, s[1] = t[1], s[2] = t[2]
      PROVE  s = t
  <2>1. \A i \in 1..Len(s) : s[i] = t[i]
    BY <1>5
  <2> QED BY <1>5, <2>1, SeqEqual
<1> HIDE DEF Tokens
<1> QED BY <1>1, <1>2, <1>3, <1>4, <1>5

(* Three tokens, joined. *)
LEMMA Triple ==
  ASSUME NEW c \in Tokens, NEW d \in Tokens, NEW e \in Tokens
  PROVE  <<c, d, e>> \in Seq(Tokens) /\ <<c, d>> \o <<e>> = <<c, d, e>>
<1>1. <<c, d>> \in Seq(Tokens) /\ <<e>> \in Seq(Tokens) /\ <<c, d, e>> \in Seq(Tokens)
  OBVIOUS
<1>2. /\ Len(<<c, d>>) = 2 /\ Len(<<e>>) = 1 /\ Len(<<c, d, e>>) = 3
      /\ <<c, d>>[1] = c /\ <<c, d>>[2] = d /\ <<e>>[1] = e
      /\ <<c, d, e>>[1] = c /\ <<c, d, e>>[2] = d /\ <<c, d, e>>[3] = e
  OBVIOUS
<1>3. <<c, d>> \o <<e>> \in Seq(Tokens) /\ Len(<<c, d>> \o <<e>>) = 3
  BY <1>1, <1>2
<1>4. /\ (<<c, d>> \o <<e>>)[1] = c /\ (<<c, d>> \o <<e>>)[2] = d
      /\ (<<c, d>> \o <<e>>)[3] = e
  BY <1>1, <1>2, ConcatProperties
<1>5. ASSUME NEW s \in Seq(Tokens), NEW t \in Seq(Tokens),
             Len(s) = 3, Len(t) = 3, s[1] = t[1], s[2] = t[2], s[3] = t[3]
      PROVE  s = t
  <2>1. \A i \in 1..Len(s) : s[i] = t[i]
    BY <1>5
  <2> QED BY <1>5, <2>1, SeqEqual
<1> HIDE DEF Tokens
<1> QED BY <1>1, <1>2, <1>3, <1>4, <1>5

(* Reading t takes the reader from r to q. *)
Reads(r, t, q) == \E g : /\ g[0] = r /\ g[Len(t)] = q
                         /\ \A i \in 1..Len(t) : g[i] = ReadChar(g[i - 1], t[i])

(* An empty text leaves the reader where it is. *)
LEMMA ReadsNothing == \A r : Reads(r, <<>>, r)
<1> TAKE r
<1> DEFINE g == [i \in {0} |-> r]
<1>1. g[0] = r /\ g[Len(<<>>)] = r /\ \A i \in 1..Len(<<>>) : FALSE
  OBVIOUS
<1> HIDE DEF g
<1> QED BY <1>1 DEF Reads

(* One character is one step of the reader. *)
LEMMA ReadsOne == \A r, c : Reads(r, <<c>>, ReadChar(r, c))
<1> TAKE r, c
<1> DEFINE g == [i \in 0..1 |-> IF i = 0 THEN r ELSE ReadChar(r, c)]
<1>1. g[0] = r /\ g[1] = ReadChar(r, c)
  OBVIOUS
<1>2. Len(<<c>>) = 1 /\ <<c>>[1] = c
  OBVIOUS
<1> HIDE DEF g
<1>3. ASSUME NEW i \in 1..Len(<<c>>) PROVE g[i] = ReadChar(g[i - 1], <<c>>[i])
  <2>1. i = 1 /\ i - 1 = 0
    BY <1>2
  <2> QED BY <1>1, <1>2, <2>1
<1> QED BY <1>1, <1>2, <1>3 DEF Reads

(* Two readings that meet are one. *)
LEMMA ReadsJoin ==
  ASSUME NEW T, NEW t \in Seq(T), NEW u \in Seq(T), NEW r, NEW q, NEW p,
         Reads(r, t, q), Reads(q, u, p)
  PROVE  Reads(r, t \o u, p)
<1> DEFINE m == Len(t)
           n == Len(u)
<1>1. m \in Nat /\ n \in Nat /\ Len(t \o u) = m + n
  OBVIOUS
<1>2. /\ \A i \in 1..m : (t \o u)[i] = t[i]
      /\ \A i \in 1..n : (t \o u)[m + i] = u[i]
  OBVIOUS
<1> HIDE DEF m, n
<1>3. PICK g : /\ g[0] = r /\ g[m] = q
               /\ \A i \in 1..m : g[i] = ReadChar(g[i - 1], t[i])
  BY DEF Reads, m
<1>4. PICK h : /\ h[0] = q /\ h[n] = p
               /\ \A i \in 1..n : h[i] = ReadChar(h[i - 1], u[i])
  BY DEF Reads, n
<1> DEFINE f == [i \in 0..(m + n) |-> IF i <= m THEN g[i] ELSE h[i - m]]
<1>5. \A i \in 0..m : f[i] = g[i]
  BY <1>1
<1>6. \A i \in 0..n : f[m + i] = h[i]
  <2> TAKE i \in 0..n
  <2>1. CASE i = 0
    BY <1>1, <1>3, <1>4, <2>1
  <2>2. CASE i # 0
    <3>1. m + i \in 0..(m + n) /\ ~(m + i <= m) /\ (m + i) - m = i
      BY <1>1, <2>2
    <3> QED BY <3>1
  <2> QED BY <2>1, <2>2
<1>7. f[0] = r /\ f[m + n] = p
  <2> HIDE DEF f
  <2>1. 0 \in 0..m /\ n \in 0..n
    BY <1>1
  <2> QED BY <1>3, <1>4, <1>5, <1>6, <2>1
<1> HIDE DEF f
<1>8. ASSUME NEW i \in 1..(m + n) PROVE f[i] = ReadChar(f[i - 1], (t \o u)[i])
  <2>1. CASE i <= m
    <3>1. i \in 1..m /\ i \in 0..m /\ i - 1 \in 0..m
      BY <1>1, <2>1
    <3> QED BY <1>2, <1>3, <1>5, <3>1
  <2>2. CASE ~(i <= m)
    <3>1. PICK j \in 1..n : i = m + j
      <4>1. i - m \in 1..n /\ i = m + (i - m)
        BY <1>1, <2>2
      <4> QED BY <4>1
    <3>2. i - 1 = m + (j - 1) /\ j \in 0..n /\ j - 1 \in 0..n
      BY <1>1, <3>1
    <3>3. f[m + j] = h[j] /\ f[m + (j - 1)] = h[j - 1]
      BY <1>6, <3>2
    <3>4. (t \o u)[m + j] = u[j]
      BY <1>2
    <3> QED BY <1>4, <3>1, <3>2, <3>3, <3>4
  <2> QED BY <2>1, <2>2
<1> QED BY <1>1, <1>7, <1>8 DEF Reads

(* What Read computes is the end of the one reading from the start. *)
LEMMA ReadIs ==
  ASSUME NEW T, NEW s \in Seq(T), NEW q, Reads(Start, s, q)
  PROVE  Read(s) = q
<1> DEFINE n == Len(s)
           Step(g, i) == IF i = 0 THEN Start ELSE ReadChar(g[i - 1], s[i])
           G == CHOOSE g : g = [i \in 0..n |-> Step(g, i)]
<1>1. n \in Nat
  OBVIOUS
<1>2. Read(s) = G[n]
  BY DEF Read
<1> HIDE DEF n
<1>3. PICK f : /\ f[0] = Start /\ f[n] = q
               /\ \A i \in 1..n : f[i] = ReadChar(f[i - 1], s[i])
  BY DEF Reads, n
<1> DEFINE h == [i \in 0..n |-> f[i]]
<1>4. h = [i \in 0..n |-> Step(h, i)]
  <2>1. ASSUME NEW i \in 0..n PROVE h[i] = Step(h, i)
    <3>1. CASE i = 0
      BY <1>3, <3>1
    <3>2. CASE i # 0
      <4>1. i \in 1..n /\ i - 1 \in 0..n
        BY <1>1, <3>2
      <4>2. h[i] = f[i] /\ h[i - 1] = f[i - 1]
        BY <4>1
      <4> HIDE DEF h
      <4> QED BY <1>3, <3>2, <4>1, <4>2
    <3> QED BY <3>1, <3>2
  <2> HIDE DEF Step
  <2> QED BY <2>1
<1>5. G = [i \in 0..n |-> Step(G, i)]
  <2> HIDE DEF h, Step
  <2> QED BY <1>4
<1>6. ASSUME NEW i \in 0..n PROVE G[i] = IF i = 0 THEN Start ELSE ReadChar(G[i - 1], s[i])
  <2> HIDE DEF G
  <2> QED BY <1>5
<1> HIDE DEF G, h
<1> DEFINE U == {k \in Nat : k \in 0..n => G[k] = f[k]}
<1>7. 0 \in U
  BY <1>3, <1>6
<1>8. ASSUME NEW k \in Nat, k \in U PROVE k + 1 \in U
  <2>1. ASSUME k + 1 \in 0..n PROVE G[k + 1] = f[k + 1]
    <3>1. k \in 0..n /\ k + 1 \in 1..n /\ (k + 1) - 1 = k /\ k + 1 # 0
      BY <1>1, <2>1
    <3>2. G[k] = f[k]
      BY <1>8, <3>1
    <3> HIDE DEF U
    <3>3. G[k + 1] = ReadChar(G[k], s[k + 1])
      BY <1>6, <2>1, <3>1
    <3>4. f[k + 1] = ReadChar(f[k], s[k + 1])
      BY <1>3, <3>1
    <3> QED BY <3>2, <3>3, <3>4
  <2> QED BY <2>1
<1>9. Nat \subseteq U
  <2> HIDE DEF U
  <2> QED BY <1>7, <1>8, Induction
<1>10. n \in 0..n
  BY <1>1
<1> QED BY <1>1, <1>2, <1>3, <1>9, <1>10

-----------------------------------------------------------------------------
(* The reader inside a line: the lines before it, its tag and the fields that are
   complete, and the key and value at hand. *)
In(lines, tag, fields, key, value, mode) ==
  [lines |-> lines, tag |-> tag, fields |-> fields, key |-> key, value |-> value, mode |-> mode]
AtLine(lines) == In(lines, "", <<>>, "", <<>>, "tag")

(* Between two fields of a line, fs being those it has shown. *)
Sees(r, lines, tag, fs) ==
  \E fields, key, value, mode :
    /\ r = In(lines, tag, fields, key, value, mode)
    /\ \/ mode = "space" /\ value = <<>> /\ fs = fields
       \/ mode \in {"value", "bare", "closed"} /\ fs = Append(fields, <<key, value>>)

(* A line begins with its tag. *)
LEMMA ReadTag ==
  \A ls : \A c : c # "\n" => Sees(ReadChar(AtLine(ls), c), ls, c, <<>>)
<1> TAKE ls
<1> TAKE c
<1> HAVE c # "\n"
<1>1. ReadChar(AtLine(ls), c) = In(ls, c, <<>>, "", <<>>, "space")
  BY DEF ReadChar, AtLine, In
<1> QED BY <1>1 DEF Sees

(* The terminator completes the field at hand and the line. *)
LEMMA ReadEnd ==
  ASSUME NEW r, NEW ls, NEW tag, NEW fs, Sees(r, ls, tag, fs)
  PROVE  ReadChar(r, "\n") = AtLine(Append(ls, <<tag, fs>>))
<1>1. Close(r).fields = fs /\ r.lines = ls /\ r.tag = tag
  BY DEF Sees, In, Close
<1>2. ReadChar(r, "\n") = [Start EXCEPT !.lines = Append(r.lines, <<r.tag, Close(r).fields>>)]
  BY DEF ReadChar
<1> QED BY <1>1, <1>2 DEF Start, AtLine, In

(* A space between fields completes the field at hand. *)
LEMMA ReadSpace ==
  ASSUME NEW r, NEW ls, NEW tag, NEW fs, Sees(r, ls, tag, fs)
  PROVE  \E key : ReadChar(r, " ") = In(ls, tag, fs, key, <<>>, "key")
<1>1. PICK fields, key, value, mode :
        /\ r = In(ls, tag, fields, key, value, mode)
        /\ \/ mode = "space" /\ value = <<>> /\ fs = fields
           \/ mode \in {"value", "bare", "closed"} /\ fs = Append(fields, <<key, value>>)
  BY DEF Sees
<1>2. ReadChar(r, " ") = [Close(r) EXCEPT !.mode = "key"]
  BY <1>1 DEF ReadChar, In
<1>3. Close(r) = In(ls, tag, fs, key, <<>>, mode)
  BY <1>1 DEF Close, In
<1>4. [In(ls, tag, fs, key, <<>>, mode) EXCEPT !.mode = "key"] = In(ls, tag, fs, key, <<>>, "key")
  BY DEF In
<1> QED BY <1>2, <1>3, <1>4

(* A key, and the sign after it. *)
LEMMA ReadKey ==
  \A ls, tag, fs, k, key : key # "\n" /\ key # "=" =>
    /\ ReadChar(In(ls, tag, fs, k, <<>>, "key"), key) = In(ls, tag, fs, key, <<>>, "key")
    /\ ReadChar(In(ls, tag, fs, key, <<>>, "key"), "=") = In(ls, tag, fs, key, <<>>, "value")
BY DEF ReadChar, In

(* A character that needs no quotes, in a value without them. *)
LEMMA ReadBare ==
  ASSUME NEW ls, NEW tag, NEW fs, NEW key, NEW value, NEW mode \in {"value", "bare"},
         NEW c, c \notin NEEDS_QUOTING \cup DOMAIN Repr
  PROVE  ReadChar(In(ls, tag, fs, key, value, mode), c)
           = In(ls, tag, fs, key, Append(value, c), "bare")
<1> DEFINE r == In(ls, tag, fs, key, value, mode)
<1>1. c # "\n" /\ c # " " /\ c # "\""
  BY LogAssumption DEF NEEDS_QUOTING
<1>2. r.mode = mode /\ r.value = value
  BY DEF In
<1>3. ReadChar(r, c) = [r EXCEPT !.value = Append(value, c), !.mode = "bare"]
  <2> HIDE DEF r
  <2> QED BY <1>1, <1>2 DEF ReadChar
<1> QED BY <1>3 DEF In

(* The quotes around a value. *)
LEMMA ReadQuotes ==
  \A ls, tag, fs, key, value :
    /\ ReadChar(In(ls, tag, fs, key, <<>>, "value"), "\"")
         = In(ls, tag, fs, key, <<>>, "quoted")
    /\ ReadChar(In(ls, tag, fs, key, value, "quoted"), "\"")
         = In(ls, tag, fs, key, value, "closed")
BY DEF ReadChar, In

(* A character that was escaped, if need be, between quotes. *)
LEMMA ReadEscaped ==
  ASSUME NEW ls, NEW tag, NEW fs, NEW key, NEW value, NEW c \in Tokens
  PROVE  Reads(In(ls, tag, fs, key, value, "quoted"), escape_char(c),
               In(ls, tag, fs, key, Append(value, c), "quoted"))
<1> DEFINE r == In(ls, tag, fs, key, value, "quoted")
           e == In(ls, tag, fs, key, value, "escape")
           q == In(ls, tag, fs, key, Append(value, c), "quoted")
<1>1. ReadChar(r, "\\") = e
  BY DEF ReadChar, In
<1>2. ASSUME NEW d \in Tokens, d # "\n", Unescaped(d) = c PROVE Reads(r, <<"\\", d>>, q)
  <2>1. ReadChar(e, d) = q
    BY <1>2 DEF ReadChar, In
  <2>2. Reads(r, <<"\\">>, e) /\ Reads(e, <<d>>, q)
    BY <1>1, <2>1, ReadsOne
  <2>3. "\\" \in Tokens
    BY DEF Tokens
  <2>4. /\ <<"\\">> \in Seq(Tokens) /\ <<d>> \in Seq(Tokens)
        /\ <<"\\">> \o <<d>> = <<"\\", d>>
    BY <2>3, Pair
  <2>5. Reads(r, <<"\\">> \o <<d>>, q)
    <3> HIDE DEF r, e, q
    <3> QED BY <2>2, <2>4, ReadsJoin
  <2> QED BY <2>4, <2>5
<1>3. CASE c \in {"\"", "\\"}
  <2>1. c # "\n" /\ Unescaped(c) = c
    BY <1>3, LogAssumption DEF Unescaped
  <2> QED BY <1>2, <1>3, <2>1 DEF escape_char
<1>4. CASE c \notin {"\"", "\\"} /\ c \in DOMAIN Repr
  <2>1. Repr[c] \in Tokens /\ Repr[c] # "\n"
    BY <1>4, LogAssumption DEF Tokens
  <2>2. Unescaped(Repr[c]) = c
    BY <1>4, LogAssumption DEF Unescaped
  <2> QED BY <1>2, <1>4, <2>1, <2>2 DEF escape_char
<1>5. CASE c \notin {"\"", "\\"} /\ c \notin DOMAIN Repr
  <2>1. ReadChar(r, c) = q
    BY <1>5, LogAssumption DEF ReadChar, In
  <2>2. escape_char(c) = <<c>>
    BY <1>5 DEF escape_char
  <2>3. Reads(r, <<c>>, q)
    <3> HIDE DEF r, q
    <3> QED BY <2>1, ReadsOne
  <2> QED BY <2>2, <2>3
<1> QED BY <1>3, <1>4, <1>5

-----------------------------------------------------------------------------
(* Wherever a value is expected, `value` is read as the text. *)
Renders(value, text) ==
  \A ls, tag, fs, key :
    \E mode \in {"value", "bare", "closed"} :
      Reads(In(ls, tag, fs, key, <<>>, "value"), value, In(ls, tag, fs, key, text, mode))

(* A text, one character after the other. *)
LEMMA PrefixByOne ==
  ASSUME NEW T, NEW text \in Seq(T)
  PROVE  /\ SubSeq(text, 1, 0) = <<>> /\ SubSeq(text, 1, Len(text)) = text
         /\ \A i \in 1..Len(text) :
              SubSeq(text, 1, i) = Append(SubSeq(text, 1, i - 1), text[i])
<1>1. SubSeq(text, 1, 0) = <<>> /\ SubSeq(text, 1, Len(text)) = text
  BY SubSeqEmpty, SubSeqFull
<1>2. ASSUME NEW i \in 1..Len(text)
      PROVE  SubSeq(text, 1, i) = Append(SubSeq(text, 1, i - 1), text[i])
  <2>1. 1 \in 1..Len(text) /\ i \in 1..Len(text) /\ text[i] \in T
    OBVIOUS
  <2>2. SubSeq(text, 1, i) = SubSeq(text, 1, i - 1) \o <<text[i]>>
    BY <2>1, SubSeqRecursiveSecond
  <2>3. SubSeq(text, 1, i - 1) \in Seq(T)
    BY SubSeqProperties
  <2> QED BY <2>1, <2>2, <2>3, AppendIsConcat
<1> QED BY <1>1, <1>2

(* A plain text stands for itself, even the empty one. *)
LEMMA PlainRenders ==
  ASSUME NEW text \in Seq(Tokens), Plain(text)
  PROVE  Renders(text, text)
<1> SUFFICES ASSUME NEW ls, NEW tag, NEW fs, NEW key
             PROVE  \E mode \in {"value", "bare", "closed"} :
                      Reads(In(ls, tag, fs, key, <<>>, "value"), text,
                            In(ls, tag, fs, key, text, mode))
  BY DEF Renders
<1> DEFINE n == Len(text)
           r == In(ls, tag, fs, key, <<>>, "value")
           At(i) == In(ls, tag, fs, key, SubSeq(text, 1, i), "bare")
           g == [i \in 0..n |-> IF i = 0 THEN r ELSE At(i)]
<1>1. n \in Nat /\ \A i \in 1..n : text[i] \notin NEEDS_QUOTING \cup DOMAIN Repr
  BY DEF Plain
<1>2. CASE n = 0
  <2>1. text = <<>>
    BY <1>2
  <2> QED BY <2>1, ReadsNothing
<1>3. CASE n # 0
  <2>1. ASSUME NEW i \in 1..n PROVE g[i] = ReadChar(g[i - 1], text[i])
    <3>1. SubSeq(text, 1, i) = Append(SubSeq(text, 1, i - 1), text[i])
      BY PrefixByOne
    <3>2. g[i] = At(i)
      BY <1>1
    <3>3. CASE i = 1
      <4>1. g[i - 1] = r
        BY <1>1, <3>3
      <4>2. r = In(ls, tag, fs, key, SubSeq(text, 1, i - 1), "value")
        <5>1. SubSeq(text, 1, i - 1) = <<>>
          BY <3>3, PrefixByOne
        <5> QED BY <5>1
      <4>3. ReadChar(In(ls, tag, fs, key, SubSeq(text, 1, i - 1), "value"), text[i])
              = In(ls, tag, fs, key, Append(SubSeq(text, 1, i - 1), text[i]), "bare")
        BY <1>1, ReadBare
      <4> HIDE DEF g, r
      <4> QED BY <3>1, <3>2, <4>1, <4>2, <4>3
    <3>4. CASE i # 1
      <4>1. g[i - 1] = At(i - 1)
        BY <1>1, <3>4
      <4>2. ReadChar(At(i - 1), text[i])
              = In(ls, tag, fs, key, Append(SubSeq(text, 1, i - 1), text[i]), "bare")
        BY <1>1, ReadBare
      <4> QED BY <3>1, <3>2, <4>1, <4>2
    <3> QED BY <3>3, <3>4
  <2>2. g[0] = r /\ g[n] = In(ls, tag, fs, key, text, "bare")
    <3>1. g[0] = r /\ g[n] = At(n)
      BY <1>1, <1>3
    <3>2. SubSeq(text, 1, n) = text
      BY PrefixByOne
    <3> QED BY <3>1, <3>2
  <2> HIDE DEF g
  <2>3. Reads(r, text, In(ls, tag, fs, key, text, "bare"))
    BY <2>1, <2>2 DEF Reads
  <2> QED BY <2>3
<1> QED BY <1>2, <1>3

(* What is written for a character is text. *)
LEMMA EscapedTokens == \A c \in Tokens : escape_char(c) \in Seq(Tokens)
<1> TAKE c \in Tokens
<1>1. "\\" \in Tokens
  BY DEF Tokens
<1>2. c \in DOMAIN Repr => Repr[c] \in Tokens
  BY LogAssumption DEF Tokens
<1> QED BY <1>1, <1>2, Pair DEF escape_char

(* Any text between quotes, escaped. *)
LEMMA QuotedRenders ==
  ASSUME NEW text \in Seq(Tokens)
  PROVE  LET chars == FlattenSeq([i \in DOMAIN text |-> escape_char(text[i])])
         IN  /\ chars \in Seq(Tokens)
             /\ Renders(<<"\"">> \o chars \o <<"\"">>, text)
<1> DEFINE n == Len(text)
           E == [i \in DOMAIN text |-> escape_char(text[i])]
           quote == <<"\"">>
<1>1. n \in Nat /\ \A i \in 1..n : text[i] \in Tokens
  OBVIOUS
<1>2. E \in Seq(Seq(Tokens)) /\ Len(E) = n /\ \A i \in 1..n : E[i] = escape_char(text[i])
  <2>1. DOMAIN text = 1..n
    OBVIOUS
  <2>2. E \in [1..n -> Seq(Tokens)]
    BY <1>1, <2>1, EscapedTokens
  <2> QED BY <1>1, <2>1, <2>2, SeqDef
<1> HIDE DEF E
<1>3. PICK f \in [0..Len(E) -> Seq(Tokens)] : Flattens(E, f)
  BY <1>2, FlattenSteps
<1>4. /\ f[0] = <<>> /\ FlattenSeq(E) = f[n]
      /\ \A i \in 1..n : f[i] = f[i - 1] \o escape_char(text[i])
  BY <1>2, <1>3 DEF Flattens
<1>5. \A i \in 0..n : f[i] \in Seq(Tokens)
  BY <1>2, <1>3
<1> HIDE DEF n
<1>6. ASSUME NEW ls, NEW tag, NEW fs, NEW key
      PROVE  Reads(In(ls, tag, fs, key, <<>>, "value"), quote \o FlattenSeq(E) \o quote,
                   In(ls, tag, fs, key, text, "closed"))
  <2> DEFINE At(v) == In(ls, tag, fs, key, v, "quoted")
             r == In(ls, tag, fs, key, <<>>, "value")
             q == In(ls, tag, fs, key, text, "closed")
             U == {k \in Nat : k \in 0..n => Reads(At(<<>>), f[k], At(SubSeq(text, 1, k)))}
  <2>1. 0 \in U
    <3>1. SubSeq(text, 1, 0) = <<>>
      BY PrefixByOne
    <3> QED BY <1>4, <3>1, ReadsNothing
  <2>2. ASSUME NEW k \in Nat, k \in U PROVE k + 1 \in U
    <3>1. ASSUME k + 1 \in 0..n
          PROVE  Reads(At(<<>>), f[k + 1], At(SubSeq(text, 1, k + 1)))
      <4>1. k \in 0..n /\ k + 1 \in 1..n /\ (k + 1) - 1 = k
        BY <1>1, <3>1
      <4>2. Reads(At(<<>>), f[k], At(SubSeq(text, 1, k)))
        BY <2>2, <4>1
      <4> HIDE DEF U
      <4>3. SubSeq(text, 1, k + 1) = Append(SubSeq(text, 1, k), text[k + 1])
        BY <4>1, PrefixByOne DEF n
      <4>4. /\ text[k + 1] \in Tokens /\ f[k] \in Seq(Tokens)
            /\ f[k + 1] = f[k] \o escape_char(text[k + 1])
        BY <1>1, <1>4, <1>5, <4>1
      <4>5. Reads(At(SubSeq(text, 1, k)), escape_char(text[k + 1]), At(SubSeq(text, 1, k + 1)))
        BY <4>3, <4>4, ReadEscaped
      <4>6. escape_char(text[k + 1]) \in Seq(Tokens)
        BY <4>4, EscapedTokens
      <4> HIDE DEF At
      <4>7. Reads(At(<<>>), f[k] \o escape_char(text[k + 1]), At(SubSeq(text, 1, k + 1)))
        BY <4>2, <4>4, <4>5, <4>6, ReadsJoin
      <4> QED BY <4>4, <4>7
    <3> QED BY <3>1
  <2>3. Nat \subseteq U
    <3> HIDE DEF U
    <3> QED BY <2>1, <2>2, Induction
  <2>4. Reads(At(<<>>), FlattenSeq(E), At(text))
    <3>1. n \in Nat /\ n \in 0..n /\ SubSeq(text, 1, n) = text
      BY <1>1, PrefixByOne DEF n
    <3> HIDE DEF At
    <3>2. Reads(At(<<>>), f[n], At(SubSeq(text, 1, n)))
      BY <2>3, <3>1
    <3> QED BY <1>4, <3>1, <3>2
  <2> HIDE DEF U
  <2>5. ReadChar(r, "\"") = At(<<>>) /\ ReadChar(At(text), "\"") = q
    BY ReadQuotes
  <2>6. /\ quote \in Seq(Tokens) /\ FlattenSeq(E) \in Seq(Tokens)
        /\ quote \o FlattenSeq(E) \in Seq(Tokens)
    <3>1. "\"" \in Tokens
      BY DEF Tokens
    <3>2. quote \in Seq(Tokens)
      BY <3>1, Pair
    <3>3. FlattenSeq(E) \in Seq(Tokens)
      BY <1>1, <1>4, <1>5
    <3> HIDE DEF quote
    <3> QED BY <3>2, <3>3
  <2> HIDE DEF At, r, q
  <2>7. Reads(r, quote, At(<<>>)) /\ Reads(At(text), quote, q)
    BY <2>5, ReadsOne
  <2> HIDE DEF quote
  <2>8. Reads(r, quote \o FlattenSeq(E), At(text))
    BY <2>4, <2>6, <2>7, ReadsJoin
  <2>9. Reads(r, quote \o FlattenSeq(E) \o quote, q)
    BY <2>6, <2>7, <2>8, ReadsJoin
  <2> QED BY <2>9 DEF r, q
<1>7. Renders(quote \o FlattenSeq(E) \o quote, text)
  <2> HIDE DEF quote
  <2> QED BY <1>6 DEF Renders
<1>8. FlattenSeq(E) \in Seq(Tokens)
  BY <1>1, <1>4, <1>5
<1> QED BY <1>7, <1>8 DEF E

(* What _escape makes of a text is read as that text. *)
LEMMA EscapeRenders ==
  ASSUME NEW text \in Seq(Tokens)
  PROVE  escape(text) \in Seq(Tokens) /\ Renders(escape(text), text)
<1>1. CASE text # <<>> /\ Plain(text)
  BY <1>1, PlainRenders DEF escape
<1>2. CASE ~(text # <<>> /\ Plain(text))
  <2> DEFINE chars == FlattenSeq([i \in DOMAIN text |-> escape_char(text[i])])
  <2>1. escape(text) = <<"\"">> \o chars \o <<"\"">>
    BY <1>2 DEF escape
  <2>2. chars \in Seq(Tokens) /\ Renders(<<"\"">> \o chars \o <<"\"">>, text)
    BY QuotedRenders
  <2> HIDE DEF chars
  <2>3. <<"\"">> \in Seq(Tokens)
    BY Pair DEF Tokens
  <2>4. <<"\"">> \o chars \o <<"\"">> \in Seq(Tokens)
    BY <2>2, <2>3, Joined, Zenon
  <2> QED BY <2>1, <2>2, <2>4
<1> QED BY <1>1, <1>2

-----------------------------------------------------------------------------
(* One field more. *)
LEMMA ReadField ==
  ASSUME NEW r, NEW ls, NEW tag, NEW fs, Sees(r, ls, tag, fs),
         NEW key \in Tokens, key # "\n", key # "=",
         NEW value \in Seq(Tokens), NEW text, Renders(value, text)
  PROVE  /\ <<" ", key, "=">> \o value \in Seq(Tokens)
         /\ \E q : /\ Reads(r, <<" ", key, "=">> \o value, q)
                   /\ Sees(q, ls, tag, Append(fs, <<key, text>>))
<1>1. PICK k : ReadChar(r, " ") = In(ls, tag, fs, k, <<>>, "key")
  BY ReadSpace
<1> DEFINE a == In(ls, tag, fs, k, <<>>, "key")
           b == In(ls, tag, fs, key, <<>>, "key")
           c == In(ls, tag, fs, key, <<>>, "value")
<1>2. PICK mode \in {"value", "bare", "closed"} :
        Reads(c, value, In(ls, tag, fs, key, text, mode))
  BY DEF Renders
<1> DEFINE q == In(ls, tag, fs, key, text, mode)
<1>3. ReadChar(a, key) = b /\ ReadChar(b, "=") = c
  BY ReadKey
<1>4. Sees(q, ls, tag, Append(fs, <<key, text>>))
  BY DEF Sees
<1> HIDE DEF a, b, c, q
<1>5. Reads(r, <<" ">>, a) /\ Reads(a, <<key>>, b) /\ Reads(b, <<"=">>, c)
  BY <1>1, <1>3, ReadsOne DEF a
<1>6. /\ <<" ">> \in Seq(Tokens) /\ <<key>> \in Seq(Tokens) /\ <<"=">> \in Seq(Tokens)
      /\ <<" ", key>> \in Seq(Tokens) /\ <<" ">> \o <<key>> = <<" ", key>>
      /\ <<" ", key, "=">> \in Seq(Tokens) /\ <<" ", key>> \o <<"=">> = <<" ", key, "=">>
  <2>1. " " \in Tokens /\ "=" \in Tokens
    BY DEF Tokens
  <2> HIDE DEF Tokens
  <2> QED BY <2>1, Pair, Triple
<1>7. Reads(r, <<" ", key>>, b)
  BY <1>5, <1>6, ReadsJoin
<1>8. Reads(r, <<" ", key, "=">>, c)
  BY <1>5, <1>6, <1>7, ReadsJoin
<1>9. Reads(r, <<" ", key, "=">> \o value, q)
  BY <1>2, <1>6, <1>8, ReadsJoin DEF q
<1>10. <<" ", key, "=">> \o value \in Seq(Tokens)
  BY <1>6, Joined, Zenon
<1> QED BY <1>4, <1>9, <1>10

FieldNames == Tokens \ {"\n", "="}

(* The names of the fields have no sign or line break in them. *)
LEMMA NamesOfFields == MESSAGE_FIELDS \in Seq(FieldNames) /\ STATS_FIELDS \in Seq(FieldNames)
<1>1. MESSAGE_FIELDS \in Seq(FieldNames)
  <2>1. \A i \in DOMAIN MESSAGE_FIELDS : MESSAGE_FIELDS[i] \in Tokens
    BY DEF Tokens
  <2>2. DOMAIN MESSAGE_FIELDS = 1..12
    BY DEF MESSAGE_FIELDS
  <2>3. \A i \in 1..12 : MESSAGE_FIELDS[i] # "\n" /\ MESSAGE_FIELDS[i] # "="
    BY DEF MESSAGE_FIELDS
  <2>4. MESSAGE_FIELDS \in [1..12 -> FieldNames]
    BY <2>1, <2>2, <2>3 DEF FieldNames, MESSAGE_FIELDS
  <2> QED BY <2>4, SeqDef
<1>2. STATS_FIELDS \in Seq(FieldNames)
  <2>1. \A i \in DOMAIN STATS_FIELDS : STATS_FIELDS[i] \in Tokens
    BY DEF Tokens
  <2>2. DOMAIN STATS_FIELDS = 1..8
    BY DEF STATS_FIELDS
  <2>3. \A i \in 1..8 : STATS_FIELDS[i] # "\n" /\ STATS_FIELDS[i] # "="
    BY DEF STATS_FIELDS
  <2>4. STATS_FIELDS \in [1..8 -> FieldNames]
    BY <2>1, <2>2, <2>3 DEF FieldNames, STATS_FIELDS
  <2> QED BY <2>4, SeqDef
<1> QED BY <1>1, <1>2

(* The fields that are there, in their order. *)
LEMMA ReadFields ==
  ASSUME NEW fields \in Seq(FieldNames), NEW shown, NEW raw, DOMAIN shown = DOMAIN raw,
         \A key \in DOMAIN raw : /\ raw[key] \in Seq(Tokens) /\ shown[key] \in Seq(Tokens)
                                 /\ Renders(shown[key], raw[key]),
         NEW r, NEW ls, NEW tag, Sees(r, ls, tag, <<>>)
  PROVE  /\ Fields(fields, shown) \in Seq(Tokens)
         /\ \E q : /\ Reads(r, Fields(fields, shown), q)
                   /\ Sees(q, ls, tag, Said(fields, raw))
<1> DEFINE n == Len(fields)
           Written(i) == IF fields[i] \in DOMAIN shown
                         THEN <<" ", fields[i], "=">> \o shown[fields[i]] ELSE <<>>
           Meant(i) == IF fields[i] \in DOMAIN raw
                       THEN <<<<fields[i], raw[fields[i]]>>>> ELSE <<>>
           W == [i \in DOMAIN fields |-> Written(i)]
           M == [i \in DOMAIN fields |-> Meant(i)]
           Pairs == Tokens \X Seq(Tokens)
<1>1. n \in Nat /\ DOMAIN fields = 1..n /\ \A i \in 1..n : fields[i] \in FieldNames
  OBVIOUS
<1>2. \A i \in 1..n : /\ fields[i] \in Tokens /\ fields[i] # "\n" /\ fields[i] # "="
  BY <1>1 DEF FieldNames
<1> HIDE DEF n
<1>3. ASSUME NEW i \in 1..n PROVE Written(i) \in Seq(Tokens)
  <2>1. CASE fields[i] \in DOMAIN shown
    <3>1. <<" ", fields[i], "=">> \in Seq(Tokens)
      BY <1>2, Triple DEF Tokens
    <3>2. shown[fields[i]] \in Seq(Tokens)
      BY <2>1
    <3>3. <<" ", fields[i], "=">> \o shown[fields[i]] \in Seq(Tokens)
      BY <3>1, <3>2, Joined, Zenon
    <3> QED BY <2>1, <3>3
  <2>2. CASE fields[i] \notin DOMAIN shown
    BY <2>2
  <2> QED BY <2>1, <2>2
<1>4. ASSUME NEW i \in 1..n PROVE Meant(i) \in Seq(Pairs)
  <2>1. CASE fields[i] \in DOMAIN raw
    <3>1. <<fields[i], raw[fields[i]]>> \in Pairs
      BY <1>2, <2>1
    <3> HIDE DEF Pairs
    <3> QED BY <2>1, <3>1
  <2>2. CASE fields[i] \notin DOMAIN raw
    BY <2>2
  <2> QED BY <2>1, <2>2
<1> HIDE DEF Written, Meant, Pairs
<1>5. W \in Seq(Seq(Tokens)) /\ Len(W) = n /\ \A i \in 1..n : W[i] = Written(i)
  <2>1. W \in [1..n -> Seq(Tokens)]
    BY <1>1, <1>3
  <2> QED BY <1>1, <2>1, SeqDef
<1>6. M \in Seq(Seq(Pairs)) /\ Len(M) = n /\ \A i \in 1..n : M[i] = Meant(i)
  <2>1. M \in [1..n -> Seq(Pairs)]
    BY <1>1, <1>4
  <2> QED BY <1>1, <2>1, SeqDef
<1>7. Fields(fields, shown) = FlattenSeq(W) /\ Said(fields, raw) = FlattenSeq(M)
  BY DEF Fields, Said, Written, Meant
<1> HIDE DEF W, M
<1>8. PICK f \in [0..n -> Seq(Tokens)] :
        /\ f[0] = <<>> /\ FlattenSeq(W) = f[n]
        /\ \A i \in 1..n : f[i] = f[i - 1] \o Written(i)
  <2>1. PICK f \in [0..Len(W) -> Seq(Tokens)] : Flattens(W, f)
    BY <1>5, FlattenSteps
  <2> QED BY <1>5, <2>1 DEF Flattens
<1>9. PICK g \in [0..n -> Seq(Pairs)] :
        /\ g[0] = <<>> /\ FlattenSeq(M) = g[n]
        /\ \A i \in 1..n : g[i] = g[i - 1] \o Meant(i)
  <2>1. PICK g \in [0..Len(M) -> Seq(Pairs)] : Flattens(M, g)
    BY <1>6, FlattenSteps
  <2> QED BY <1>6, <2>1 DEF Flattens
<1>10. \A i \in 0..n : f[i] \in Seq(Tokens) /\ g[i] \in Seq(Pairs)
  BY <1>8, <1>9
<1> DEFINE P(k) == \E q : Reads(r, f[k], q) /\ Sees(q, ls, tag, g[k])
           U == {k \in Nat : k \in 0..n => P(k)}
<1>11. 0 \in U
  <2>1. Reads(r, f[0], r) /\ Sees(r, ls, tag, g[0])
    BY <1>8, <1>9, ReadsNothing
  <2> QED BY <2>1
<1>12. ASSUME NEW k \in Nat, k \in U PROVE k + 1 \in U
  <2>1. ASSUME k + 1 \in 0..n PROVE P(k + 1)
    <3> DEFINE key == fields[k + 1]
    <3>1. k \in 0..n /\ k + 1 \in 1..n /\ (k + 1) - 1 = k
      BY <1>1, <2>1
    <3>2. PICK q : Reads(r, f[k], q) /\ Sees(q, ls, tag, g[k])
      BY <1>12, <3>1
    <3>3. /\ f[k + 1] = f[k] \o Written(k + 1) /\ f[k] \in Seq(Tokens)
          /\ g[k + 1] = g[k] \o Meant(k + 1) /\ g[k] \in Seq(Pairs)
      BY <1>8, <1>9, <1>10, <3>1
    <3>4. CASE key \in DOMAIN raw
      <4>1. /\ Written(k + 1) = <<" ", key, "=">> \o shown[key]
            /\ Meant(k + 1) = <<<<key, raw[key]>>>>
        BY <3>4 DEF Written, Meant
      <4>2. /\ key \in Tokens /\ key # "\n" /\ key # "="
            /\ shown[key] \in Seq(Tokens) /\ Renders(shown[key], raw[key])
        BY <1>2, <3>1, <3>4
      <4>3. <<key, raw[key]>> \in Pairs
        BY <3>4, <4>2 DEF Pairs
      <4>4. g[k + 1] = Append(g[k], <<key, raw[key]>>)
        BY <3>3, <4>1, <4>3, AppendIsConcat
      <4> HIDE DEF key
      <4>5. /\ <<" ", key, "=">> \o shown[key] \in Seq(Tokens)
            /\ \E p : /\ Reads(q, <<" ", key, "=">> \o shown[key], p)
                      /\ Sees(p, ls, tag, Append(g[k], <<key, raw[key]>>))
        BY <3>2, <4>2, ReadField
      <4>6. PICK p : /\ Reads(q, Written(k + 1), p)
                     /\ Sees(p, ls, tag, g[k + 1])
        BY <4>1, <4>4, <4>5
      <4>7. Written(k + 1) \in Seq(Tokens)
        BY <1>3, <3>1
      <4> HIDE DEF P, U, Written, Meant
      <4>8. Reads(r, f[k] \o Written(k + 1), p)
        BY <3>2, <3>3, <4>6, <4>7, ReadsJoin
      <4>9. Reads(r, f[k + 1], p)
        BY <3>3, <4>8
      <4> QED BY <4>6, <4>9 DEF P
    <3>5. CASE key \notin DOMAIN raw
      <4>1. Written(k + 1) = <<>> /\ Meant(k + 1) = <<>>
        BY <3>5 DEF Written, Meant
      <4>2. f[k + 1] = f[k] /\ g[k + 1] = g[k]
        BY <3>3, <4>1, ConcatEmptySeq
      <4> QED BY <3>2, <4>2
    <3> QED BY <3>4, <3>5
  <2> HIDE DEF P
  <2> QED BY <2>1
<1>13. P(n)
  <2> HIDE DEF P
  <2>1. Nat \subseteq U
    <3> HIDE DEF U
    <3> QED BY <1>11, <1>12, Induction
  <2> QED BY <1>1, <2>1
<1>14. FlattenSeq(W) \in Seq(Tokens)
  BY <1>1, <1>8, <1>10
<1> QED BY <1>7, <1>8, <1>9, <1>13, <1>14

-----------------------------------------------------------------------------
(* A line without its terminator. *)
Words == Tokens \ {"\n"}

(* What is joined from words has no line break in it. *)
LEMMA WordsJoin ==
  /\ \A s \in Seq(Seq(Words)) : FlattenSeq(s) \in Seq(Words)
  /\ \A s, t \in Seq(Words) : s \o t \in Seq(Words)
  /\ \A c, d, e \in Words : /\ <<c>> \in Seq(Words) /\ <<c, d>> \in Seq(Words)
                            /\ <<c, d, e>> \in Seq(Words)
<1>1. ASSUME NEW s \in Seq(Seq(Words)) PROVE FlattenSeq(s) \in Seq(Words)
  <2>1. PICK f \in [0..Len(s) -> Seq(Words)] : Flattens(s, f)
    BY FlattenSteps
  <2>2. Len(s) \in 0..Len(s)
    OBVIOUS
  <2> QED BY <2>1, <2>2 DEF Flattens
<1> HIDE DEF Words
<1>2. \A s, t \in Seq(Words) : s \o t \in Seq(Words)
  BY ConcatProperties
<1>3. \A c, d, e \in Words : /\ <<c>> \in Seq(Words) /\ <<c, d>> \in Seq(Words)
                             /\ <<c, d, e>> \in Seq(Words)
  OBVIOUS
<1> QED BY <1>1, <1>2, <1>3

(* A text that needs no quotes has no line break in it. *)
LEMMA PlainIsOneLine == \A text \in Seq(Tokens) : Plain(text) => text \in Seq(Words)
<1> TAKE text \in Seq(Tokens)
<1> HAVE Plain(text)
<1>1. ASSUME NEW i \in 1..Len(text) PROVE text[i] \in Words
  <2>1. text[i] \in Tokens /\ i \in DOMAIN text
    OBVIOUS
  <2>2. text[i] # "\n"
    BY <2>1, LogAssumption DEF Plain
  <2> HIDE DEF Tokens
  <2> QED BY <2>1, <2>2 DEF Words
<1> HIDE DEF Words
<1> QED BY <1>1, SeqDef

(* _escape leaves no line break of the text. *)
LEMMA EscapeIsOneLine == \A text \in Seq(Tokens) : escape(text) \in Seq(Words)
<1> TAKE text \in Seq(Tokens)
<1>1. "\"" \in Words /\ "\\" \in Words
  BY DEF Words, Tokens
<1>2. CASE text # <<>> /\ Plain(text)
  BY <1>2, PlainIsOneLine DEF escape
<1>3. CASE ~(text # <<>> /\ Plain(text))
  <2> DEFINE E == [i \in DOMAIN text |-> escape_char(text[i])]
  <2>1. \A c \in Tokens : escape_char(c) \in Seq(Words)
    <3> TAKE c \in Tokens
    <3>1. c \in DOMAIN Repr => Repr[c] \in Words
      BY LogAssumption DEF Words, Tokens
    <3>2. c \notin DOMAIN Repr => c \in Words
      BY LogAssumption DEF Words
    <3> HIDE DEF Words
    <3> QED BY <1>1, <3>1, <3>2, WordsJoin DEF escape_char
  <2>2. E \in Seq(Seq(Words))
    <3>1. DOMAIN text = 1..Len(text) /\ Len(text) \in Nat
          /\ \A i \in 1..Len(text) : text[i] \in Tokens
      OBVIOUS
    <3>2. E \in [1..Len(text) -> Seq(Words)]
      BY <2>1, <3>1
    <3> QED BY <3>1, <3>2, SeqDef
  <2>3. escape(text) = <<"\"">> \o FlattenSeq(E) \o <<"\"">>
    BY <1>3 DEF escape
  <2> HIDE DEF E
  <2>4. FlattenSeq(E) \in Seq(Words) /\ <<"\"">> \in Seq(Words)
    BY <1>1, <2>2, WordsJoin
  <2>5. <<"\"">> \o FlattenSeq(E) \o <<"\"">> \in Seq(Words)
    BY <2>4, WordsJoin, Zenon
  <2> QED BY <2>3, <2>5
<1> QED BY <1>2, <1>3

(* Neither do the fields of a record. *)
LEMMA FieldsAreOneLine ==
  ASSUME NEW fields \in Seq(FieldNames), NEW shown,
         \A key \in DOMAIN shown : shown[key] \in Seq(Words)
  PROVE  Fields(fields, shown) \in Seq(Words)
<1> DEFINE W(i) == IF fields[i] \in DOMAIN shown
                   THEN <<" ", fields[i], "=">> \o shown[fields[i]] ELSE <<>>
           seqs == [i \in DOMAIN fields |-> W(i)]
<1>1. /\ Len(fields) \in Nat /\ DOMAIN fields = 1..Len(fields)
      /\ \A i \in 1..Len(fields) : fields[i] \in FieldNames
  OBVIOUS
<1>2. FieldNames \subseteq Words /\ " " \in Words /\ "=" \in Words
  BY DEF FieldNames, Words, Tokens
<1>3. ASSUME NEW i \in 1..Len(fields) PROVE W(i) \in Seq(Words)
  <2>1. CASE fields[i] \in DOMAIN shown
    <3>1. <<" ", fields[i], "=">> \in Seq(Words)
      BY <1>1, <1>2, WordsJoin
    <3>2. shown[fields[i]] \in Seq(Words)
      BY <2>1
    <3>3. <<" ", fields[i], "=">> \o shown[fields[i]] \in Seq(Words)
      BY <3>1, <3>2, WordsJoin, Zenon
    <3> QED BY <2>1, <3>3
  <2>2. CASE fields[i] \notin DOMAIN shown
    BY <2>2
  <2> QED BY <2>1, <2>2
<1>4. seqs \in Seq(Seq(Words))
  <2> HIDE DEF W
  <2>1. seqs \in [1..Len(fields) -> Seq(Words)]
    BY <1>1, <1>3
  <2> QED BY <1>1, <2>1, SeqDef
<1>5. Fields(fields, shown) = FlattenSeq(seqs)
  BY DEF Fields
<1> HIDE DEF seqs
<1> QED BY <1>4, <1>5, WordsJoin

-----------------------------------------------------------------------------
(* The records of the program: of a message, whose texts publishers choose, and of
   a window, whose values are numbers. *)
Extras(V) == UNION {[K -> V] : K \in SUBSET Tokens}
Records ==
  [event : {"message"}, outcome : DOMAIN OUTCOME_TAGS, extra : Extras(Seq(Tokens))]
    \cup [event : {"stats"}, extra : Extras(Counts)]

(* A tag and its fields are read, from the start of a line to its end. *)
LEMMA ReadLine ==
  ASSUME NEW fields \in Seq(FieldNames), NEW shown, NEW raw, DOMAIN shown = DOMAIN raw,
         \A key \in DOMAIN raw : /\ raw[key] \in Seq(Tokens) /\ shown[key] \in Seq(Words)
                                 /\ Renders(shown[key], raw[key]),
         NEW tag \in Words, NEW ls
  PROVE  /\ <<tag>> \o Fields(fields, shown) \in Seq(Words)
         /\ Reads(AtLine(ls), (<<tag>> \o Fields(fields, shown)) \o <<"\n">>,
                  AtLine(Append(ls, <<tag, Said(fields, raw)>>)))
<1> DEFINE r == AtLine(ls)
           q == ReadChar(r, tag)
           fs == Said(fields, raw)
           text == Fields(fields, shown)
           end == AtLine(Append(ls, <<tag, fs>>))
<1>1. Seq(Words) \subseteq Seq(Tokens)
  <2>1. Words \subseteq Tokens
    BY DEF Words
  <2> HIDE DEF Words, Tokens
  <2> QED BY <2>1, SeqMonotonic
<1>2. tag # "\n" /\ "\n" \in Tokens
  BY DEF Words, Tokens
<1>3. Sees(q, ls, tag, <<>>)
  BY <1>2, ReadTag
<1>4. Reads(r, <<tag>>, q)
  BY ReadsOne
<1>5. text \in Seq(Words)
  BY FieldsAreOneLine
<1> HIDE DEF r, q
<1>6. PICK p : Reads(q, text, p) /\ Sees(p, ls, tag, fs)
  BY <1>1, <1>3, ReadFields
<1> HIDE DEF text, fs
<1>7. ReadChar(p, "\n") = end
  BY <1>6, ReadEnd
<1> HIDE DEF end
<1>8. Reads(p, <<"\n">>, end)
  BY <1>7, ReadsOne
<1>9. <<tag>> \in Seq(Words) /\ <<"\n">> \in Seq(Tokens)
  BY <1>2, WordsJoin, Pair
<1>10. <<tag>> \o text \in Seq(Words)
  BY <1>5, <1>9, WordsJoin, Zenon
<1>11. <<tag>> \in Seq(Tokens) /\ text \in Seq(Tokens) /\ <<tag>> \o text \in Seq(Tokens)
  BY <1>1, <1>5, <1>9, <1>10
<1>12. Reads(r, <<tag>> \o text, p)
  BY <1>4, <1>6, <1>11, ReadsJoin
<1>13. Reads(r, (<<tag>> \o text) \o <<"\n">>, end)
  BY <1>8, <1>9, <1>11, <1>12, ReadsJoin
<1> QED BY <1>10, <1>13 DEF r, text, end, fs

(* format renders a record as one line, which is read as what the record says. *)
LEMMA FormatIsRead ==
  ASSUME NEW record \in Records, NEW ls
  PROVE  /\ format(record) \in Seq(Words)
         /\ Reads(AtLine(ls), format(record) \o <<"\n">>, AtLine(Append(ls, Meaning(record))))
<1> DEFINE raw == record.extra
<1>1. CASE record.event = "message"
  <2> DEFINE shown == [key \in DOMAIN raw |-> escape(raw[key])]
             tag == OUTCOME_TAGS[record.outcome]
  <2>1. record.outcome \in DOMAIN OUTCOME_TAGS /\ raw \in Extras(Seq(Tokens))
    BY <1>1 DEF Records
  <2>2. \A key \in DOMAIN raw : raw[key] \in Seq(Tokens)
    BY <2>1 DEF Extras
  <2>3. DOMAIN shown = DOMAIN raw
    OBVIOUS
  <2>4. tag \in Words
    <3>1. tag \in Tokens
      BY <2>1 DEF Tokens
    <3>2. tag # "\n"
      BY <2>1 DEF OUTCOME_TAGS
    <3> QED BY <3>1, <3>2 DEF Words
  <2>5. \A key \in DOMAIN raw : /\ raw[key] \in Seq(Tokens) /\ shown[key] \in Seq(Words)
                                /\ Renders(shown[key], raw[key])
    BY <2>2, EscapeRenders, EscapeIsOneLine
  <2>6. /\ format(record) = <<tag>> \o Fields(MESSAGE_FIELDS, shown)
        /\ Meaning(record) = <<tag, Said(MESSAGE_FIELDS, raw)>>
    BY <1>1 DEF format, format_message, Meaning
  <2> HIDE DEF shown, tag, raw
  <2> QED BY <2>3, <2>4, <2>5, <2>6, NamesOfFields, ReadLine
<1>2. CASE record.event = "stats"
  <2>1. raw \in Extras(Counts)
    BY <1>2 DEF Records
  <2>2. \A key \in DOMAIN raw : raw[key] \in Counts
    BY <2>1 DEF Extras
  <2>3. ASSUME NEW text \in Counts
        PROVE  text \in Seq(Tokens) /\ text \in Seq(Words) /\ Renders(text, text)
    <3>1. text \in Seq(Tokens) /\ Plain(text)
      BY LogAssumption, TextsAreTokens
    <3> QED BY <3>1, PlainIsOneLine, PlainRenders
  <2>4. \A key \in DOMAIN raw : /\ raw[key] \in Seq(Tokens) /\ raw[key] \in Seq(Words)
                                /\ Renders(raw[key], raw[key])
    BY <2>2, <2>3
  <2>5. "[STATS]" \in Words
    BY DEF Words, Tokens
  <2>6. /\ format(record) = <<"[STATS]">> \o Fields(STATS_FIELDS, raw)
        /\ Meaning(record) = <<"[STATS]", Said(STATS_FIELDS, raw)>>
    BY <1>2 DEF format, format_stats, Meaning
  <2> HIDE DEF raw
  <2> QED BY <2>4, <2>5, <2>6, NamesOfFields, ReadLine
<1> QED BY <1>1, <1>2 DEF Records

(* The places where the lines of a text end. *)
Ends(s) == {i \in DOMAIN s : s[i] = "\n"}

(* A line that is added has one end more, at the end of the text. *)
LEMMA OneMoreEnd ==
  ASSUME NEW s \in Seq(Tokens), NEW t \in Seq(Words)
  PROVE  LET u == s \o t \o <<"\n">>
         IN  Len(u) \notin Ends(s) /\ Ends(u) = Ends(s) \cup {Len(u)}
<1> DEFINE u == s \o t \o <<"\n">>
           m == Len(s)
           n == Len(t)
<1>1. /\ m \in Nat /\ n \in Nat /\ DOMAIN s = 1..m /\ DOMAIN t = 1..n
      /\ \A i \in 1..n : t[i] # "\n"
  BY DEF Words
<1>2. t \in Seq(Tokens) /\ <<"\n">> \in Seq(Tokens)
  <2>1. Words \subseteq Tokens /\ "\n" \in Tokens
    BY DEF Words, Tokens
  <2> HIDE DEF Words, Tokens
  <2> QED BY <2>1, SeqMonotonic, Pair
<1>3. /\ s \o t \in Seq(Tokens) /\ Len(s \o t) = m + n
      /\ \A i \in 1..m : (s \o t)[i] = s[i]
      /\ \A i \in 1..n : (s \o t)[m + i] = t[i]
  <2> HIDE DEF Tokens
  <2> QED BY <1>2, ConcatProperties
<1>4. /\ u \in Seq(Tokens) /\ Len(u) = m + n + 1 /\ DOMAIN u = 1..(m + n + 1)
      /\ \A i \in 1..(m + n) : u[i] = (s \o t)[i]
      /\ u[m + n + 1] = "\n"
  <2>1. Len(<<"\n">>) = 1 /\ <<"\n">>[1] = "\n"
    OBVIOUS
  <2> DEFINE a == s \o t
             b == <<"\n">>
  <2>2. /\ a \o b \in Seq(Tokens) /\ Len(a \o b) = Len(a) + Len(b)
        /\ \A i \in 1..Len(a) : (a \o b)[i] = a[i]
        /\ \A i \in 1..Len(b) : (a \o b)[Len(a) + i] = b[i]
    <3>1. a \in Seq(Tokens) /\ b \in Seq(Tokens)
      BY <1>2, <1>3
    <3> HIDE DEF a, b, Tokens
    <3> QED BY <3>1, ConcatProperties
  <2> HIDE DEF Tokens
  <2>3. Len(a) = m + n /\ Len(b) = 1 /\ b[1] = "\n" /\ u = a \o b
    BY <1>3, <2>1
  <2> HIDE DEF a, b, u, m, n
  <2> QED BY <1>1, <2>2, <2>3 DEF a
<1> HIDE DEF u, m, n
<1>5. ASSUME NEW i \in 1..(m + n + 1)
      PROVE  u[i] = "\n" <=> (i \in 1..m /\ s[i] = "\n") \/ i = m + n + 1
  <2>1. CASE i \in 1..m
    BY <1>1, <1>3, <1>4, <2>1
  <2>2. CASE i \notin 1..m /\ i # m + n + 1
    <3>1. i - m \in 1..n /\ m + (i - m) = i /\ i \in 1..(m + n)
      BY <1>1, <2>2
    <3>2. u[i] = t[i - m]
      BY <1>3, <1>4, <3>1
    <3> QED BY <1>1, <2>2, <3>1, <3>2
  <2>3. CASE i = m + n + 1
    BY <1>4, <2>3
  <2> QED BY <2>1, <2>2, <2>3
<1>6. 1..m \subseteq 1..(m + n + 1) /\ m + n + 1 \in 1..(m + n + 1) /\ m + n + 1 \notin 1..m
  BY <1>1
<1>7. Ends(u) = Ends(s) \cup {m + n + 1} /\ m + n + 1 \notin Ends(s)
  BY <1>1, <1>4, <1>5, <1>6 DEF Ends
<1> QED BY <1>4, <1>7 DEF u

-----------------------------------------------------------------------------
(* What the stream is, beyond what is read from it: the reader is at the start of a
   line, so that it has no part of an earlier record in hand. *)
LogInv ==
  /\ emitted \in Seq(Records)
  /\ stream \in Seq(Tokens)
  /\ Reads(Start, stream, AtLine([i \in DOMAIN emitted |-> Meaning(emitted[i])]))
  /\ IsFiniteSet(Ends(stream)) /\ Cardinality(Ends(stream)) = Len(emitted)

(* An empty log. *)
LEMMA LogInvInit == Init => LogInv
<1> SUFFICES ASSUME Init PROVE LogInv
  OBVIOUS
<1>1. emitted = <<>> /\ stream = <<>>
  BY DEF Init
<1>2. emitted \in Seq(Records) /\ stream \in Seq(Tokens)
  BY <1>1
<1>3. [i \in DOMAIN emitted |-> Meaning(emitted[i])] = <<>>
  BY <1>1
<1>4. Start = AtLine(<<>>)
  BY DEF Start, AtLine, In
<1>5. Reads(Start, stream, AtLine([i \in DOMAIN emitted |-> Meaning(emitted[i])]))
  BY <1>1, <1>3, <1>4, ReadsNothing
<1>6. Ends(stream) = {} /\ Len(emitted) = 0
  BY <1>1 DEF Ends
<1>7. IsFiniteSet(Ends(stream)) /\ Cardinality(Ends(stream)) = Len(emitted)
  BY <1>6, FS_EmptySet
<1> QED BY <1>2, <1>5, <1>7 DEF LogInv

(* One record more. *)
LEMMA EmitKeepsLogInv ==
  ASSUME LogInv, NEW record \in Records, Emit(record) PROVE LogInv'
<1> DEFINE line == format(record)
           said == [i \in DOMAIN emitted |-> Meaning(emitted[i])]
           said1 == Append(said, Meaning(record))
<1>1. emitted' = Append(emitted, record) /\ stream' = stream \o line \o <<"\n">>
  BY DEF Emit
<1>2. /\ emitted \in Seq(Records) /\ stream \in Seq(Tokens) /\ Reads(Start, stream, AtLine(said))
      /\ IsFiniteSet(Ends(stream)) /\ Cardinality(Ends(stream)) = Len(emitted)
  BY DEF LogInv
<1>3. line \in Seq(Words) /\ Reads(AtLine(said), line \o <<"\n">>, AtLine(said1))
  BY FormatIsRead
<1>4. /\ emitted' \in Seq(Records) /\ Len(emitted') = Len(emitted) + 1
      /\ Len(emitted) \in Nat
  <2> HIDE DEF Records
  <2> QED BY <1>1, <1>2, AppendProperties
<1>5. [i \in DOMAIN emitted' |-> Meaning(emitted'[i])] = said1
  <2> DEFINE n == Len(emitted)
             s == Append(emitted, record)
  <2>1. n \in Nat /\ DOMAIN emitted = 1..n /\ DOMAIN s = 1..(n + 1) /\ s[n + 1] = record
        /\ \A i \in 1..n : s[i] = emitted[i]
    <3> HIDE DEF Records
    <3> QED BY <1>2, AppendProperties
  <2> DEFINE V == {Meaning(emitted[i]) : i \in 1..n}
  <2>2. said \in Seq(V) /\ Len(said) = n
    <3>1. said \in [1..n -> V]
      BY <2>1
    <3> HIDE DEF said, V, n
    <3> QED BY <2>1, <3>1, SeqDef
  <2> HIDE DEF V, n, s
  <2>3. /\ DOMAIN said1 = 1..(n + 1) /\ said1[n + 1] = Meaning(record)
        /\ \A i \in 1..n : said1[i] = said[i]
    <3> HIDE DEF said
    <3> QED BY <2>1, <2>2
  <2>4. said1 = [i \in 1..(n + 1) |-> said1[i]]
    <3> DEFINE V1 == V \cup {Meaning(record)}
    <3> HIDE DEF said
    <3>1. said \in Seq(V1) /\ Meaning(record) \in V1
      BY <2>2
    <3> HIDE DEF V1
    <3>2. said1 \in Seq(V1) /\ Len(said1) = n + 1
      BY <2>2, <3>1, AppendProperties
    <3> HIDE DEF said1
    <3> QED BY <3>2
  <2> HIDE DEF said1
  <2>5. ASSUME NEW i \in 1..(n + 1) PROVE Meaning(s[i]) = said1[i]
    <3>1. CASE i \in 1..n
      BY <2>1, <2>3, <3>1
    <3>2. CASE i \notin 1..n
      <4>1. i = n + 1
        BY <2>1, <3>2
      <4> QED BY <2>1, <2>3, <4>1
    <3> QED BY <3>1, <3>2
  <2>6. [i \in DOMAIN s |-> Meaning(s[i])] = said1
    BY <2>1, <2>4, <2>5
  <2> QED BY <1>1, <2>6 DEF s
<1>6. "\n" \in Tokens /\ <<"\n">> \in Seq(Tokens) /\ line \in Seq(Tokens)
      /\ line \o <<"\n">> \in Seq(Tokens)
      /\ stream \o (line \o <<"\n">>) = stream \o line \o <<"\n">>
      /\ stream \o (line \o <<"\n">>) \in Seq(Tokens)
  <2>1. Words \subseteq Tokens /\ "\n" \in Tokens
    BY DEF Words, Tokens
  <2> HIDE DEF Words, Tokens, line
  <2>2. <<"\n">> \in Seq(Tokens) /\ line \in Seq(Tokens)
    BY <1>3, <2>1, SeqMonotonic, Pair
  <2> DEFINE b == <<"\n">>
  <2> HIDE DEF b
  <2>3. /\ line \o b \in Seq(Tokens) /\ stream \o (line \o b) = stream \o line \o b
        /\ stream \o (line \o b) \in Seq(Tokens)
    <3>1. b \in Seq(Tokens) /\ stream \in Seq(Tokens) /\ line \in Seq(Tokens)
      BY <1>2, <2>2 DEF b
    <3>2. line \o b \in Seq(Tokens)
      BY <3>1, Joined, Zenon
    <3>3. stream \o (line \o b) \in Seq(Tokens)
      BY <3>1, <3>2, Joined, Zenon
    <3>4. stream \o (line \o b) = stream \o line \o b
      BY <3>1, ConcatAssociative
    <3> QED BY <3>2, <3>3, <3>4
  <2> QED BY <2>1, <2>2, <2>3 DEF b
<1>7. Reads(Start, stream', AtLine(said1))
  <2> HIDE DEF line, said, said1
  <2>1. Reads(Start, stream \o (line \o <<"\n">>), AtLine(said1))
    BY <1>2, <1>3, <1>6, ReadsJoin
  <2> QED BY <1>1, <1>6, <2>1
<1>8. Ends(stream') = Ends(stream) \cup {Len(stream')} /\ Len(stream') \notin Ends(stream)
  BY <1>1, <1>2, <1>3, OneMoreEnd
<1>9. IsFiniteSet(Ends(stream')) /\ Cardinality(Ends(stream')) = Len(emitted')
  <2> DEFINE S == Ends(stream)
             x == Len(stream')
  <2>1. IsFiniteSet(S) /\ x \notin S /\ Ends(stream') = S \cup {x} /\ Cardinality(S) = Len(emitted)
    BY <1>2, <1>8
  <2> HIDE DEF S, x
  <2>2. IsFiniteSet(S \cup {x}) /\ Cardinality(S \cup {x}) = Cardinality(S) + 1
    BY <2>1, FS_AddElement
  <2> QED BY <1>4, <2>1, <2>2
<1> HIDE DEF line, said, said1
<1>10. stream' \in Seq(Tokens)
  BY <1>1, <1>6
<1> QED BY <1>4, <1>5, <1>7, <1>9, <1>10 DEF LogInv

(* The keys of the fields that the actions log. *)
LEMMA KeysAreTokens ==
  {"topic", "channel", "encoding", "from", "bytes", "interval_s", "total"} \subseteq Tokens
<1>1. /\ MESSAGE_FIELDS[1] = "topic" /\ MESSAGE_FIELDS[2] = "channel"
      /\ MESSAGE_FIELDS[3] = "encoding" /\ MESSAGE_FIELDS[6] = "from"
      /\ MESSAGE_FIELDS[12] = "bytes" /\ DOMAIN MESSAGE_FIELDS = 1..12
  BY DEF MESSAGE_FIELDS
<1>2. STATS_FIELDS[1] = "interval_s" /\ STATS_FIELDS[8] = "total" /\ DOMAIN STATS_FIELDS = 1..8
  BY DEF STATS_FIELDS
<1>3. /\ \A i \in 1..12 : MESSAGE_FIELDS[i] \in Tokens
      /\ \A i \in 1..8 : STATS_FIELDS[i] \in Tokens
  BY <1>1, <1>2 DEF Tokens
<1> HIDE DEF Tokens
<1> QED BY <1>1, <1>2, <1>3

(* Every action logs a record, and nothing else writes. *)
LEMMA NextEmits == Next => \E record \in Records : Emit(record)
<1> SUFFICES ASSUME Next PROVE \E record \in Records : Emit(record)
  OBVIOUS
<1>1. Texts \cup Channels \cup Senders \cup Counts \subseteq Seq(Tokens)
  BY LogAssumption, TextsAreTokens
<1>2. <<"json">> \in Seq(Tokens)
  BY Pair DEF Tokens
<1>3. CASE LogStats
  <2>1. PICK n \in Counts :
          Emit([event |-> "stats", extra |-> [interval_s |-> n, total |-> n]])
    BY <1>3 DEF LogStats
  <2> DEFINE extra == [interval_s |-> n, total |-> n]
  <2>2. extra \in Extras(Counts)
    <3>1. extra \in [{"interval_s", "total"} -> Counts]
      OBVIOUS
    <3>2. {"interval_s", "total"} \subseteq Tokens
      BY KeysAreTokens
    <3> HIDE DEF extra
    <3> QED BY <3>1, <3>2 DEF Extras
  <2> HIDE DEF extra
  <2>3. [event |-> "stats", extra |-> extra] \in Records
    BY <2>2 DEF Records
  <2> QED BY <2>1, <2>3 DEF extra
<1>4. ASSUME NEW topic \in Texts, NEW channel \in Channels, LogWarn(topic, channel)
      PROVE  \E record \in Records : Emit(record)
  <2> DEFINE extra(bytes) == [topic |-> topic, channel |-> channel, encoding |-> <<"json">>,
                              bytes |-> bytes]
  <2>1. PICK bytes \in Counts :
          Emit([event |-> "message", outcome |-> "warn", extra |-> extra(bytes)])
    BY <1>4 DEF LogWarn
  <2>2. extra(bytes) \in Extras(Seq(Tokens))
    <3>1. topic \in Seq(Tokens) /\ channel \in Seq(Tokens) /\ bytes \in Seq(Tokens)
      BY <1>1
    <3> DEFINE K == {"topic", "channel", "encoding", "bytes"}
               e == extra(bytes)
    <3>2. e \in [K -> Seq(Tokens)]
      <4>1. /\ e["topic"] = topic /\ e["channel"] = channel /\ e["encoding"] = <<"json">>
            /\ e["bytes"] = bytes /\ DOMAIN e = K /\ e = [k \in K |-> e[k]]
        OBVIOUS
      <4> HIDE DEF e
      <4>2. \A k \in K : e[k] \in Seq(Tokens)
        BY <1>2, <3>1, <4>1
      <4> QED BY <4>1, <4>2
    <3>3. K \subseteq Tokens
      BY KeysAreTokens
    <3> HIDE DEF extra
    <3> QED BY <3>2, <3>3 DEF Extras
  <2> HIDE DEF extra
  <2>3. [event |-> "message", outcome |-> "warn", extra |-> extra(bytes)] \in Records
    <3>1. "warn" \in DOMAIN OUTCOME_TAGS
      BY DEF OUTCOME_TAGS
    <3> QED BY <2>2, <3>1 DEF Records
  <2> QED BY <2>1, <2>3
<1>5. ASSUME NEW topic \in Texts, NEW channel \in Channels, LogPacket(topic, channel)
      PROVE  \E record \in Records : Emit(record)
  <2> DEFINE K == {"topic", "channel", "encoding", "from"}
             extra(sender) == [k \in K |-> CASE k = "topic" -> topic [] k = "channel" -> channel
                                             [] k = "from" -> sender [] OTHER -> <<"json">>]
  <2>1. PICK outcome \in Outcomes, sender \in Senders :
          Emit([event |-> "message", outcome |-> outcome, extra |-> extra(sender)])
    BY <1>5 DEF LogPacket
  <2>2. extra(sender) \in Extras(Seq(Tokens))
    <3>1. topic \in Seq(Tokens) /\ channel \in Seq(Tokens) /\ sender \in Seq(Tokens)
      BY <1>1
    <3>2. extra(sender) \in [K -> Seq(Tokens)]
      BY <1>2, <3>1
    <3>3. K \subseteq Tokens
      BY KeysAreTokens
    <3> HIDE DEF extra, K
    <3> QED BY <3>2, <3>3 DEF Extras
  <2> HIDE DEF extra
  <2>3. [event |-> "message", outcome |-> outcome, extra |-> extra(sender)] \in Records
    <3>1. outcome \in DOMAIN OUTCOME_TAGS
      BY LogAssumption
    <3> QED BY <2>2, <3>1 DEF Records
  <2> QED BY <2>1, <2>3
<1> QED BY <1>3, <1>4, <1>5 DEF Next

(* The reader is between two lines, and has read what was logged, after any number of
   records. *)
THEOREM StreamIsRead == Spec => []LogInv
<1>1. Init => LogInv
  BY LogInvInit
<1>2. LogInv /\ [Next]_vars => LogInv'
  <2> SUFFICES ASSUME LogInv, [Next]_vars PROVE LogInv'
    OBVIOUS
  <2>1. CASE Next
    <3>1. PICK record \in Records : Emit(record)
      BY <2>1, NextEmits
    <3> QED BY <3>1, EmitKeepsLogInv
  <2>2. CASE UNCHANGED vars
    BY <2>2 DEF vars, LogInv, Reads, Ends
  <2> QED BY <2>1, <2>2
<1> QED BY <1>1, <1>2, PTL DEF Spec

(* log_setup.py:47: every record is one line, whatever texts publishers choose. *)
THEOREM OneLineHolds == Spec => []OneLineEach
<1>1. LogInv => OneLineEach
  BY DEF LogInv, OneLineEach, Ends
<1> QED BY <1>1, StreamIsRead, PTL

(* Every line is read back as the fields of its record, no more and no other. *)
THEOREM ReadsBackHolds == Spec => []ReadsBack
<1>1. LogInv => ReadsBack
  <2> SUFFICES ASSUME LogInv PROVE ReadsBack
    OBVIOUS
  <2> DEFINE said == [i \in DOMAIN emitted |-> Meaning(emitted[i])]
  <2>1. stream \in Seq(Tokens) /\ Reads(Start, stream, AtLine(said))
    BY DEF LogInv
  <2> HIDE DEF said
  <2>2. Read(stream) = AtLine(said)
    BY <2>1, ReadIs
  <2>3. AtLine(said).lines = said
    BY DEF AtLine, In
  <2> QED BY <2>2, <2>3 DEF ReadsBack, said
<1> QED BY <1>1, StreamIsRead, PTL
=============================================================================
