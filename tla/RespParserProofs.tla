-------------------------- MODULE RespParserProofs --------------------------
(***************************************************************************)
(* Proofs about RespParser, for every input, all limits and every width.   *)
(*                                                                         *)
(* First the operators: an integer survives its text, and a line splits    *)
(* into words of bytes.  Both are recursive functions, and what they give  *)
(* for every input is shown on a least counterexample.  The invariant then *)
(* gives the members, the ceilings and the types.  Then the refinement:    *)
(* the parser that gets its input read by read is, with the bytes still on *)
(* their way laid behind its buffer, the parser that has all of it.  A read*)
(* and a turn that waits change nothing in that view; a turn that decides  *)
(* must decide the same with more bytes behind the ones it has seen, which *)
(* is shown of the first line end and the first CRLF, of the pieces cut    *)
(* out before them and of what is left behind them.  A line over its limit *)
(* is where it takes an argument: it has not ended yet, and with more bytes*)
(* it may.                                                                 *)
(***************************************************************************)
EXTENDS ParserReads, SequenceTheorems, NaturalsInduction, WellFoundedInduction, TLAPS

Bytes == Seq(0..255)

-----------------------------------------------------------------------------
(* Searching and cutting a buffer.                                         *)

LEMMA MinIs ==
  ASSUME NEW S, S \subseteq Nat, S # {}
  PROVE  Min(S) \in S /\ \A y \in S : Min(S) <= y
  <1>. DEFINE Less == {ss \in Nat \X Nat : ss[1] < ss[2]}
  <1>1. IsWellFoundedOn(Less, Nat)
    BY NatLessThanWellFounded DEF OpToRel
  <1>2. \E x \in S : \A y \in S : <<y, x>> \notin Less
    <2>. HIDE DEF Less
    <2>. QED  BY <1>1, WFMin, Zenon
  <1>3. PICK x \in S : \A y \in S : <<y, x>> \notin Less
    BY <1>2
  <1>4. ASSUME NEW y \in S PROVE x <= y
    <2>1. x \in Nat /\ y \in Nat /\ <<y, x>> \notin Less
      BY <1>3
    <2>2. ~(y < x)
      BY <2>1
    <2>. QED  BY <2>1, <2>2
  <1>5. \E z \in S : \A y \in S : z <= y
    BY <1>4
  <1>. QED  BY <1>5 DEF Min

\* A larger set whose other members are larger has the same minimum.
LEMMA MinKept ==
  ASSUME NEW S, NEW T, T \subseteq Nat, S \subseteq T, S # {}, \A t \in T \ S : Min(S) <= t
  PROVE  Min(T) = Min(S)
  <1>1. Min(S) \in S /\ \A y \in S : Min(S) <= y
    BY MinIs
  <1>2. Min(T) \in T /\ \A y \in T : Min(T) <= y
    BY MinIs
  <1>3. Min(S) <= Min(T) /\ Min(T) <= Min(S) /\ Min(S) \in Nat /\ Min(T) \in Nat
    BY <1>1, <1>2
  <1>. QED  BY <1>3

\* SubSeq(x, n + 1, Len(x)) is what follows the first n elements.
LEMMA Rest ==
  ASSUME NEW B, NEW x \in Seq(B), NEW n \in 0..Len(x)
  PROVE  /\ SubSeq(x, n + 1, Len(x)) \in Seq(B)
         /\ Len(SubSeq(x, n + 1, Len(x))) = Len(x) - n
         /\ \A i \in 1..(Len(x) - n) : SubSeq(x, n + 1, Len(x))[i] = x[n + i]
  <1>1. Len(x) \in Nat /\ n + 1 \in 1..(Len(x) + 1) /\ Len(x) \in n..Len(x)
    OBVIOUS
  <1>. QED  BY <1>1, SubSeqProperties

LEMMA Front ==
  ASSUME NEW B, NEW x \in Seq(B), NEW m \in 1..(Len(x) + 1), NEW n \in (m - 1)..Len(x)
  PROVE  /\ SubSeq(x, m, n) \in Seq(B)
         /\ Len(SubSeq(x, m, n)) = n - m + 1
         /\ \A i \in 1..(n - m + 1) : SubSeq(x, m, n)[i] = x[m + i - 1]
  BY SubSeqProperties

Lines(x) == {i \in DOMAIN x : x[i] = LF}

LEMMA LineIn ==
  ASSUME NEW x \in Bytes, Lines(x) # {}
  PROVE  Min(Lines(x)) \in 1..Len(x) /\ x[Min(Lines(x))] = LF
  <1>1. Lines(x) \subseteq 1..Len(x) /\ Lines(x) \subseteq Nat
    BY DEF Lines, Bytes
  <1>2. Min(Lines(x)) \in Lines(x)
    BY <1>1, MinIs
  <1>. QED  BY <1>1, <1>2 DEF Lines

LEMMA CrlfIn ==
  ASSUME NEW x \in Bytes, Crlfs(x) # {}
  PROVE  Min(Crlfs(x)) \in 1..(Len(x) - 1) /\ x[Min(Crlfs(x))] = CR
  <1>1. Crlfs(x) \subseteq 1..(Len(x) - 1) /\ Crlfs(x) \subseteq Nat
    BY DEF Crlfs, Bytes
  <1>2. Min(Crlfs(x)) \in Crlfs(x)
    BY <1>1, MinIs
  <1>. QED  BY <1>1, <1>2 DEF Crlfs

\* string_to_int64 yields integers, and refuses a text that is too long.
LEMMA Numbers ==
  ASSUME NEW p
  PROVE  /\ StringToInt64(p) \subseteq Int
         /\ StringToInt64(p) # {} => Len(p) \in 1..MaxDigits
  BY RespAssumption DEF StringToInt64

-----------------------------------------------------------------------------
(* Integers as text.  format_int and string_to_int64 are inverse: by least *)
(* counterexample, the accumulator has read u when it is behind the digits *)
(* of u, because before the last of them it had read u \div 10.            *)

IsText(text, v) ==
  text = [u \in 0..v |-> IF u = 0 THEN <<>> ELSE Append(text[u \div 10], Zero + (u % 10))]

IsRead(read, p, negative, n) ==
  read = [i \in 0..n |->
            IF i = 0 \/ (i = 1 /\ negative) THEN {0} ELSE TakeDigit(read[i - 1], p[i])]

LEMMA TextExists ==
  ASSUME NEW v \in Nat
  PROVE  \E t : IsText(t, v)
  <1>. DEFINE bad == {m \in Nat : ~\E t : IsText(t, m)}
              body(t, u) == IF u = 0 THEN <<>> ELSE Append(t[u \div 10], Zero + (u % 10))
  <1>1. CASE bad = {}
    BY <1>1
  <1>2. CASE bad # {}
    <2>1. PICK m \in bad : \A y \in bad : m <= y
      <3>1. bad \subseteq Nat
        OBVIOUS
      <3>. HIDE DEF bad
      <3>. QED  BY <1>2, <3>1, MinIs
    <2>2. m \in Nat /\ ~\E t : IsText(t, m)
      BY <2>1
    <2>3. PICK g : m # 0 => IsText(g, m - 1)
      <3>1. m # 0 => m - 1 \in Nat /\ m - 1 \notin bad
        BY <2>1, <2>2
      <3>. QED  BY <3>1
    <2>. DEFINE h == [u \in 0..m |-> IF u = m THEN body(g, u) ELSE g[u]]
    <2>4. ASSUME NEW u \in 0..m PROVE h[u] = body(h, u)
      <3>1. u # 0 => u \div 10 \in 0..m /\ u \div 10 # m
        BY <2>2
      <3>2. body(h, u) = body(g, u)
        BY <3>1
      <3>3. CASE u = m
        BY <3>2, <3>3
      <3>4. CASE u # m
        <4>1. u \in 0..(m - 1) /\ m # 0
          BY <2>2, <3>4
        <4>2. g[u] = body(g, u)
          BY <2>3, <4>1, Zenon DEF IsText
        <4>3. h[u] = g[u]
          BY <3>4
        <4>. QED  BY <3>2, <4>2, <4>3, Zenon
      <3>. QED  BY <3>3, <3>4
    <2>5. h = [u \in 0..m |-> h[u]]
      OBVIOUS
    <2>6. IsText(h, m)
      <3>. HIDE DEF h
      <3>. QED  BY <2>4, <2>5, Zenon DEF IsText
    <2>. QED  BY <2>2, <2>6
  <1>. QED  BY <1>1, <1>2

LEMMA ReadExists ==
  ASSUME NEW p, NEW negative, NEW n \in Nat
  PROVE  \E r : IsRead(r, p, negative, n)
  <1>. DEFINE bad == {m \in Nat : ~\E r : IsRead(r, p, negative, m)}
              body(r, i) == IF i = 0 \/ (i = 1 /\ negative) THEN {0} ELSE TakeDigit(r[i - 1], p[i])
  <1>1. CASE bad = {}
    BY <1>1
  <1>2. CASE bad # {}
    <2>1. PICK m \in bad : \A y \in bad : m <= y
      <3>1. bad \subseteq Nat
        OBVIOUS
      <3>. HIDE DEF bad
      <3>. QED  BY <1>2, <3>1, MinIs
    <2>2. m \in Nat /\ ~\E r : IsRead(r, p, negative, m)
      BY <2>1
    <2>3. PICK g : m # 0 => IsRead(g, p, negative, m - 1)
      <3>1. m # 0 => m - 1 \in Nat /\ m - 1 \notin bad
        BY <2>1, <2>2
      <3>. QED  BY <3>1
    <2>. DEFINE h == [i \in 0..m |-> IF i = m THEN body(g, i) ELSE g[i]]
    <2>4. ASSUME NEW i \in 0..m PROVE h[i] = body(h, i)
      <3>1. i # 0 => i - 1 \in 0..m /\ i - 1 # m
        BY <2>2
      <3>2. i # 0 => h[i - 1] = g[i - 1]
        BY <3>1
      <3>3. body(h, i) = body(g, i)
        <4>. HIDE DEF h
        <4>1. CASE i = 0
          BY <4>1, Zenon
        <4>2. CASE i # 0
          BY <3>2, <4>2, Zenon
        <4>. QED  BY <4>1, <4>2
      <3>4. CASE i = m
        BY <3>3, <3>4
      <3>5. CASE i # m
        <4>1. i \in 0..(m - 1) /\ m # 0
          BY <2>2, <3>5
        <4>2. g[i] = body(g, i)
          BY <2>3, <4>1, Zenon DEF IsRead
        <4>3. h[i] = g[i]
          BY <3>5
        <4>. QED  BY <3>3, <4>2, <4>3, Zenon
      <3>. QED  BY <3>4, <3>5
    <2>5. h = [i \in 0..m |-> h[i]]
      OBVIOUS
    <2>6. IsRead(h, p, negative, m)
      <3>. HIDE DEF h
      <3>. QED  BY <2>4, <2>5, Zenon DEF IsRead
    <2>. QED  BY <2>2, <2>6
  <1>. QED  BY <1>1, <1>2

\* The text of a number is digits, at least one unless the number is 0.
LEMMA TextDigits ==
  ASSUME NEW v \in Nat, NEW t, IsText(t, v)
  PROVE  /\ \A u \in 0..v : t[u] \in Seq(Digits)
         /\ t[0] = <<>>
         /\ \A u \in 1..v : /\ u \div 10 \in 0..v /\ u \div 10 < u
                            /\ t[u] = Append(t[u \div 10], Zero + (u % 10))
  <1>1. \A u \in 0..v : t[u] = IF u = 0 THEN <<>> ELSE Append(t[u \div 10], Zero + (u % 10))
    BY Zenon DEF IsText
  <1>2. t[0] = <<>>
    <2>1. 0 \in 0..v
      OBVIOUS
    <2>. QED  BY <1>1, <2>1, Zenon
  <1>3. ASSUME NEW u \in 1..v
        PROVE  /\ u \div 10 \in 0..v /\ u \div 10 < u
               /\ t[u] = Append(t[u \div 10], Zero + (u % 10))
    <2>1. u \in 0..v /\ u # 0 /\ u \div 10 \in 0..v /\ u \div 10 < u
      OBVIOUS
    <2>. QED  BY <1>1, <2>1, Zenon
  <1>. DEFINE bad == {u \in 0..v : t[u] \notin Seq(Digits)}
  <1>4. CASE bad # {}
    <2>1. PICK u \in bad : \A y \in bad : u <= y
      <3>1. bad \subseteq Nat
        OBVIOUS
      <3>. HIDE DEF bad
      <3>. QED  BY <1>4, <3>1, MinIs
    <2>2. u \in 1..v /\ t[u] \notin Seq(Digits)
      <3>1. u \in 0..v /\ t[u] \notin Seq(Digits) /\ <<>> \in Seq(Digits)
        BY <2>1
      <3>2. u # 0
        BY <1>2, <3>1, Zenon
      <3>. QED  BY <3>1, <3>2
    <2>3. u \div 10 \notin bad /\ u \div 10 \in 0..v
      BY <1>3, <2>1, <2>2
    <2>4. t[u \div 10] \in Seq(Digits)
      BY <2>3
    <2>5. Zero + (u % 10) \in Digits
      BY <2>2 DEF Digits, Zero
    <2>6. Append(t[u \div 10], Zero + (u % 10)) \in Seq(Digits)
      BY ONLY <2>4, <2>5, AppendProperties
    <2>. QED  BY <1>3, <2>2, <2>6, Zenon
  <1>. QED  BY <1>2, <1>3, <1>4, Zenon

\* One more digit of a number that fits the unsigned accumulator.
LEMMA OneDigit ==
  ASSUME NEW u \in Nat, u <= UIntMax
  PROVE  TakeDigit({u \div 10}, Zero + (u % 10)) = {u}
  <1>. DEFINE w == u \div 10
              d == u % 10
              c == Zero + d
  <1>1. /\ w \in Nat /\ d \in 0..9 /\ u = w * 10 + d
    OBVIOUS
  <1>2. c \in Digits /\ DigitValue(c) = d
    BY <1>1 DEF Digits, DigitValue, Zero
  <1>3. w <= (UIntMax - d) \div 10
    BY <1>1, RespAssumption DEF UIntMax
  <1>. HIDE DEF w, d, c
  <1>4. TakeDigit({w}, c) = {w * 10 + d}
    BY <1>2, <1>3 DEF TakeDigit
  <1>. QED  BY <1>1, <1>4 DEF w, c, d

\* Of the n bytes of p, which r reads, all behind the sign, if there is one, are the
\* digits of v.
Spells(r, p, n, negative, k, t, v) ==
  /\ IsRead(r, p, negative, n)
  /\ v \in Nat /\ v <= UIntMax /\ IsText(t, v)
  /\ negative \in BOOLEAN /\ k = (IF negative THEN 1 ELSE 0)
  /\ n \in Nat /\ n = k + Len(t[v])
  /\ \A j \in 1..Len(t[v]) : p[k + j] = t[v][j]

\* Behind the digits of u, u has been read.
LEMMA TextRead ==
  ASSUME NEW r, NEW p, NEW n, NEW negative, NEW k, NEW t, NEW v,
         Spells(r, p, n, negative, k, t, v)
  PROVE  r[n] = {v}
  <1>0. /\ IsRead(r, p, negative, n)
        /\ v \in Nat /\ v <= UIntMax /\ IsText(t, v)
        /\ negative \in BOOLEAN /\ k = (IF negative THEN 1 ELSE 0)
        /\ n \in Nat /\ n = k + Len(t[v])
        /\ \A j \in 1..Len(t[v]) : p[k + j] = t[v][j]
    BY Zenon DEF Spells
  <1>. DEFINE Stands(u) == /\ k + Len(t[u]) <= n
                           /\ \A j \in 1..Len(t[u]) : p[k + j] = t[u][j]
              bad == {u \in 0..v : Stands(u) /\ r[k + Len(t[u])] # {u}}
  <1>1. /\ \A u \in 0..v : t[u] \in Seq(Digits)
        /\ t[0] = <<>>
        /\ \A u \in 1..v : /\ u \div 10 \in 0..v /\ u \div 10 < u
                           /\ t[u] = Append(t[u \div 10], Zero + (u % 10))
    BY <1>0, TextDigits
  <1>2. \A i \in 0..n : r[i] = IF i = 0 \/ (i = 1 /\ negative) THEN {0}
                               ELSE TakeDigit(r[i - 1], p[i])
    BY <1>0, Zenon DEF IsRead
  <1>3. k \in {0, 1} /\ v \in 0..v /\ v \in Nat /\ n \in Nat
    <2>1. k \in {0, 1}
      BY <1>0, Zenon
    <2>2. v \in Nat /\ n \in Nat
      BY <1>0, Zenon
    <2>. QED  BY ONLY <2>1, <2>2
  <1>4. CASE bad # {}
    <2>1. PICK u \in bad : \A y \in bad : u <= y
      <3>1. bad \subseteq Nat
        <4>1. bad \subseteq 0..v
          BY Zenon
        <4>. QED  BY ONLY <1>3, <4>1
      <3>. HIDE DEF bad
      <3>. QED  BY <1>4, <3>1, MinIs
    <2>2. u \in 0..v /\ Stands(u) /\ r[k + Len(t[u])] # {u}
      BY <2>1
    <2>. HIDE DEF Stands
    <2>3. CASE u = 0
      <3>1. Len(t[u]) = 0 /\ k + Len(t[u]) = k /\ k \in 0..n
        <4>1. Len(t[u]) = 0
          BY <1>1, <2>3
        <4>2. k + 0 <= n
          BY <2>2, <4>1, Zenon DEF Stands
        <4>3. k + 0 = k /\ k \in 0..n
          BY ONLY <1>3, <4>2
        <4>. QED  BY <4>1, <4>3, Zenon
      <3>2. r[k] = {0}
        <4>1. k = 0 \/ (k = 1 /\ negative)
          BY <1>0, Zenon
        <4>. QED  BY <1>2, <3>1, <4>1, Zenon
      <3>. QED  BY <2>2, <2>3, <3>1, <3>2
    <2>4. CASE u # 0
      <3>. DEFINE w == u \div 10
                  c == Zero + (u % 10)
                  l == Len(t[w])
      <3>1. u \in 1..v /\ u \in Nat /\ u <= UIntMax
        BY <1>0, <2>2, <2>4, RespAssumption DEF UIntMax
      <3>2. w \in 0..v /\ w < u /\ t[u] = Append(t[w], c) /\ t[w] \in Seq(Digits)
        BY <1>1, <3>1
      <3>. HIDE DEF w, c
      <3>3. /\ l \in Nat /\ Len(t[u]) = l + 1 /\ t[u][l + 1] = c
            /\ \A j \in 1..l : t[u][j] = t[w][j]
        <4>1. l \in Nat
          BY <3>2
        <4>2. /\ Len(Append(t[w], c)) = l + 1 /\ Append(t[w], c)[l + 1] = c
              /\ \A j \in 1..l : Append(t[w], c)[j] = t[w][j]
          BY <3>2, AppendProperties
        <4>. QED  BY <3>2, <4>1, <4>2
      <3>. HIDE DEF l
      <3>4. k + (l + 1) <= n /\ k + (l + 1) \in 0..n /\ l + 1 \in 1..Len(t[u])
        BY <1>3, <2>2, <3>3 DEF Stands
      <3>5. p[k + (l + 1)] = c
        BY <2>2, <3>3, <3>4, Zenon DEF Stands
      <3>6. Stands(w)
        <4>1. k + l <= n
          BY <1>3, <3>3, <3>4
        <4>2. ASSUME NEW j \in 1..l PROVE p[k + j] = t[w][j]
          <5>1. j \in 1..Len(t[u])
            BY <3>3
          <5>2. p[k + j] = t[u][j]
            BY <2>2, <5>1, Zenon DEF Stands
          <5>. QED  BY <3>3, <5>2
        <4>. QED  BY <4>1, <4>2 DEF Stands, l
      <3>7. r[k + l] = {w}
        <4>1. w \notin bad
          <5>. HIDE DEF bad
          <5>. QED  BY <2>1, <3>1, <3>2
        <4>. QED  BY <3>2, <3>6, <4>1 DEF l
      <3>8. r[k + (l + 1)] = TakeDigit(r[k + l], c)
        <4>. DEFINE i == k + (l + 1)
        <4>1. i \in 0..n /\ ~(i = 0 \/ (i = 1 /\ negative)) /\ i - 1 = k + l
          BY <1>0, <1>3, <3>3, <3>4
        <4>. HIDE DEF i
        <4>2. r[i] = TakeDigit(r[i - 1], p[i])
          BY <1>2, <4>1, Zenon
        <4>. QED  BY <3>5, <4>1, <4>2 DEF i
      <3>9. r[k + (l + 1)] = {u}
        BY <3>1, <3>7, <3>8, OneDigit DEF w, c
      <3>. QED  BY <2>2, <3>3, <3>9
    <2>. QED  BY <2>3, <2>4
  <1>5. CASE bad = {}
    <2>1. Stands(v)
      <3>1. Len(t[v]) \in Nat
        BY <1>1, <1>3
      <3>. QED  BY <1>0, <1>3, <3>1
    <2>. QED  BY <1>0, <1>3, <1>5, <2>1
  <1>. QED  BY <1>4, <1>5

\* format_int's negation in unsigned space: 2^w - u.
LEMMA Negated ==
  ASSUME NEW n \in IntMin..(-1)
  PROVE  UIntMax - (n % (UIntMax + 1)) + 1 = -n
  <1>. DEFINE M == UIntMax + 1
              q == n \div M
              s == n % M
  <1>1. M \in Nat /\ M > 0 /\ n \in Int /\ n < 0 /\ n + M > 0
    BY RespAssumption DEF UIntMax, IntMin
  <1>2. q \in Int /\ s \in 0..(M - 1) /\ n = M * q + s
    BY <1>1
  <1>. HIDE DEF M, q, s
  <1>3. q = -1
    <2>1. CASE q >= 0
      <3>1. M * q >= 0
        BY <1>1, <1>2, <2>1
      <3>. QED  BY <1>1, <1>2, <3>1
    <2>2. CASE q <= -2
      <3>1. M * q <= M * (-2)
        BY <1>1, <1>2, <2>2
      <3>. QED  BY <1>1, <1>2, <3>1
    <2>. QED  BY <1>2, <2>1, <2>2
  <1>4. s = n + M
    BY <1>1, <1>2, <1>3
  <1>5. UIntMax - s + 1 = M - s /\ M - s = -n
    BY <1>1, <1>2, <1>4, RespAssumption DEF M, UIntMax
  <1>. QED  BY <1>5, Zenon DEF M, s

Negative(p) == p # <<>> /\ p[1] = Minus

LEMMA StringIs ==
  ASSUME NEW p \in Seq(Int), Len(p) \in 1..MaxDigits, p # <<Minus>>, NEW v \in Nat,
         v <= IF Negative(p) THEN IntMax + 1 ELSE IntMax,
         \A r : IsRead(r, p, Negative(p), Len(p)) => r[Len(p)] = {v}
  PROVE  StringToInt64(p) = {IF Negative(p) THEN -v ELSE v}
  <1>. DEFINE r == CHOOSE g : IsRead(g, p, Negative(p), Len(p))
              limit == IF Negative(p) THEN IntMax + 1 ELSE IntMax
  <1>1. IsRead(r, p, Negative(p), Len(p))
    <2>1. \E g : IsRead(g, p, Negative(p), Len(p))
      <3>1. Len(p) \in Nat
        OBVIOUS
      <3>. QED  BY <3>1, ReadExists
    <2>. QED  BY <2>1, Zenon
  <1>2. StringToInt64(p) = {IF Negative(p) THEN -u ELSE u : u \in r[Len(p)] \cap (0..limit)}
    BY DEF StringToInt64, IsRead, Negative
  <1>. HIDE DEF r
  <1>3. r[Len(p)] = {v}
    BY <1>1
  <1>4. v \in 0..limit
    BY RespAssumption
  <1>. HIDE DEF limit
  <1>5. r[Len(p)] \cap (0..limit) = {v}
    BY <1>3, <1>4, Zenon
  <1>. QED  BY <1>2, <1>5, Zenon

LEMMA ZeroRead == 
  ASSUME MaxDigits >= 1
  PROVE  StringToInt64(<<Zero>>) = {0}
  <1>. DEFINE p == <<Zero>>
  <1>1. p \in Seq(Int) /\ Len(p) = 1 /\ p[1] = Zero /\ p # <<Minus>> /\ ~Negative(p)
    BY DEF Zero, Minus, Negative
  <1>2. ASSUME NEW r, IsRead(r, p, Negative(p), Len(p)) PROVE r[1] = {0}
    <2>1. \A i \in 0..1 : r[i] = IF i = 0 \/ (i = 1 /\ Negative(p)) THEN {0}
                                 ELSE TakeDigit(r[i - 1], p[i])
      <3>. HIDE DEF p
      <3>. QED  BY <1>1, <1>2, Zenon DEF IsRead
    <2>. HIDE DEF p
    <2>2. r[0] = {0} /\ r[1] = TakeDigit(r[0], Zero)
      BY <1>1, <2>1
    <2>3. 0 \div 10 = 0 /\ Zero + (0 % 10) = Zero /\ 0 <= UIntMax
      BY RespAssumption DEF Zero, UIntMax
    <2>4. TakeDigit({0 \div 10}, Zero + (0 % 10)) = {0}
      BY <2>3, OneDigit
    <2>. QED  BY <2>2, <2>3, <2>4
  <1>3. Len(p) \in 1..MaxDigits /\ 0 <= IF Negative(p) THEN IntMax + 1 ELSE IntMax
    BY <1>1, RespAssumption
  <1>. HIDE DEF p
  <1>4. StringToInt64(p) = {IF Negative(p) THEN -0 ELSE 0}
    BY <1>1, <1>2, <1>3, StringIs
  <1>. QED  BY <1>1, <1>4 DEF p

LEMMA PlusText ==
  ASSUME NEW w \in Seq(Digits), Len(w) >= 1
  PROVE  <<>> \o w = w /\ w \in Seq(Int) /\ w # <<Minus>> /\ ~Negative(w)
  <1>1. w \in Seq(Int) /\ w[1] \in Digits /\ Minus \notin Digits
    BY DEF Digits, Zero, Minus
  <1>2. <<>> \o w = w
    BY <1>1
  <1>. QED  BY <1>1, <1>2 DEF Negative

LEMMA MinusText ==
  ASSUME NEW w \in Seq(Digits), Len(w) >= 1, NEW p, p = <<Minus>> \o w
  PROVE  /\ p \in Seq(Int) /\ Len(p) = 1 + Len(w) /\ p # <<Minus>> /\ Negative(p)
         /\ \A j \in 1..Len(w) : p[1 + j] = w[j]
  <1>1. w \in Seq(Int) /\ Minus \in Int
    <2>1. w \in Seq(Int)
      BY PlusText, Zenon
    <2>2. Minus \in Int
      BY ONLY DEF Minus
    <2>. QED  BY <2>1, <2>2
  <1>2. p \in Seq(Int) /\ Len(p) = 1 + Len(w)
    BY <1>1
  <1>3. p[1] = Minus /\ \A j \in 1..Len(w) : p[1 + j] = w[j]
    <2>. DEFINE m == <<Minus>>
    <2>1. m \in Seq(Int) /\ Len(m) = 1 /\ m[1] = Minus
      BY <1>1
    <2>. HIDE DEF m
    <2>2. p = m \o w
      BY DEF m
    <2>. QED  BY <1>1, <2>1, <2>2
  <1>4. p # <<Minus>> /\ p # <<>>
    <2>1. Len(w) \in Nat /\ Len(<<Minus>>) = 1 /\ Len(<<>>) = 0
      OBVIOUS
    <2>2. Len(p) # 1 /\ Len(p) # 0
      BY ONLY <1>2, <2>1, Len(w) >= 1
    <2>. QED  BY ONLY <2>1, <2>2, Zenon
  <1>. QED  BY <1>2, <1>3, <1>4 DEF Negative

\* An integer survives format_int and string_to_int64, for every width: both ends of the
\* range, where the negation and the accumulator could overflow, included.  (MaxDigits,
\* the 20 that string_to_int64 accepts, must suffice for the text.)
THEOREM IntegersRoundTrip ==
  \A n \in IntMin..IntMax : Len(FormatInt(n)) <= MaxDigits => StringToInt64(FormatInt(n)) = {n}
  <1>. SUFFICES ASSUME NEW n \in IntMin..IntMax, Len(FormatInt(n)) <= MaxDigits
                PROVE  StringToInt64(FormatInt(n)) = {n}
    OBVIOUS
  <1>1. n \in Int /\ IntMin \in Int /\ IntMax \in Nat /\ MaxDigits \in Nat /\ UIntMax \in Nat
    BY RespAssumption DEF IntMin, UIntMax
  <1>2. CASE n = 0
    <2>1. FormatInt(n) = <<Zero>> /\ Len(<<Zero>>) = 1
      BY <1>2 DEF FormatInt
    <2>. QED  BY <1>1, <1>2, <2>1, ZeroRead
  <1>3. CASE n # 0
    <2>. DEFINE v == IF n < 0 THEN -n ELSE n
                t == CHOOSE g : IsText(g, v)
    <2>1. v \in Nat /\ v # 0 /\ v \in 1..v /\ v <= UIntMax
          /\ v <= IF n < 0 THEN IntMax + 1 ELSE IntMax
      BY <1>1, <1>3 DEF IntMin, UIntMax
    <2>2. v = IF n < 0 THEN UIntMax - (n % (UIntMax + 1)) + 1 ELSE n
      <3>1. n < 0 => n \in IntMin..(-1)
        BY <1>1
      <3>. QED  BY <3>1, Negated
    <2>. HIDE DEF v
    <2>3. FormatInt(n) = (IF n < 0 THEN <<Minus>> ELSE <<>>) \o t[v]
      BY <1>3, <2>2 DEF FormatInt, IsText
    <2>4. IsText(t, v)
      BY <2>1, TextExists
    <2>. HIDE DEF t
    <2>5. t[v] \in Seq(Digits) /\ Len(t[v]) >= 1 /\ Len(t[v]) \in Nat
      <3>1. t[v] \in Seq(Digits) /\ t[v \div 10] \in Seq(Digits)
            /\ t[v] = Append(t[v \div 10], Zero + (v % 10))
        BY <2>1, <2>4, TextDigits
      <3>. QED  BY <3>1
    <2>6. CASE n < 0
      <3>. DEFINE p == <<Minus>> \o t[v]
      <3>1. FormatInt(n) = p
        BY <2>3, <2>6
      <3>2. /\ p \in Seq(Int) /\ Len(p) = 1 + Len(t[v]) /\ p # <<Minus>> /\ Negative(p)
            /\ \A j \in 1..Len(t[v]) : p[1 + j] = t[v][j]
        BY <2>5, MinusText
      <3>. HIDE DEF p
      <3>3. Len(p) \in Nat /\ Len(p) \in 1..MaxDigits
        BY <1>1, <2>5, <3>1, <3>2
      <3>4. ASSUME NEW r, IsRead(r, p, TRUE, Len(p)) PROVE r[Len(p)] = {v}
        <4>1. Spells(r, p, Len(p), TRUE, 1, t, v)
          BY <2>1, <2>4, <3>2, <3>3, <3>4 DEF Spells
        <4>. QED  BY ONLY <4>1, TextRead, Zenon
      <3>5. Negative(p) = TRUE
        BY <3>2 DEF Negative
      <3>6. StringToInt64(p) = {-v}
        <4>1. v <= IF Negative(p) THEN IntMax + 1 ELSE IntMax
          BY <2>1, <2>6, <3>5
        <4>2. \A r : IsRead(r, p, Negative(p), Len(p)) => r[Len(p)] = {v}
          BY <3>4, <3>5, Zenon
        <4>3. StringToInt64(p) = {IF Negative(p) THEN -v ELSE v}
          BY <2>1, <3>2, <3>3, <4>1, <4>2, StringIs, Zenon
        <4>. QED  BY <3>5, <4>3, Zenon
      <3>. QED  BY <1>1, <2>6, <3>1, <3>6 DEF v
    <2>7. CASE ~(n < 0)
      <3>. DEFINE p == t[v]
      <3>1. FormatInt(n) = p /\ p \in Seq(Int) /\ p # <<Minus>> /\ ~Negative(p)
        BY <2>3, <2>5, <2>7, PlusText
      <3>2. Len(p) \in Nat /\ Len(p) \in 1..MaxDigits
        BY <1>1, <2>5, <3>1
      <3>3. ASSUME NEW r, IsRead(r, p, FALSE, Len(p)) PROVE r[Len(p)] = {v}
        <4>1. Len(p) = 0 + Len(t[v]) /\ \A j \in 1..Len(t[v]) : p[0 + j] = t[v][j]
          BY <2>5
        <4>. HIDE DEF p
        <4>2. Spells(r, p, Len(p), FALSE, 0, t, v)
          BY <2>1, <2>4, <3>2, <3>3, <4>1 DEF Spells
        <4>. QED  BY ONLY <4>2, TextRead, Zenon
      <3>. HIDE DEF p
      <3>4. Negative(p) = FALSE
        BY <3>1 DEF Negative
      <3>5. StringToInt64(p) = {v}
        <4>1. v <= IF Negative(p) THEN IntMax + 1 ELSE IntMax
          BY <2>1, <2>7, <3>4
        <4>2. \A r : IsRead(r, p, Negative(p), Len(p)) => r[Len(p)] = {v}
          BY <3>3, <3>4, Zenon
        <4>3. StringToInt64(p) = {IF Negative(p) THEN -v ELSE v}
          BY <2>1, <3>1, <3>2, <4>1, <4>2, StringIs, Zenon
        <4>. QED  BY <3>4, <4>3, Zenon
      <3>. QED  BY <1>1, <2>7, <3>1, <3>5 DEF v
    <2>. QED  BY <2>6, <2>7
  <1>. QED  BY <1>2, <1>3

-----------------------------------------------------------------------------
(* The words of a line.  What InWord and InGap say at a position depends on*)
(* the later positions only, so that the recursive function of SplitInline *)
(* exists; and at no position is it anything but lists of byte strings.    *)

Argvs == Seq(Bytes)
Inner == {"bare", "double", "single"}
Row(p, words, i) ==
  [mode \in {"gap", "bare", "double", "single"} |->
     IF mode = "gap" THEN InGap(p, words, i) ELSE InWord(p, words, mode, i)]

IsWords(words, p, first) == words = [i \in first..(Len(p) + 1) |-> Row(p, words, i)]

LEMMA SameLater ==
  ASSUME NEW p \in Bytes, NEW i \in 1..(Len(p) + 1), NEW u, NEW w,
         \A j \in (i + 1)..(Len(p) + 1) : u[j] = w[j]
  PROVE  Row(p, u, i) = Row(p, w, i)
  <1>1. Len(p) \in Nat
    BY DEF Bytes
  <1>2. ASSUME NEW mode PROVE InWord(p, u, mode, i) = InWord(p, w, mode, i)
    <2>1. CASE i <= Len(p)
      <3>1. /\ u[i + 1] = w[i + 1]
            /\ i < Len(p) => u[i + 2] = w[i + 2]
            /\ i + 3 <= Len(p) => u[i + 4] = w[i + 4]
        BY <1>1, <2>1
      <3>2. ~(i > Len(p))
        BY <1>1, <2>1
      <3>. QED  BY <3>1, <3>2 DEF InWord
    <2>2. CASE i > Len(p)
      <3>1. ~(i <= Len(p))
        BY <1>1, <2>2
      <3>. QED  BY <2>2, <3>1 DEF InWord
    <2>. QED  BY <1>1, <2>1, <2>2
  <1>3. InGap(p, u, i) = InGap(p, w, i)
    <2>1. ~(i > Len(p)) => u[i + 1] = w[i + 1]
      BY <1>1
    <2>. QED  BY <1>2, <2>1 DEF InGap
  <1>. QED  BY <1>2, <1>3, Zenon DEF Row

LEMMA WordsExist ==
  ASSUME NEW p \in Bytes
  PROVE  \E w : IsWords(w, p, 1)
  <1>. DEFINE last == Len(p) + 1
              bad == {k \in 0..(last - 1) : ~\E w : IsWords(w, p, last - k)}
  <1>1. last \in Nat /\ last - 1 \in Nat /\ bad \subseteq Nat
    BY DEF Bytes
  <1>2. CASE bad = {}
    <2>1. last - 1 \in 0..(last - 1) /\ last - (last - 1) = 1
      BY <1>1
    <2>. QED  BY <1>2, <2>1
  <1>3. CASE bad # {}
    <2>1. PICK k \in bad : \A y \in bad : k <= y
      <3>. HIDE DEF bad
      <3>. QED  BY <1>1, <1>3, MinIs
    <2>. DEFINE first == last - k
    <2>2. k \in 0..(last - 1) /\ ~\E w : IsWords(w, p, first) /\ first \in 1..last
      BY <1>1, <2>1
    <2>3. PICK g : first # last => IsWords(g, p, first + 1)
      <3>1. first # last => k - 1 \in 0..(last - 1) /\ k - 1 \notin bad /\ last - (k - 1) = first + 1
        BY <1>1, <2>1, <2>2
      <3>. QED  BY <3>1
    <2>. DEFINE h == [i \in first..last |-> IF i = first THEN Row(p, g, i) ELSE g[i]]
    <2>4. \A i \in (first + 1)..last : i \in first..last /\ h[i] = g[i] /\ g[i] = Row(p, g, i)
      <3>. SUFFICES ASSUME NEW i \in (first + 1)..last
                    PROVE  i \in first..last /\ h[i] = g[i] /\ g[i] = Row(p, g, i)
        OBVIOUS
      <3>1. i \in first..last /\ i # first /\ first # last
        BY <1>1, <2>2
      <3>2. g[i] = Row(p, g, i)
        BY <2>3, <3>1, Zenon DEF IsWords
      <3>. QED  BY <3>1, <3>2
    <2>5. ASSUME NEW i \in first..last PROVE h[i] = Row(p, h, i)
      <3>1. i \in 1..last /\ \A j \in (i + 1)..last : j \in (first + 1)..last
        BY <1>1, <2>2
      <3>2. Row(p, h, i) = Row(p, g, i)
        <4>1. \A j \in (i + 1)..last : h[j] = g[j]
          BY <2>4, <3>1
        <4>. HIDE DEF h
        <4>. QED  BY <3>1, <4>1, SameLater
      <3>3. CASE i = first
        BY <3>2, <3>3
      <3>4. CASE i # first
        <4>1. i \in (first + 1)..last
          BY <1>1, <2>2, <3>4
        <4>. QED  BY <2>4, <3>2, <4>1
      <3>. QED  BY <3>3, <3>4, Zenon
    <2>6. h = [i \in first..last |-> h[i]]
      OBVIOUS
    <2>7. IsWords(h, p, first)
      <3>. HIDE DEF h, first
      <3>. QED  BY <2>5, <2>6, Zenon DEF IsWords
    <2>. QED  BY <2>2, <2>7
  <1>. QED  BY <1>2, <1>3

LEMMA WithType ==
  ASSUME NEW c \in 0..255, NEW ws \in Argvs \ {<<>>}
  PROVE  <<<<c>> \o Head(ws)>> \o Tail(ws) \in Argvs \ {<<>>}
  <1>1. Head(ws) \in Bytes /\ Tail(ws) \in Argvs
    BY HeadTailProperties DEF Argvs
  <1>2. <<c>> \o Head(ws) \in Bytes
    BY <1>1 DEF Bytes
  <1>. DEFINE v == <<c>> \o Head(ws)
  <1>. HIDE DEF v
  <1>3. <<v>> \o Tail(ws) \in Argvs /\ Len(<<v>> \o Tail(ws)) # 0
    BY <1>1, <1>2 DEF Argvs, v
  <1>. QED  BY <1>3 DEF v

LEMMA EndType ==
  ASSUME NEW ws \in Argvs
  PROVE  <<<<>>>> \o ws \in Argvs \ {<<>>}
  <1>1. <<>> \in Bytes
    BY DEF Bytes
  <1>2. <<<<>>>> \o ws \in Argvs /\ Len(<<<<>>>> \o ws) # 0
    BY <1>1 DEF Argvs
  <1>. QED  BY <1>2

\* What an escape stands for is a byte.
LEMMA EscapeType ==
  ASSUME NEW c \in 0..255
  PROVE  Escaped(c) \in 0..255
  BY DEF Escaped, LF, CR

LEMMA HexType ==
  ASSUME NEW c \in 0..255, NEW d \in 0..255, IsHex(c), IsHex(d)
  PROVE  HexValue(c) * 16 + HexValue(d) \in 0..255
  <1>1. ASSUME NEW x \in 0..255, IsHex(x) PROVE HexValue(x) \in 0..15
    BY <1>1 DEF IsHex, HexValue, Digits, DigitValue, Zero
  <1>2. HexValue(c) \in 0..15 /\ HexValue(d) \in 0..15
    BY <1>1
  <1>. QED  BY <1>2

\* What is left at a position: some words, and inside a word at least one.
Typed(words, i) ==
  /\ words[i]["gap"] \subseteq Argvs
  /\ \A mode \in Inner : words[i][mode] \subseteq Argvs \ {<<>>}

LEMMA InWordType ==
  ASSUME NEW p \in Bytes, NEW i \in 1..(Len(p) + 1), NEW w, NEW mode \in Inner,
         \A j \in (i + 1)..(Len(p) + 1) : Typed(w, j)
  PROVE  InWord(p, w, mode, i) \subseteq Argvs \ {<<>>}
  <1>. DEFINE n == Len(p)
              Some == Argvs \ {<<>>}
  <1>1. n \in Nat /\ \A j \in 1..n : p[j] \in 0..255
    BY ElementOfSeq DEF Bytes
  <1>2. ASSUME NEW c \in 0..255, NEW j \in (i + 1)..(n + 1), NEW m \in Inner
        PROVE  WithByte(c, w[j][m]) \subseteq Some
    <2>1. w[j][m] \subseteq Some
      BY DEF Typed
    <2>. QED  BY <2>1, WithType DEF WithByte
  <1>3. ASSUME NEW j \in (i + 1)..(n + 1) PROVE EndWord(w[j]["gap"]) \subseteq Some
    <2>1. w[j]["gap"] \subseteq Argvs
      BY DEF Typed
    <2>. QED  BY <2>1, EndType DEF EndWord
  <1>4. ASSUME NEW j \in (i + 1)..(n + 1), NEW m \in Inner PROVE w[j][m] \subseteq Some
    BY DEF Typed
  <1>5. CASE i > n
    <2>1. ~(i <= n)
      BY <1>1, <1>5
    <2>2. <<<<>>>> \in Some
      BY DEF Argvs, Bytes
    <2>. QED  BY <1>5, <2>1, <2>2 DEF InWord, Inner
  <1>6. CASE i <= n
    <2>1. ~(i > n) /\ i \in 1..n /\ i + 1 \in (i + 1)..(n + 1) /\ p[i] \in 0..255
      BY <1>1, <1>6
    <2>2. ASSUME i < n PROVE i + 2 \in (i + 1)..(n + 1) /\ Escaped(p[i + 1]) \in 0..255
      <3>1. i + 1 \in 1..n
        BY <1>1, <2>2
      <3>2. p[i + 1] \in 0..255
        BY <1>1, <3>1
      <3>3. i + 2 \in (i + 1)..(n + 1)
        BY <1>1, <2>2
      <3>. QED  BY ONLY <3>2, <3>3, EscapeType, Zenon
    <2>3. ASSUME i + 3 <= n, IsHex(p[i + 2]), IsHex(p[i + 3])
          PROVE  /\ i + 4 \in (i + 1)..(n + 1)
                 /\ HexValue(p[i + 2]) * 16 + HexValue(p[i + 3]) \in 0..255
      <3>1. i + 2 \in 1..n /\ i + 3 \in 1..n
        BY <1>1, <2>3
      <3>2. p[i + 2] \in 0..255 /\ p[i + 3] \in 0..255
        BY <1>1, <3>1
      <3>3. i + 4 \in (i + 1)..(n + 1)
        BY <1>1, <2>3
      <3>4. HexValue(p[i + 2]) * 16 + HexValue(p[i + 3]) \in 0..255
        BY ONLY <2>3, <3>2, HexType, Zenon
      <3>. QED  BY <3>3, <3>4, Zenon
    <2>4. {} \subseteq Some /\ SingleQuote \in 0..255
      BY DEF SingleQuote
    <2>5. /\ "bare" \in Inner /\ "double" \in Inner /\ "single" \in Inner
      BY DEF Inner
    <2>6. CASE mode = "bare"
      <3>1. InWord(p, w, mode, i) \in {EndWord(w[i + 1]["gap"]), w[i + 1]["double"],
                                      w[i + 1]["single"], WithByte(p[i], w[i + 1]["bare"])}
        BY <1>6, <2>1, <2>6 DEF InWord
      <3>2. EndWord(w[i + 1]["gap"]) \subseteq Some /\ WithByte(p[i], w[i + 1]["bare"]) \subseteq Some
        BY <1>2, <1>3, <2>1, <2>5, Zenon
      <3>3. w[i + 1]["double"] \subseteq Some /\ w[i + 1]["single"] \subseteq Some
        BY <1>4, <2>1, <2>5, Zenon
      <3>. QED  BY ONLY <3>1, <3>2, <3>3, Zenon DEF Some
    <2>7. CASE mode = "double"
      <3>1. \/ InWord(p, w, mode, i) \in {{}, EndWord(w[i + 1]["gap"]),
                                         WithByte(p[i], w[i + 1]["double"])}
            \/ /\ i < n
               /\ InWord(p, w, mode, i) = WithByte(Escaped(p[i + 1]), w[i + 2]["double"])
            \/ /\ i + 3 <= n /\ IsHex(p[i + 2]) /\ IsHex(p[i + 3])
               /\ InWord(p, w, mode, i) =
                    WithByte(HexValue(p[i + 2]) * 16 + HexValue(p[i + 3]), w[i + 4]["double"])
        BY <1>6, <2>1, <2>7 DEF InWord
      <3>2. EndWord(w[i + 1]["gap"]) \subseteq Some /\ WithByte(p[i], w[i + 1]["double"]) \subseteq Some
        BY <1>2, <1>3, <2>1, <2>5, Zenon
      <3>3. i < n => WithByte(Escaped(p[i + 1]), w[i + 2]["double"]) \subseteq Some
        BY <1>2, <2>2, <2>5, Zenon
      <3>4. i + 3 <= n /\ IsHex(p[i + 2]) /\ IsHex(p[i + 3])
              => WithByte(HexValue(p[i + 2]) * 16 + HexValue(p[i + 3]), w[i + 4]["double"])
                   \subseteq Some
        BY <1>2, <2>3, <2>5, Zenon
      <3>. QED  BY ONLY <2>4, <3>1, <3>2, <3>3, <3>4, Zenon DEF Some
    <2>8. CASE mode = "single"
      <3>1. \/ InWord(p, w, mode, i) \in {{}, EndWord(w[i + 1]["gap"]),
                                         WithByte(p[i], w[i + 1]["single"])}
            \/ i < n /\ InWord(p, w, mode, i) = WithByte(SingleQuote, w[i + 2]["single"])
        BY <1>6, <2>1, <2>8 DEF InWord
      <3>2. EndWord(w[i + 1]["gap"]) \subseteq Some /\ WithByte(p[i], w[i + 1]["single"]) \subseteq Some
        BY <1>2, <1>3, <2>1, <2>5, Zenon
      <3>3. i < n => WithByte(SingleQuote, w[i + 2]["single"]) \subseteq Some
        BY <1>2, <2>2, <2>4, <2>5, Zenon
      <3>. QED  BY ONLY <2>4, <3>1, <3>2, <3>3, Zenon DEF Some
    <2>. QED  BY <2>6, <2>7, <2>8 DEF Inner
  <1>. QED  BY <1>1, <1>5, <1>6

LEMMA RowType ==
  ASSUME NEW p \in Bytes, NEW i \in 1..(Len(p) + 1), NEW w, w[i] = Row(p, w, i),
         \A j \in (i + 1)..(Len(p) + 1) : Typed(w, j)
  PROVE  Typed(w, i)
  <1>1. ASSUME NEW mode \in Inner PROVE w[i][mode] \subseteq Argvs \ {<<>>}
    <2>1. w[i][mode] = InWord(p, w, mode, i)
      BY DEF Row, Inner
    <2>. QED  BY <2>1, InWordType
  <1>2. w[i]["gap"] \subseteq Argvs
    <2>1. w[i]["gap"] = InGap(p, w, i)
      BY DEF Row
    <2>2. <<>> \in Argvs /\ InWord(p, w, "bare", i) \subseteq Argvs
      BY InWordType DEF Argvs, Inner
    <2>3. ~(i > Len(p)) => w[i + 1]["gap"] \subseteq Argvs
      <3>1. ~(i > Len(p)) => i + 1 \in (i + 1)..(Len(p) + 1)
        BY DEF Bytes
      <3>. QED  BY <3>1 DEF Typed
    <2>. QED  BY <2>1, <2>2, <2>3 DEF InGap
  <1>. QED  BY <1>1, <1>2 DEF Typed

\* split_inline makes words of bytes.
LEMMA SplitType ==
  ASSUME NEW p \in Bytes
  PROVE  SplitInline(p) \subseteq Argvs
  <1>. DEFINE last == Len(p) + 1
              w == CHOOSE u : IsWords(u, p, 1)
  <1>1. last \in Nat /\ 1 \in 1..last
    BY DEF Bytes
  <1>2. SplitInline(p) = w[1]["gap"]
    BY DEF SplitInline, IsWords, Row
  <1>3. IsWords(w, p, 1)
    BY WordsExist
  <1>. HIDE DEF w
  <1>4. \A i \in 1..last : w[i] = Row(p, w, i)
    BY <1>3, Zenon DEF IsWords
  <1>. DEFINE bad == {k \in 0..(last - 1) : ~Typed(w, last - k)}
  <1>5. CASE bad # {}
    <2>1. bad \subseteq Nat
      OBVIOUS
    <2>2. PICK k \in bad : \A y \in bad : k <= y
      <3>. HIDE DEF bad
      <3>. QED  BY <1>5, <2>1, MinIs
    <2>. DEFINE i == last - k
    <2>3. i \in 1..last /\ ~Typed(w, i) /\ k \in 0..(last - 1)
      BY <1>1, <2>2
    <2>4. ASSUME NEW j \in (i + 1)..last PROVE Typed(w, j)
      <3>1. last - j \in 0..(last - 1) /\ last - j < k /\ last - (last - j) = j
        BY <1>1, <2>3
      <3>2. last - j \notin bad
        BY <2>2, <2>3, <3>1
      <3>. QED  BY <3>1, <3>2
    <2>. HIDE DEF i
    <2>5. Typed(w, i)
      BY <1>4, <2>3, <2>4, RowType
    <2>. QED  BY <2>3, <2>5
  <1>6. CASE bad = {}
    <2>1. last - 1 \in 0..(last - 1) /\ last - (last - 1) = 1
      BY <1>1
    <2>2. Typed(w, 1)
      BY <1>6, <2>1
    <2>. QED  BY <1>2, <2>2 DEF Typed
  <1>. QED  BY <1>5, <1>6

-----------------------------------------------------------------------------
(* The invariant.                                                          *)

IInv ==
  /\ ahead \in Bytes /\ in \in Bytes
  /\ pc \in {"rest", "read", "parse", "failed"}
  /\ Members
  /\ HeldBounded

Ceiling == Max({MaxInline, MaxHeader, MaxBulk + 1})

LEMMA CeilingIs ==
  /\ Ceiling \in Nat
  /\ MaxInline <= Ceiling /\ MaxHeader <= Ceiling /\ MaxBulk + 1 <= Ceiling
  <1>. DEFINE S == {MaxInline, MaxHeader, MaxBulk + 1}
  <1>1. MaxInline \in Nat /\ MaxHeader \in Nat /\ MaxBulk \in Nat
    BY ParserAssumption, RespAssumption
  <1>2. \E x \in S : \A y \in S : x >= y
    BY <1>1
  <1>3. Max(S) \in S /\ \A y \in S : Max(S) >= y
    <2>. HIDE DEF S
    <2>. QED  BY <1>2 DEF Max
  <1>. QED  BY <1>1, <1>3 DEF Ceiling

\* What a turn leaves in the buffer when it takes n bytes from it.
LEMMA AfterIs ==
  ASSUME in \in Bytes, NEW n \in 0..Len(in)
  PROVE  After(n) \in Bytes
  BY Rest DEF After, Bytes

LEMMA LineTaken ==
  ASSUME in \in Bytes
  PROVE  /\ Newlines # {} => LineEnd \in 1..Len(in)
         /\ Crlfs(in) # {} => LineLen \in 0..(Len(in) - 2)
  <1>1. Newlines = Lines(in) /\ Len(in) \in Nat
    BY DEF Newlines, Lines, Bytes
  <1>2. ASSUME Newlines # {} PROVE LineEnd \in 1..Len(in)
    BY <1>1, <1>2, LineIn DEF LineEnd
  <1>3. ASSUME Crlfs(in) # {} PROVE LineLen \in 0..(Len(in) - 2)
    <2>1. Min(Crlfs(in)) \in 1..(Len(in) - 1)
      BY <1>3, CrlfIn
    <2>. QED  BY <1>1, <2>1 DEF LineLen
  <1>. QED  BY <1>2, <1>3

LEMMA InitInv == Init => IInv
  <1>. SUFFICES ASSUME Init PROVE IInv
    OBVIOUS
  <1>1. Len(in) = 0 /\ Len(argv_) = 0 /\ MaxArgs \in Nat
    BY ParserAssumption, RespAssumption DEF Init
  <1>. QED  BY <1>1, CeilingIs DEF Init, IInv, Members, HeldBounded, Ceiling, Bytes

\* A parser that is reset, in whatever state, is where it was at the start.
LEMMA ResetInv ==
  ASSUME Reset
  PROVE  Members' /\ Len(argv_)' + args_remaining_' <= MaxArgs
  BY ParserAssumption, RespAssumption DEF Reset, Members

\* The turns that wait, and what they have seen when they do.
LEMMA WaitInv ==
  ASSUME IInv, StartEmpty \/ InlineIncomplete \/ HeaderIncomplete \/ DataIncomplete
  PROVE  IInv'
  <1>1. Incomplete /\ Len(in) \in Nat
    BY DEF StartEmpty, InlineIncomplete, HeaderIncomplete, DataIncomplete, IInv, Bytes
  <1>2. Len(in) <= Ceiling
    <2>1. CASE StartEmpty
      BY <2>1, CeilingIs DEF StartEmpty
    <2>2. CASE InlineIncomplete
      BY <1>1, <2>2, CeilingIs, ParserAssumption DEF InlineIncomplete, InlineFits
    <2>3. CASE HeaderIncomplete
      BY <1>1, <2>3, CeilingIs, ParserAssumption DEF HeaderIncomplete, HeaderFits
    <2>4. CASE DataIncomplete
      <3>1. arg_len_ \in 0..MaxBulk /\ MaxBulk \in Nat
        BY <2>4, ParserAssumption, RespAssumption DEF DataIncomplete, Parsing, IInv, Members
      <3>. QED  BY <1>1, <2>4, <3>1, CeilingIs DEF DataIncomplete, Whole
    <2>. QED  BY <2>1, <2>2, <2>3, <2>4
  <1>. QED  BY <1>1, <1>2 DEF Incomplete, parser, IInv, Members, HeldBounded, Ceiling

\* The turns that fail or complete a command reset the parser and leave the rest.
LEMMA ResetTurnInv ==
  ASSUME IInv, NEW rest \in Bytes, pc = "parse",
         Fail(rest) \/ \E args : Complete(args, rest)
  PROVE  IInv'
  <1>1. Members' /\ Len(argv_)' + args_remaining_' <= MaxArgs
    BY ResetInv DEF Fail, Complete
  <1>2. ahead' \in Bytes /\ in' \in Bytes /\ pc' \in {"parse", "failed"}
    BY DEF IInv, Fail, Complete
  <1>. QED  BY <1>1, <1>2 DEF IInv, HeldBounded

LEMMA FailsOrCompletes ==
  ASSUME IInv,
         \/ InlineTooBig \/ InlineUnbalanced \/ InlineCommand \/ HeaderTooBig \/ CountInvalid
         \/ CountEmpty \/ LengthInvalid \/ DataUnframed \/ DataLast
  PROVE  IInv'
  <1>1. in \in Bytes /\ Len(in) \in Nat
    BY DEF IInv, Bytes
  <1>2. pc = "parse"
    BY DEF InlineTooBig, InlineUnbalanced, InlineCommand, HeaderTooBig, CountInvalid, CountEmpty,
           LengthInvalid, DataUnframed, DataLast, Inline, Start, Parsing
  <1>3. CASE InlineTooBig \/ HeaderTooBig \/ CountInvalid \/ LengthInvalid \/ DataUnframed
    BY <1>1, <1>2, <1>3, ResetTurnInv
       DEF InlineTooBig, HeaderTooBig, CountInvalid, LengthInvalid, DataUnframed
  <1>4. CASE InlineUnbalanced \/ InlineCommand
    <2>1. LineEnd \in 0..Len(in)
      BY <1>1, <1>4, LineTaken DEF InlineUnbalanced, InlineCommand
    <2>2. After(LineEnd) \in Bytes
      BY <1>1, <2>1, AfterIs
    <2>. QED  BY <1>2, <1>4, <2>2, ResetTurnInv DEF InlineUnbalanced, InlineCommand
  <1>5. CASE CountEmpty
    <2>1. LineLen + 2 \in 0..Len(in)
      BY <1>1, <1>5, LineTaken DEF CountEmpty
    <2>2. After(LineLen + 2) \in Bytes
      BY <1>1, <2>1, AfterIs
    <2>. QED  BY <1>2, <1>5, <2>2, ResetTurnInv DEF CountEmpty
  <1>6. CASE DataLast
    <2>1. arg_len_ + 2 \in 0..Len(in)
      BY <1>1, <1>6, ParserAssumption, RespAssumption DEF DataLast, Parsing, Whole, IInv, Members
    <2>2. After(arg_len_ + 2) \in Bytes
      BY <1>1, <2>1, AfterIs
    <2>. QED  BY <1>2, <1>6, <2>2, ResetTurnInv DEF DataLast
  <1>. QED  BY <1>3, <1>4, <1>5, <1>6

LEMMA CountArgsInv ==
  ASSUME IInv, CountArgs
  PROVE  IInv'
  <1>1. in \in Bytes /\ Len(in) \in Nat /\ pc' = "parse"
    BY DEF IInv, Bytes, CountArgs, Start, Parsing
  <1>2. in' \in Bytes
    <2>1. LineLen + 2 \in 0..Len(in)
      BY <1>1, LineTaken DEF CountArgs
    <2>. QED  BY <1>1, <2>1, AfterIs DEF CountArgs
  <1>3. args_remaining_' \in 1..MaxArgs
    <2>1. PICK count \in Counts : count > 0 /\ args_remaining_' = count
      BY DEF CountArgs
    <2>2. count \in Int /\ count <= MaxArgs /\ MaxArgs \in Int
      BY Numbers, ParserAssumption, RespAssumption DEF Counts, HeaderNumber
    <2>. QED  BY <2>1, <2>2
  <1>4. arg_len_' = -1 /\ Len(argv_') = 0 /\ argv_' \in Seq(Seq(0..255))
    BY DEF CountArgs, Start, Parsing, IInv, Members
  <1>5. MaxArgs \in Nat
    BY ParserAssumption, RespAssumption
  <1>6. Members'
    BY <1>3, <1>4 DEF CountArgs, Members
  <1>7. HeldBounded'
    <2>1. \A n \in 1..MaxArgs : 0 + n <= MaxArgs
      BY <1>5
    <2>2. Len(argv_)' + args_remaining_' <= MaxArgs
      BY <1>3, <1>4, <2>1, Zenon
    <2>. QED  BY <1>1, <2>2 DEF HeldBounded
  <1>. QED  BY <1>1, <1>2, <1>6, <1>7 DEF IInv, CountArgs

LEMMA LengthInv ==
  ASSUME IInv, Length
  PROVE  IInv'
  <1>1. in \in Bytes /\ Len(in) \in Nat /\ pc' = "parse"
    BY DEF IInv, Bytes, Length, Parsing
  <1>2. in' \in Bytes
    <2>1. LineLen + 2 \in 0..Len(in)
      BY <1>1, LineTaken DEF Length
    <2>. QED  BY <1>1, <2>1, AfterIs DEF Length
  <1>3. arg_len_' \in 0..MaxBulk
    BY DEF Length, Lengths
  <1>4. Members'
    BY <1>3 DEF IInv, Length, Parsing, Members
  <1>. QED  BY <1>1, <1>2, <1>4 DEF IInv, Length, HeldBounded

LEMMA DataNextInv ==
  ASSUME IInv, DataNext
  PROVE  IInv'
  <1>1. /\ in \in Bytes /\ Len(in) \in Nat /\ pc' = "parse" /\ MaxBulk \in Nat /\ MaxArgs \in Nat
        /\ arg_len_ \in 0..MaxBulk /\ args_remaining_ \in 2..MaxArgs
        /\ argv_ \in Seq(Seq(0..255)) /\ Len(argv_) \in Nat
    BY ParserAssumption, RespAssumption DEF IInv, Bytes, DataNext, Parsing, Members
  <1>2. arg_len_ + 2 \in 0..Len(in) /\ arg_len_ \in 0..Len(in)
    BY <1>1 DEF DataNext, Whole
  <1>3. in' \in Bytes
    BY <1>1, <1>2, AfterIs DEF DataNext
  <1>4. Arg \in Seq(0..255)
    <2>1. 1 \in 1..(Len(in) + 1) /\ arg_len_ \in (1 - 1)..Len(in)
      BY <1>1, <1>2
    <2>. QED  BY <1>1, <2>1, Front DEF Arg, Bytes
  <1>5. argv_' \in Seq(Seq(0..255)) /\ Len(argv_') = Len(argv_) + 1
    BY <1>1, <1>4, AppendProperties DEF DataNext
  <1>6. args_remaining_' \in 1..MaxArgs /\ args_remaining_' = args_remaining_ - 1
    BY <1>1 DEF DataNext
  <1>7. Members'
    BY <1>5, <1>6 DEF DataNext, Members
  <1>8. HeldBounded'
    <2>1. Len(argv_) + args_remaining_ <= MaxArgs
      BY DEF IInv, HeldBounded
    <2>2. Len(argv_') + args_remaining_' <= MaxArgs
      BY <1>1, <1>5, <1>6, <2>1
    <2>. QED  BY <1>1, <2>2 DEF HeldBounded
  <1>. QED  BY <1>1, <1>3, <1>7, <1>8 DEF IInv, DataNext

LEMMA NextInv == IInv /\ [Next]_vars => IInv'
  <1>. SUFFICES ASSUME IInv, [Next]_vars PROVE IInv'
    OBVIOUS
  <1>1. CASE ReadByte
    <2>1. ahead \in Seq(0..255) /\ ahead # <<>> /\ in \in Seq(0..255)
      BY <1>1 DEF ReadByte, IInv, Bytes
    <2>2. Head(ahead) \in 0..255 /\ Tail(ahead) \in Seq(0..255)
      BY <2>1, HeadTailProperties, Zenon
    <2>3. Append(in, Head(ahead)) \in Seq(0..255)
      BY <2>1, <2>2, AppendProperties, Zenon
    <2>4. ahead' \in Bytes /\ in' \in Bytes
      BY <1>1, <2>2, <2>3, Zenon DEF ReadByte, Bytes
    <2>. QED  BY <1>1, <2>4 DEF ReadByte, parser, IInv, Members, HeldBounded
  <1>2. CASE ProcessInput
    BY <1>2 DEF ProcessInput, parser, IInv, Members, HeldBounded
  <1>3. CASE Turn
    BY <1>3, WaitInv, FailsOrCompletes, CountArgsInv, LengthInv, DataNextInv DEF Turn
  <1>4. CASE UNCHANGED vars
    BY <1>4 DEF vars, parser, IInv, Members, HeldBounded
  <1>. QED  BY <1>1, <1>2, <1>3, <1>4 DEF Next

LEMMA Invariance == Spec => []IInv
  BY InitInv, NextInv, PTL DEF Spec

\* Between two calls of parse() its members are those from which the next call can
\* resume, whatever has been read: a length only with an argument to come, never more
\* arguments to come than the ceiling, nothing left of an earlier command at the start.
THEOREM ResumesProperly == Spec => []Members
  <1>1. IInv => Members
    BY DEF IInv
  <1>. QED  BY <1>1, Invariance, PTL

\* The ceilings bound what a client can make the parser wait for and collect, whatever
\* the limits are and whatever arrives.
THEOREM CeilingsHold == Spec => []HeldBounded
  <1>1. IInv => HeldBounded
    BY DEF IInv
  <1>. QED  BY <1>1, Invariance, PTL

LEMMA CommandsStep ==
  ASSUME IInv, commands \in Seq(Argvs), [Next]_vars
  PROVE  commands' \in Seq(Argvs)
  <1>1. in \in Bytes /\ Len(in) \in Nat /\ argv_ \in Argvs
    BY DEF IInv, Members, Argvs, Bytes
  <1>2. ASSUME NEW args \in Argvs, NEW rest, Complete(args, rest)
        PROVE  commands' \in Seq(Argvs)
    BY <1>2, AppendProperties DEF Complete
  <1>3. CASE InlineCommand
    <2>1. PICK args \in SplitInline(InlineText) : Complete(args, After(LineEnd))
      BY <1>3 DEF InlineCommand
    <2>2. LineEnd \in 1..Len(in)
      BY <1>1, <1>3, LineTaken DEF InlineCommand
    <2>3. InlineText \in Bytes
      <3>. DEFINE n == IF LineEnd > 1 /\ in[LineEnd - 1] = CR THEN LineEnd - 2 ELSE LineEnd - 1
      <3>1. 1 \in 1..(Len(in) + 1) /\ n \in (1 - 1)..Len(in)
        BY <1>1, <2>2
      <3>. HIDE DEF n
      <3>2. SubSeq(in, 1, n) \in Bytes
        BY <1>1, <3>1, Front DEF Bytes
      <3>. QED  BY <3>2 DEF InlineText, n
    <2>4. args \in Argvs
      BY <2>1, <2>3, SplitType
    <2>. QED  BY <1>2, <2>1, <2>4
  <1>4. CASE CountEmpty
    <2>1. <<>> \in Argvs
      BY DEF Argvs
    <2>. QED  BY <1>2, <1>4, <2>1 DEF CountEmpty
  <1>5. CASE DataLast
    <2>1. /\ Complete(Append(argv_, Arg), After(arg_len_ + 2))
          /\ arg_len_ \in 0..MaxBulk /\ MaxBulk \in Nat /\ Len(in) >= arg_len_ + 2
      BY <1>5, ParserAssumption, RespAssumption DEF DataLast, Parsing, Whole, IInv, Members
    <2>2. Arg \in Bytes
      <3>1. 1 \in 1..(Len(in) + 1) /\ arg_len_ \in (1 - 1)..Len(in)
        BY <1>1, <2>1
      <3>. QED  BY <1>1, <3>1, Front DEF Arg, Bytes
    <2>3. Append(argv_, Arg) \in Argvs
      BY <1>1, <2>2, AppendProperties DEF Argvs
    <2>. QED  BY <1>2, <2>1, <2>3
  <1>6. CASE ~(InlineCommand \/ CountEmpty \/ DataLast)
    <2>1. UNCHANGED commands
      BY <1>6 DEF Next, Turn, ReadByte, ProcessInput, StartEmpty, InlineIncomplete, InlineTooBig,
         InlineUnbalanced, HeaderIncomplete, HeaderTooBig, CountInvalid, CountArgs,
         LengthInvalid, Length, DataIncomplete, DataUnframed, DataNext, Incomplete, Fail, vars
    <2>. QED  BY <2>1
  <1>. QED  BY <1>3, <1>4, <1>5, <1>6

\* The parser keeps its types for every input: what parse() hands to the dispatcher is
\* always a list of byte strings, also when the words come from quotes and escapes
\* (split_inline makes no byte out of range), and its members are always among those from which the next call can resume.
THEOREM TypeCorrect == Spec => []TypeOK
  <1>1. Init => commands \in Seq(Argvs)
    BY DEF Init, Argvs
  <1>2. IInv /\ commands \in Seq(Argvs) /\ [Next]_vars => (commands \in Seq(Argvs))'
    BY CommandsStep
  <1>3. IInv /\ commands \in Seq(Argvs) => TypeOK
    BY DEF IInv, TypeOK, Argvs, Bytes
  <1>. QED  BY <1>1, <1>2, <1>3, Invariance, PTL DEF Spec

-----------------------------------------------------------------------------
(* What more bytes behind a buffer do not change.                          *)

LEMMA Joined ==
  ASSUME NEW x \in Bytes, NEW s \in Bytes
  PROVE  /\ x \o s \in Bytes /\ Len(x) \in Nat /\ Len(s) \in Nat
         /\ Len(x \o s) = Len(x) + Len(s) /\ Len(x) <= Len(x \o s)
         /\ DOMAIN x = 1..Len(x) /\ DOMAIN (x \o s) = 1..Len(x \o s)
         /\ \A i \in 1..Len(x) : (x \o s)[i] = x[i]
         /\ \A i \in 1..Len(s) : (x \o s)[Len(x) + i] = s[i]
  BY ConcatProperties DEF Bytes

\* A place in two buffers laid end to end is in the first or in the second.
LEMMA Places ==
  ASSUME NEW a \in Nat, NEW b \in Nat, NEW i \in 1..(a + b)
  PROVE  i \in 1..a \/ \E j \in 1..b : i = a + j
  <1>1. CASE i <= a
    BY <1>1
  <1>2. CASE i > a
    <2>1. i - a \in 1..b /\ i = a + (i - a)
      BY <1>2
    <2>. QED  BY <2>1
  <1>. QED  BY <1>1, <1>2

LEMMA FrontBytes ==
  ASSUME NEW x \in Bytes, NEW m \in 1..(Len(x) + 1), NEW n \in (m - 1)..Len(x)
  PROVE  /\ SubSeq(x, m, n) \in Bytes /\ Len(SubSeq(x, m, n)) = n - m + 1
         /\ \A i \in 1..(n - m + 1) : SubSeq(x, m, n)[i] = x[m + i - 1]
  BY Front DEF Bytes

LEMMA RestBytes ==
  ASSUME NEW x \in Bytes, NEW n \in 0..Len(x)
  PROVE  /\ SubSeq(x, n + 1, Len(x)) \in Bytes
         /\ Len(SubSeq(x, n + 1, Len(x))) = Len(x) - n
         /\ \A i \in 1..(Len(x) - n) : SubSeq(x, n + 1, Len(x))[i] = x[n + i]
  BY Rest, Zenon DEF Bytes

LEMMA FrontKept ==
  ASSUME NEW x \in Bytes, NEW s \in Bytes, NEW m \in 1..(Len(x) + 1), NEW n \in (m - 1)..Len(x)
  PROVE  SubSeq(x \o s, m, n) = SubSeq(x, m, n)
  <1>. DEFINE y == x \o s
  <1>1. /\ y \in Bytes /\ Len(x) \in Nat /\ Len(y) \in Nat /\ Len(x) <= Len(y)
        /\ \A i \in 1..Len(x) : y[i] = x[i]
    BY Joined DEF Bytes
  <1>. HIDE DEF y
  <1>2. m \in 1..(Len(y) + 1) /\ n \in (m - 1)..Len(y)
    BY <1>1
  <1>3. /\ SubSeq(x, m, n) \in Bytes /\ Len(SubSeq(x, m, n)) = n - m + 1
        /\ \A i \in 1..(n - m + 1) : SubSeq(x, m, n)[i] = x[m + i - 1]
    BY FrontBytes, Zenon
  <1>4. /\ SubSeq(y, m, n) \in Bytes /\ Len(SubSeq(y, m, n)) = n - m + 1
        /\ \A i \in 1..(n - m + 1) : SubSeq(y, m, n)[i] = y[m + i - 1]
    BY <1>1, <1>2, FrontBytes, Zenon
  <1>5. \A i \in 1..(n - m + 1) : m + i - 1 \in 1..Len(x)
    BY <1>1
  <1>6. \A i \in 1..(n - m + 1) : SubSeq(y, m, n)[i] = SubSeq(x, m, n)[i]
    BY <1>1, <1>3, <1>4, <1>5
  <1>7. SubSeq(y, m, n) = SubSeq(x, m, n)
    BY <1>3, <1>4, <1>6, SeqEqual DEF Bytes
  <1>. QED  BY <1>7 DEF y

LEMMA RestKept ==
  ASSUME NEW x \in Bytes, NEW s \in Bytes, NEW n \in 0..Len(x)
  PROVE  SubSeq(x \o s, n + 1, Len(x \o s)) = SubSeq(x, n + 1, Len(x)) \o s
  <1>. DEFINE y == x \o s
              u == SubSeq(x, n + 1, Len(x))
              v == SubSeq(y, n + 1, Len(y))
  <1>1. /\ y \in Bytes /\ Len(x) \in Nat /\ Len(s) \in Nat /\ Len(y) = Len(x) + Len(s)
        /\ \A i \in 1..Len(x) : y[i] = x[i]
        /\ \A i \in 1..Len(s) : y[Len(x) + i] = s[i]
    BY Joined
  <1>. HIDE DEF y
  <1>2. u \in Bytes /\ Len(u) = Len(x) - n /\ \A i \in 1..(Len(x) - n) : u[i] = x[n + i]
    BY RestBytes, Zenon
  <1>3. v \in Bytes /\ Len(v) = Len(y) - n /\ \A i \in 1..(Len(y) - n) : v[i] = y[n + i]
    <2>1. n \in 0..Len(y)
      BY <1>1
    <2>. QED  BY <1>1, <2>1, RestBytes, Zenon
  <1>. HIDE DEF u, v
  <1>4. /\ u \o s \in Bytes /\ Len(u \o s) = Len(u) + Len(s)
        /\ \A i \in 1..Len(u) : (u \o s)[i] = u[i]
        /\ \A i \in 1..Len(s) : (u \o s)[Len(u) + i] = s[i]
    BY <1>2, Joined
  <1>5. Len(v) = Len(u \o s)
    BY <1>1, <1>2, <1>3, <1>4
  <1>6. ASSUME NEW i \in 1..Len(v) PROVE v[i] = (u \o s)[i]
    <2>1. v[i] = y[n + i] /\ i \in 1..(Len(u) + Len(s)) /\ Len(u) \in Nat
      BY <1>1, <1>2, <1>3
    <2>2. CASE i \in 1..Len(u)
      <3>1. i \in 1..(Len(x) - n) /\ n + i \in 1..Len(x)
        BY <1>1, <1>2, <2>2
      <3>. QED  BY <1>1, <1>2, <1>4, <2>1, <2>2, <3>1
    <2>3. ASSUME NEW j \in 1..Len(s), i = Len(u) + j PROVE v[i] = (u \o s)[i]
      <3>1. n + i = Len(x) + j
        BY <1>1, <1>2, <2>3
      <3>2. y[n + i] = s[j] /\ (u \o s)[i] = s[j]
        BY <1>1, <1>4, <2>3, <3>1
      <3>. QED  BY <2>1, <3>2
    <2>. QED  BY <1>1, <2>1, <2>2, <2>3, Places
  <1>7. v = u \o s
    BY <1>3, <1>4, <1>5, <1>6, SeqEqual DEF Bytes
  <1>. QED  BY <1>7 DEF u, v, y

\* The first line that ends in a buffer ends there whatever follows.
LEMMA LineKept ==
  ASSUME NEW x \in Bytes, NEW s \in Bytes
  PROVE  /\ Lines(x) # {} => Lines(x \o s) # {} /\ Min(Lines(x \o s)) = Min(Lines(x))
         /\ Lines(x) = {} /\ Lines(x \o s) # {} => Min(Lines(x \o s)) \in (Len(x) + 1)..Len(x \o s)
  <1>. DEFINE y == x \o s
  <1>1. /\ y \in Bytes /\ Len(x) \in Nat /\ Len(y) \in Nat /\ Len(x) <= Len(y)
        /\ DOMAIN x = 1..Len(x) /\ DOMAIN y = 1..Len(y)
        /\ \A i \in 1..Len(x) : y[i] = x[i]
    BY Joined DEF Bytes
  <1>. HIDE DEF y
  <1>2. Lines(x) \subseteq Lines(y) /\ Lines(y) \subseteq Nat
    BY <1>1 DEF Lines
  <1>3. \A i \in Lines(y) \ Lines(x) : i \in (Len(x) + 1)..Len(y)
    BY <1>1 DEF Lines
  <1>4. ASSUME Lines(x) # {} PROVE Lines(y) # {} /\ Min(Lines(y)) = Min(Lines(x))
    <2>1. Min(Lines(x)) \in 1..Len(x)
      BY <1>4, LineIn
    <2>2. \A i \in Lines(y) \ Lines(x) : Min(Lines(x)) <= i
      BY <1>1, <1>3, <2>1
    <2>. QED  BY <1>2, <1>4, <2>2, MinKept
  <1>5. ASSUME Lines(x) = {}, Lines(y) # {} PROVE Min(Lines(y)) \in (Len(x) + 1)..Len(y)
    BY <1>2, <1>3, <1>5, MinIs
  <1>. QED  BY <1>4, <1>5 DEF y

LEMMA CrlfKept ==
  ASSUME NEW x \in Bytes, NEW s \in Bytes
  PROVE  /\ Crlfs(x) # {} => Crlfs(x \o s) # {} /\ Min(Crlfs(x \o s)) = Min(Crlfs(x))
         /\ Crlfs(x) = {} /\ Crlfs(x \o s) # {} =>
              Min(Crlfs(x \o s)) >= Len(x) /\ Min(Crlfs(x \o s)) \in 1..(Len(x \o s) - 1)
  <1>. DEFINE y == x \o s
  <1>1. /\ y \in Bytes /\ Len(x) \in Nat /\ Len(y) \in Nat /\ Len(x) <= Len(y)
        /\ \A i \in 1..Len(x) : y[i] = x[i]
    BY Joined DEF Bytes
  <1>. HIDE DEF y
  <1>2. Crlfs(x) \subseteq Crlfs(y) /\ Crlfs(y) \subseteq Nat
    BY <1>1 DEF Crlfs
  <1>3. \A i \in Crlfs(y) \ Crlfs(x) : i >= Len(x)
    BY <1>1 DEF Crlfs
  <1>4. ASSUME Crlfs(x) # {} PROVE Crlfs(y) # {} /\ Min(Crlfs(y)) = Min(Crlfs(x))
    <2>1. Min(Crlfs(x)) \in 1..(Len(x) - 1)
      BY <1>4, CrlfIn
    <2>2. \A i \in Crlfs(y) \ Crlfs(x) : Min(Crlfs(x)) <= i
      BY <1>1, <1>2, <1>3, <2>1
    <2>. QED  BY <1>2, <1>4, <2>2, MinKept
  <1>5. ASSUME Crlfs(x) = {}, Crlfs(y) # {}
        PROVE  Min(Crlfs(y)) >= Len(x) /\ Min(Crlfs(y)) \in 1..(Len(y) - 1)
    BY <1>1, <1>2, <1>3, <1>5, MinIs, CrlfIn
  <1>. QED  BY <1>4, <1>5 DEF y

\* A byte that moves from what is on its way into the buffer leaves their sum the same.
LEMMA ReadKept ==
  ASSUME NEW x \in Bytes, NEW s \in Bytes, s # <<>>
  PROVE  Append(x, Head(s)) \o Tail(s) = x \o s
  <1>1. /\ s \in Seq(0..255) /\ Head(s) \in 0..255 /\ Tail(s) \in Bytes /\ Len(s) \in Nat
        /\ Len(Tail(s)) = Len(s) - 1 /\ \A i \in 1..Len(Tail(s)) : Tail(s)[i] = s[i + 1]
    BY HeadTailProperties DEF Bytes
  <1>. DEFINE u == Append(x, Head(s))
              t == Tail(s)
  <1>2. /\ u \in Bytes /\ Len(u) = Len(x) + 1 /\ Len(x) \in Nat
        /\ u[Len(x) + 1] = Head(s) /\ \A i \in 1..Len(x) : u[i] = x[i]
    BY <1>1, AppendProperties DEF Bytes
  <1>3. t \in Bytes /\ Len(t) = Len(s) - 1 /\ \A i \in 1..Len(t) : t[i] = s[i + 1]
    BY <1>1
  <1>4. Head(s) = s[1] /\ Len(s) > 0
    BY HeadTailProperties, EmptySeq DEF Bytes
  <1>. HIDE DEF u, t
  <1>5. /\ u \o t \in Bytes /\ Len(u \o t) = Len(u) + Len(t)
        /\ \A i \in 1..Len(u) : (u \o t)[i] = u[i]
        /\ \A i \in 1..Len(t) : (u \o t)[Len(u) + i] = t[i]
    BY <1>2, <1>3, Joined
  <1>6. /\ x \o s \in Bytes /\ Len(x \o s) = Len(x) + Len(s)
        /\ \A i \in 1..Len(x) : (x \o s)[i] = x[i]
        /\ \A i \in 1..Len(s) : (x \o s)[Len(x) + i] = s[i]
    BY Joined
  <1>7. Len(u \o t) = Len(x \o s)
    BY <1>1, <1>2, <1>3, <1>5, <1>6
  <1>8. ASSUME NEW i \in 1..Len(x \o s) PROVE (u \o t)[i] = (x \o s)[i]
    <2>1. i \in 1..(Len(u) + Len(t)) /\ Len(u) \in Nat /\ Len(t) \in Nat
      BY <1>1, <1>2, <1>3, <1>4, <1>6
    <2>2. CASE i \in 1..Len(u)
      <3>1. CASE i = Len(x) + 1
        <4>1. 1 \in 1..Len(s)
          BY <1>1, <1>4
        <4>2. (x \o s)[Len(x) + 1] = s[1]
          BY <1>6, <4>1
        <4>. QED  BY <1>2, <1>4, <1>5, <2>2, <3>1, <4>2
      <3>2. CASE i # Len(x) + 1
        <4>1. i \in 1..Len(x)
          BY <1>2, <2>2, <3>2
        <4>. QED  BY <1>2, <1>5, <1>6, <2>2, <4>1
      <3>. QED  BY <3>1, <3>2
    <2>3. ASSUME NEW j \in 1..Len(t), i = Len(u) + j PROVE (u \o t)[i] = (x \o s)[i]
      <3>1. i = Len(x) + (j + 1) /\ j + 1 \in 1..Len(s)
        BY <1>1, <1>2, <1>3, <2>3
      <3>2. (x \o s)[i] = s[j + 1]
        BY <1>6, <3>1
      <3>. QED  BY <1>3, <1>5, <2>3, <3>2
    <2>. QED  BY <2>1, <2>2, <2>3, Places
  <1>9. u \o t = x \o s
    BY <1>5, <1>6, <1>7, <1>8, SeqEqual DEF Bytes
  <1>. QED  BY <1>9 DEF u, t

-----------------------------------------------------------------------------
(* The parser that has everything searches and reads as this one does.     *)

All == in \o ahead

LEMMA SameSearch ==
  /\ AtOnce!Newlines = Lines(All)
  /\ AtOnce!LineEnd = Min(Lines(All))
  /\ AtOnce!Crlfs(All) = Crlfs(All)
  /\ AtOnce!LineLen = Min(Crlfs(All)) - 1
  <1>1. \A S : AtOnce!Min(S) = Min(S)
    BY Zenon DEF AtOnce!Min, Min
  <1>2. AtOnce!Newlines = Lines(All)
    BY DEF AtOnce!Newlines, AtOnce!LF, LF, Lines, All
  <1>3. AtOnce!Crlfs(All) = Crlfs(All)
    BY DEF AtOnce!Crlfs, Crlfs, AtOnce!LF, LF, AtOnce!CR, CR
  <1>. QED  BY <1>1, <1>2, <1>3 DEF AtOnce!LineEnd, AtOnce!LineLen, All

LEMMA SameNumber ==
  ASSUME NEW p
  PROVE  AtOnce!StringToInt64(p) = StringToInt64(p)
  BY DEF AtOnce!StringToInt64, StringToInt64, AtOnce!TakeDigit, TakeDigit, AtOnce!DigitValue,
         DigitValue, AtOnce!Digits, Digits, AtOnce!Zero, Zero, AtOnce!UIntMax, UIntMax,
         AtOnce!Minus, Minus

LEMMA SameWords ==
  ASSUME NEW p
  PROVE  AtOnce!SplitInline(p) = SplitInline(p)
  BY SMTT(30)
     DEF AtOnce!SplitInline, SplitInline, AtOnce!InGap, InGap, AtOnce!InWord, InWord,
         AtOnce!WithByte, WithByte, AtOnce!EndWord, EndWord, AtOnce!DigitValue, DigitValue, AtOnce!Digits, Digits,
         AtOnce!Zero, Zero, AtOnce!IsHex, IsHex, AtOnce!HexValue, HexValue, AtOnce!Escaped,
         Escaped, AtOnce!Closes, Closes, AtOnce!IsSpace, IsSpace, AtOnce!Space, Space,
         AtOnce!DoubleQuote, DoubleQuote, AtOnce!SingleQuote, SingleQuote, AtOnce!Backslash,
         Backslash, AtOnce!LF, LF, AtOnce!CR, CR

LEMMA SameStates ==
  ASSUME IInv, pc = "parse"
  PROVE  /\ \A s : AtOnce!Parsing(s) <=> Parsing(s)
         /\ in # <<>> => All # <<>> /\ All[1] = in[1]
         /\ Inline => AtOnce!Inline
         /\ Start => AtOnce!Start
  <1>1. \A s : AtOnce!Parsing(s) <=> Parsing(s)
    BY DEF AtOnce!Parsing, Parsing
  <1>2. ASSUME in # <<>> PROVE All # <<>> /\ All[1] = in[1]
    <2>1. /\ Len(in) \in Nat /\ Len(in) # 0 /\ in \in Bytes /\ ahead \in Bytes
      BY <1>2, EmptySeq DEF IInv, Bytes
    <2>2. 1 \in 1..Len(in)
      BY <2>1
    <2>3. Len(All) >= Len(in) /\ All[1] = in[1] /\ Len(All) \in Nat
      BY <2>1, <2>2, Joined DEF All
    <2>. QED  BY <2>1, <2>3
  <1>. QED  BY <1>1, <1>2 DEF AtOnce!Inline, Inline, AtOnce!Start, Start, AtOnce!Star, Star, All

\* The three ways a turn ends that decide something.
LEMMA FailKept ==
  ASSUME IInv, NEW rest, Fail(rest)
  PROVE  AtOnce!Fail(rest \o ahead)
  BY DEF Fail, Reset, AtOnce!Fail, AtOnce!Reset

LEMMA CompleteKept ==
  ASSUME IInv, pc = "parse", NEW args, NEW rest, Complete(args, rest)
  PROVE  AtOnce!Complete(args, rest \o ahead)
  BY DEF Complete, Reset, AtOnce!Complete, AtOnce!Reset

LEMMA AfterKept ==
  ASSUME IInv, NEW n \in 0..Len(in)
  PROVE  AtOnce!After(n) = After(n) \o ahead
  BY RestKept DEF IInv, After, AtOnce!After

-----------------------------------------------------------------------------
(* Inline commands.                                                        *)

LEMMA TextKept ==
  ASSUME IInv, Newlines # {}
  PROVE  /\ AtOnce!Newlines # {} /\ AtOnce!LineEnd = LineEnd /\ LineEnd \in 1..Len(in)
         /\ AtOnce!InlineText = InlineText
         /\ AtOnce!InlineFits <=> InlineFits
         /\ AtOnce!After(LineEnd) = After(LineEnd) \o ahead
  <1>1. in \in Bytes /\ ahead \in Bytes /\ Newlines = Lines(in) /\ Len(in) \in Nat
    BY DEF IInv, Newlines, Lines, Bytes
  <1>2. AtOnce!Newlines # {} /\ AtOnce!LineEnd = LineEnd /\ LineEnd \in 1..Len(in)
    BY <1>1, LineKept, LineIn, SameSearch DEF LineEnd, All
  <1>3. AtOnce!InlineText = InlineText
    <2>. DEFINE n == IF LineEnd > 1 /\ in[LineEnd - 1] = CR THEN LineEnd - 2 ELSE LineEnd - 1
    <2>1. LineEnd > 1 => (in \o ahead)[LineEnd - 1] = in[LineEnd - 1]
      <3>1. LineEnd > 1 => LineEnd - 1 \in 1..Len(in)
        BY <1>1, <1>2
      <3>. QED  BY <1>1, <3>1, Joined
    <2>2. n \in (1 - 1)..Len(in) /\ 1 \in 1..(Len(in) + 1)
      BY <1>1, <1>2
    <2>3. AtOnce!InlineText = SubSeq(in \o ahead, 1, n)
      BY <1>2, <2>1 DEF AtOnce!InlineText, AtOnce!CR, CR
    <2>4. InlineText = SubSeq(in, 1, n)
      BY DEF InlineText
    <2>. HIDE DEF n
    <2>. QED  BY <1>1, <2>2, <2>3, <2>4, FrontKept
  <1>4. AtOnce!InlineFits <=> InlineFits
    BY <1>2, <1>3 DEF AtOnce!InlineFits, InlineFits
  <1>5. LineEnd \in 0..Len(in)
    BY <1>1, <1>2
  <1>. QED  BY <1>2, <1>3, <1>4, <1>5, AfterKept

LEMMA InlineKept ==
  ASSUME IInv, InlineUnbalanced \/ InlineCommand
  PROVE  AtOnce!InlineUnbalanced \/ AtOnce!InlineCommand
  <1>1. pc = "parse" /\ Inline /\ Newlines # {} /\ InlineFits
    BY DEF InlineUnbalanced, InlineCommand, Inline, Parsing
  <1>2. AtOnce!Inline /\ AtOnce!Newlines # {} /\ AtOnce!InlineFits
    BY <1>1, SameStates, TextKept
  <1>3. /\ AtOnce!SplitInline(AtOnce!InlineText) = SplitInline(InlineText)
        /\ AtOnce!After(AtOnce!LineEnd) = After(LineEnd) \o ahead
    BY <1>1, TextKept, SameWords
  <1>4. CASE InlineUnbalanced
    <2>1. AtOnce!Fail(After(LineEnd) \o ahead)
      BY <1>4, FailKept DEF InlineUnbalanced
    <2>. QED  BY <1>2, <1>3, <1>4, <2>1 DEF InlineUnbalanced, AtOnce!InlineUnbalanced
  <1>5. CASE InlineCommand
    <2>1. PICK args \in SplitInline(InlineText) : Complete(args, After(LineEnd))
      BY <1>5 DEF InlineCommand
    <2>2. AtOnce!Complete(args, After(LineEnd) \o ahead)
      BY <1>1, <2>1, CompleteKept
    <2>. QED  BY <1>2, <1>3, <2>1, <2>2 DEF AtOnce!InlineCommand
  <1>. QED  BY <1>4, <1>5

\* A line is too long for good, but for the one that its '\r' made too long.
LEMMA TooBigKept ==
  ASSUME IInv, InlineTooBig
  PROVE  AtOnce!InlineTooBig \/ AtOnce!RefuseAtLimit
  <1>1. /\ pc = "parse" /\ Inline /\ ~InlineFits /\ AtOnce!Inline
        /\ AtOnce!Fail(in \o ahead)
    BY SameStates, FailKept DEF InlineTooBig, Inline, Parsing
  <1>2. CASE Newlines # {}
    BY <1>1, <1>2, TextKept DEF AtOnce!InlineTooBig
  <1>3. CASE Newlines = {} /\ AtOnce!Newlines = {}
    <2>1. Len(in) > MaxInline /\ Len(in) \in Nat /\ Len(in) <= Len(in \o ahead)
      BY <1>1, <1>3, Joined, ParserAssumption DEF InlineFits, IInv, Bytes
    <2>2. Len(in \o ahead) \in Nat
      BY Joined DEF IInv, Bytes
    <2>3. ~AtOnce!InlineFits
      BY <1>3, <2>1, <2>2, ParserAssumption DEF AtOnce!InlineFits
    <2>. QED  BY <1>1, <2>3 DEF AtOnce!InlineTooBig
  <1>4. CASE Newlines = {} /\ AtOnce!Newlines # {}
    <2>. DEFINE b == in \o ahead
                e == AtOnce!LineEnd
    <2>1. Len(in) > MaxInline /\ Len(in) \in Nat /\ b \in Bytes /\ Len(b) \in Nat
      BY <1>1, <1>4, Joined, ParserAssumption DEF InlineFits, IInv, Bytes
    <2>2. e \in (Len(in) + 1)..Len(b)
      <3>1. Lines(in) = {} /\ Lines(All) # {} /\ e = Min(Lines(All)) /\ b = All
        BY <1>4, SameSearch DEF Newlines, Lines, All
      <3>. QED  BY <3>1, LineKept DEF IInv, All
    <2>3. CASE e = MaxInline + 2 /\ b[e - 1] = CR
      BY <1>1, <1>4, <2>3 DEF AtOnce!RefuseAtLimit, AtOnce!CR, CR
    <2>4. CASE ~(e = MaxInline + 2 /\ b[e - 1] = CR)
      <3>. DEFINE n == IF e > 1 /\ b[e - 1] = CR THEN e - 2 ELSE e - 1
      <3>1. n \in (1 - 1)..Len(b) /\ n > MaxInline /\ 1 \in 1..(Len(b) + 1) /\ n \in Nat
        <4>. HIDE DEF b, e
        <4>. QED  BY <2>1, <2>2, <2>4, ParserAssumption
      <3>2. AtOnce!InlineText = SubSeq(b, 1, n)
        BY DEF AtOnce!InlineText, AtOnce!CR, CR
      <3>. HIDE DEF n, b
      <3>3. Len(SubSeq(b, 1, n)) = n - 1 + 1
        BY <2>1, <3>1, Front DEF Bytes
      <3>4. Len(AtOnce!InlineText) > MaxInline /\ Len(AtOnce!InlineText) \in Nat
        BY <3>1, <3>2, <3>3
      <3>5. ~AtOnce!InlineFits
        BY <1>4, <3>4, ParserAssumption DEF AtOnce!InlineFits
      <3>. QED  BY <1>1, <3>5 DEF AtOnce!InlineTooBig
    <2>. QED  BY <2>3, <2>4
  <1>. QED  BY <1>2, <1>3, <1>4

-----------------------------------------------------------------------------
(* Header lines.                                                           *)

LEMMA HeaderKept ==
  ASSUME IInv, Crlfs(in) # {}
  PROVE  /\ AtOnce!Crlfs(in \o ahead) # {} /\ AtOnce!LineLen = LineLen
         /\ AtOnce!After(LineLen + 2) = After(LineLen + 2) \o ahead
         /\ LineLen > 0 => AtOnce!HeaderNumber = HeaderNumber
         /\ Start => LineLen > 0
  <1>1. in \in Bytes /\ ahead \in Bytes /\ Len(in) \in Nat
    BY DEF IInv, Bytes
  <1>2. AtOnce!Crlfs(in \o ahead) # {} /\ AtOnce!LineLen = LineLen
    BY <1>1, CrlfKept, SameSearch DEF LineLen, All
  <1>3. LineLen \in 0..(Len(in) - 2) /\ LineLen + 2 \in 0..Len(in)
    BY <1>1, LineTaken
  <1>4. ASSUME LineLen > 0 PROVE AtOnce!HeaderNumber = HeaderNumber
    <2>1. 2 \in 1..(Len(in) + 1) /\ LineLen \in (2 - 1)..Len(in)
      BY <1>1, <1>3, <1>4
    <2>2. SubSeq(in \o ahead, 2, LineLen) = SubSeq(in, 2, LineLen)
      BY <1>1, <2>1, FrontKept
    <2>. QED  BY <1>2, <2>2, SameNumber DEF AtOnce!HeaderNumber, HeaderNumber
  <1>5. ASSUME Start PROVE LineLen > 0
    <2>1. in[Min(Crlfs(in))] = CR /\ Min(Crlfs(in)) \in 1..(Len(in) - 1)
      BY <1>1, CrlfIn
    <2>2. Min(Crlfs(in)) # 1
      BY <1>5, <2>1 DEF Start, Star, CR
    <2>. QED  BY <1>1, <2>1, <2>2 DEF LineLen
  <1>. QED  BY <1>2, <1>3, <1>4, <1>5, AfterKept

LEMMA CountKept ==
  ASSUME IInv, CountInvalid \/ CountEmpty \/ CountArgs
  PROVE  AtOnce!CountInvalid \/ AtOnce!CountEmpty \/ AtOnce!CountArgs
  <1>1. pc = "parse" /\ Start /\ Crlfs(in) # {}
    BY DEF CountInvalid, CountEmpty, CountArgs, Start, Parsing
  <1>2. /\ AtOnce!Start /\ AtOnce!Crlfs(in \o ahead) # {}
        /\ AtOnce!After(AtOnce!LineLen + 2) = After(LineLen + 2) \o ahead
        /\ AtOnce!Counts = Counts
    BY <1>1, SameStates, HeaderKept DEF AtOnce!Counts, Counts
  <1>3. CASE CountInvalid
    <2>1. AtOnce!Fail(in \o ahead)
      BY <1>3, FailKept DEF CountInvalid
    <2>. QED  BY <1>2, <1>3, <2>1 DEF CountInvalid, AtOnce!CountInvalid
  <1>4. CASE CountEmpty
    <2>1. AtOnce!Complete(<<>>, After(LineLen + 2) \o ahead)
      BY <1>1, <1>4, CompleteKept DEF CountEmpty
    <2>. QED  BY <1>2, <1>4, <2>1 DEF CountEmpty, AtOnce!CountEmpty
  <1>5. CASE CountArgs
    BY <1>2, <1>5 DEF CountArgs, AtOnce!CountArgs
  <1>. QED  BY <1>3, <1>4, <1>5

LEMMA LengthKept ==
  ASSUME IInv, LengthInvalid \/ Length
  PROVE  AtOnce!LengthInvalid \/ AtOnce!Length
  <1>1. pc = "parse" /\ Parsing("ArgLen") /\ Crlfs(in) # {}
    BY DEF LengthInvalid, Length, Parsing
  <1>2. /\ AtOnce!Parsing("ArgLen") /\ AtOnce!Crlfs(in \o ahead) # {}
        /\ AtOnce!After(AtOnce!LineLen + 2) = After(LineLen + 2) \o ahead
    BY <1>1, SameStates, HeaderKept
  <1>3. AtOnce!Lengths = Lengths
    <2>1. in # <<>>
      <3>1. Min(Crlfs(in)) \in 1..(Len(in) - 1)
        BY <1>1, CrlfIn DEF IInv
      <3>. QED  BY <3>1
    <2>2. (in \o ahead)[1] = in[1]
      BY <1>1, <2>1, SameStates DEF All
    <2>. QED  BY <1>1, <2>2, HeaderKept DEF AtOnce!Lengths, Lengths, AtOnce!Dollar, Dollar
  <1>4. CASE LengthInvalid
    <2>1. AtOnce!Fail(in \o ahead)
      BY <1>4, FailKept DEF LengthInvalid
    <2>. QED  BY <1>2, <1>3, <1>4, <2>1 DEF LengthInvalid, AtOnce!LengthInvalid
  <1>5. CASE Length
    BY <1>2, <1>3, <1>5 DEF Length, AtOnce!Length
  <1>. QED  BY <1>4, <1>5

\* A header line that has outgrown its limit cannot become one that denotes a number: it
\* is already longer than any number is.
LEMMA HeaderTooBigKept ==
  ASSUME IInv, HeaderTooBig
  PROVE  AtOnce!HeaderTooBig \/ AtOnce!CountInvalid \/ AtOnce!LengthInvalid
  <1>. DEFINE b == in \o ahead
  <1>1. pc = "parse" /\ (Start \/ Parsing("ArgLen")) /\ Crlfs(in) = {}
    BY DEF HeaderTooBig, Start, Parsing
  <1>2. (AtOnce!Start \/ AtOnce!Parsing("ArgLen")) /\ AtOnce!Fail(b)
    BY <1>1, SameStates, FailKept DEF HeaderTooBig
  <1>3. /\ Len(in) > MaxHeader /\ Len(in) \in Nat /\ Len(b) \in Nat /\ Len(in) <= Len(b)
        /\ b \in Bytes
    BY Joined, ParserAssumption DEF HeaderTooBig, HeaderFits, IInv, Bytes
  <1>4. CASE AtOnce!Crlfs(b) = {}
    <2>1. ~AtOnce!HeaderFits
      BY <1>3, ParserAssumption DEF AtOnce!HeaderFits
    <2>. QED  BY <1>2, <1>4, <2>1 DEF AtOnce!HeaderTooBig
  <1>5. CASE AtOnce!Crlfs(b) # {}
    <2>. DEFINE e == Min(Crlfs(b))
                p == SubSeq(b, 2, e - 1)
    <2>1. e >= Len(in) /\ e \in 1..(Len(b) - 1)
      BY <1>1, <1>5, CrlfKept, SameSearch DEF IInv, All
    <2>2. AtOnce!HeaderNumber = StringToInt64(p)
      BY SameSearch, SameNumber DEF AtOnce!HeaderNumber, All
    <2>. HIDE DEF e, b
    <2>3. 2 \in 1..(Len(b) + 1) /\ e - 1 \in (2 - 1)..Len(b) /\ e - 2 > MaxDigits
      BY <1>3, <2>1, ParserAssumption, RespAssumption
    <2>4. Len(p) = (e - 1) - 2 + 1
      BY <1>3, <2>3, Front DEF Bytes
    <2>5. Len(p) \notin 1..MaxDigits
      BY <1>3, <2>1, <2>3, <2>4, RespAssumption
    <2>6. AtOnce!HeaderNumber = {}
      <3>. HIDE DEF p
      <3>. QED  BY <2>2, <2>5, Numbers
    <2>7. AtOnce!Counts = {} /\ AtOnce!Lengths = {}
      BY <2>6 DEF AtOnce!Counts, AtOnce!Lengths
    <2>. QED  BY <1>2, <1>5, <2>7 DEF AtOnce!CountInvalid, AtOnce!LengthInvalid, b
  <1>. QED  BY <1>4, <1>5

-----------------------------------------------------------------------------
(* Arguments.                                                              *)

LEMMA DataKept ==
  ASSUME IInv, DataUnframed \/ DataNext \/ DataLast
  PROVE  AtOnce!DataUnframed \/ AtOnce!DataNext \/ AtOnce!DataLast
  <1>1. pc = "parse" /\ Parsing("ArgData") /\ Whole
    BY DEF DataUnframed, DataNext, DataLast, Parsing
  <1>2. /\ in \in Bytes /\ ahead \in Bytes /\ Len(in) \in Nat /\ arg_len_ \in Nat
        /\ arg_len_ + 2 <= Len(in)
    BY <1>1, ParserAssumption, RespAssumption DEF IInv, Bytes, Parsing, Members, Whole
  <1>3. AtOnce!Parsing("ArgData")
    BY <1>1, SameStates
  <1>4. AtOnce!Whole
    <2>1. Len(in) <= Len(in \o ahead) /\ Len(in \o ahead) \in Nat
      BY <1>2, Joined DEF Bytes
    <2>. QED  BY <1>2, <2>1 DEF AtOnce!Whole
  <1>5. AtOnce!Framed <=> Framed
    <2>1. arg_len_ + 1 \in 1..(Len(in) + 1) /\ arg_len_ + 2 \in ((arg_len_ + 1) - 1)..Len(in)
      BY <1>2
    <2>2. SubSeq(in \o ahead, arg_len_ + 1, arg_len_ + 2) = SubSeq(in, arg_len_ + 1, arg_len_ + 2)
      BY <1>2, <2>1, FrontKept
    <2>. QED  BY <2>2 DEF AtOnce!Framed, Framed, AtOnce!Crlf, Crlf, AtOnce!CR, CR, AtOnce!LF, LF
  <1>6. AtOnce!Arg = Arg
    <2>1. 1 \in 1..(Len(in) + 1) /\ arg_len_ \in (1 - 1)..Len(in)
      BY <1>2
    <2>. QED  BY <1>2, <2>1, FrontKept DEF AtOnce!Arg, Arg
  <1>7. AtOnce!After(arg_len_ + 2) = After(arg_len_ + 2) \o ahead
    <2>1. arg_len_ + 2 \in 0..Len(in)
      BY <1>2
    <2>. QED  BY <2>1, AfterKept
  <1>8. CASE DataUnframed
    <2>1. AtOnce!Fail(in \o ahead)
      BY <1>8, FailKept DEF DataUnframed
    <2>. QED  BY <1>3, <1>4, <1>5, <1>8, <2>1 DEF DataUnframed, AtOnce!DataUnframed
  <1>9. CASE DataNext
    BY <1>3, <1>4, <1>5, <1>6, <1>7, <1>9 DEF DataNext, AtOnce!DataNext
  <1>10. CASE DataLast
    <2>1. AtOnce!Complete(Append(argv_, Arg), After(arg_len_ + 2) \o ahead)
      BY <1>1, <1>10, CompleteKept DEF DataLast
    <2>. QED  BY <1>3, <1>4, <1>5, <1>6, <1>7, <1>10, <2>1 DEF DataLast, AtOnce!DataLast
  <1>. QED  BY <1>8, <1>9, <1>10

-----------------------------------------------------------------------------
(* Every step is a decision of the parser that has everything, or nothing. *)

LEMMA WaitShowsNothing ==
  ASSUME IInv, ReadByte \/ ProcessInput \/ (Turn /\ Incomplete /\ pc = "parse")
  PROVE  UNCHANGED AtOnce!vars
  <1>1. CASE ReadByte
    <2>1. in' \o ahead' = in \o ahead
      BY <1>1, ReadKept DEF ReadByte, IInv
    <2>. QED  BY <1>1, <2>1 DEF ReadByte, parser, AtOnce!vars, AtOnce!parser
  <1>2. CASE ProcessInput
    BY <1>2 DEF ProcessInput, parser, AtOnce!vars, AtOnce!parser
  <1>3. CASE Incomplete /\ pc = "parse"
    BY <1>3 DEF Incomplete, parser, AtOnce!vars, AtOnce!parser
  <1>. QED  BY <1>1, <1>2, <1>3

LEMMA NextKept ==
  ASSUME IInv, [Next]_vars
  PROVE  [AtOnce!Decide]_(AtOnce!vars)
  <1>1. CASE ReadByte \/ ProcessInput
    BY <1>1, WaitShowsNothing
  <1>2. CASE StartEmpty \/ InlineIncomplete \/ HeaderIncomplete \/ DataIncomplete
    <2>1. Turn /\ Incomplete /\ pc = "parse"
      BY <1>2 DEF Turn, StartEmpty, InlineIncomplete, HeaderIncomplete, DataIncomplete, Inline,
                  Start, Parsing
    <2>. QED  BY <2>1, WaitShowsNothing
  <1>3. CASE InlineTooBig \/ InlineUnbalanced \/ InlineCommand
    BY <1>3, TooBigKept, InlineKept DEF AtOnce!Decide
  <1>4. CASE HeaderTooBig \/ CountInvalid \/ CountEmpty \/ CountArgs
    BY <1>4, HeaderTooBigKept, CountKept DEF AtOnce!Decide
  <1>5. CASE LengthInvalid \/ Length \/ DataUnframed \/ DataNext \/ DataLast
    BY <1>5, LengthKept, DataKept DEF AtOnce!Decide
  <1>6. CASE UNCHANGED vars
    BY <1>6 DEF vars, parser, AtOnce!vars, AtOnce!parser
  <1>. QED  BY <1>1, <1>2, <1>3, <1>4, <1>5, <1>6 DEF Next, Turn

LEMMA InitKept == Init => AtOnce!WholeInit
  <1>. SUFFICES ASSUME Init PROVE AtOnce!WholeInit
    OBVIOUS
  <1>1. in \o ahead \in Seq(0..255)
    BY Joined, EmptySeq DEF Init, Bytes
  <1>. QED  BY <1>1 DEF Init, AtOnce!WholeInit

\* However the kernel cuts the input into reads, parse() takes the decisions that it would
\* take if all of it had been there: it completes the same commands, refuses the same
\* input, and leaves the same bytes for the next command.  WholeInput names the one
\* exception, a line of exactly max_inline_len bytes whose CRLF is cut in two.
THEOREM ReadsDoNotMatter == Spec => CutsDoNotShow
  <1>1. IInv /\ [Next]_vars => [AtOnce!Decide]_(AtOnce!vars)
    BY NextKept
  <1>. QED  BY <1>1, InitKept, Invariance, PTL DEF Spec, CutsDoNotShow, AtOnce!WholeSpec
=============================================================================
