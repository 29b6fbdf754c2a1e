---------------------------- MODULE ServerProofs ----------------------------
(***************************************************************************)
(* The server loop, for any number of connections, any requests and frames *)
(* and any way they are cut into writes.                                   *)
(***************************************************************************)
EXTENDS Server, NatFacts

-----------------------------------------------------------------------------
(* Sequences.                                                              *)

Distinct(s) == \A i, j \in 1 .. Len(s) : s[i] = s[j] => i = j
Increasing(s) == \A i, j \in 1 .. Len(s) : i < j => s[i] < s[j]

LEMMA ElementFacts ==
  ASSUME NEW S, NEW s \in Seq(S)
  PROVE  /\ Len(s) \in Nat /\ DOMAIN s = 1 .. Len(s)
         /\ \A i \in 1 .. Len(s) : s[i] \in S
         /\ \A x : x \in ToSet(s) <=> \E i \in 1 .. Len(s) : s[i] = x
         /\ ToSet(s) \subseteq S
  BY DEF ToSet

LEMMA AppendFacts ==
  ASSUME NEW S, NEW s \in Seq(S), NEW x \in S
  PROVE  /\ Append(s, x) \in Seq(S) /\ Len(Append(s, x)) = Len(s) + 1
         /\ \A i \in 1 .. Len(s) : Append(s, x)[i] = s[i]
         /\ Append(s, x)[Len(s) + 1] = x
         /\ ToSet(Append(s, x)) = ToSet(s) \cup {x}
  <1>1. /\ Append(s, x) \in Seq(S) /\ Len(Append(s, x)) = Len(s) + 1 /\ Len(s) \in Nat
        /\ \A i \in 1 .. Len(s) : Append(s, x)[i] = s[i]
        /\ Append(s, x)[Len(s) + 1] = x
    OBVIOUS
  <1> DEFINE a == Append(s, x)
  <1>2. \A y : y \in ToSet(s) <=> \E i \in 1 .. Len(s) : s[i] = y BY ElementFacts
  <1>3. \A y : y \in ToSet(a) <=> \E i \in 1 .. Len(a) : a[i] = y BY <1>1, ElementFacts
  <1> HIDE DEF a
  <1>4. \A y : y \in ToSet(a) <=> y \in ToSet(s) \/ y = x
    <2> SUFFICES ASSUME NEW y PROVE y \in ToSet(a) <=> y \in ToSet(s) \/ y = x OBVIOUS
    <2>1. ASSUME y \in ToSet(a) PROVE y \in ToSet(s) \/ y = x
      <3>1. PICK i \in 1 .. (Len(s) + 1) : a[i] = y BY <1>1, <1>3, <2>1 DEF a
      <3>2. i \in 1 .. Len(s) \/ i = Len(s) + 1 BY <1>1
      <3>3. QED BY <1>1, <1>2, <3>1, <3>2 DEF a
    <2>2. ASSUME y \in ToSet(s) PROVE y \in ToSet(a)
      <3>1. PICK i \in 1 .. Len(s) : s[i] = y BY <1>2, <2>2
      <3>2. i \in 1 .. Len(a) /\ a[i] = y BY <1>1, <3>1 DEF a
      <3>3. QED BY <1>3, <3>2
    <2>3. ASSUME y = x PROVE y \in ToSet(a)
      <3>1. Len(s) + 1 \in 1 .. Len(a) /\ a[Len(s) + 1] = x BY <1>1 DEF a
      <3>2. QED BY <1>3, <2>3, <3>1
    <2>4. QED BY <2>1, <2>2, <2>3
  <1>5. QED BY <1>1, <1>4 DEF a

LEMMA AppendDistinct ==
  ASSUME NEW S, NEW s \in Seq(S), NEW x \in S, Distinct(s), x \notin ToSet(s)
  PROVE  Distinct(Append(s, x))
  <1> DEFINE a == Append(s, x)
  <1>1. /\ Len(a) = Len(s) + 1 /\ Len(s) \in Nat
        /\ \A i \in 1 .. Len(s) : a[i] = s[i] /\ a[Len(s) + 1] = x
    BY AppendFacts, ElementFacts
  <1>2. a[Len(s) + 1] = x BY AppendFacts
  <1> HIDE DEF a
  <1>3. \A i \in 1 .. Len(s) : s[i] # x BY ElementFacts
  <1>4. ASSUME NEW i \in 1 .. Len(a), NEW j \in 1 .. Len(a), a[i] = a[j] PROVE i = j
    <2>1. i \in 1 .. Len(s) \/ i = Len(s) + 1 BY <1>1
    <2>2. j \in 1 .. Len(s) \/ j = Len(s) + 1 BY <1>1
    <2>3. QED BY <1>1, <1>2, <1>3, <1>4, <2>1, <2>2 DEF Distinct
  <1>5. QED BY <1>4 DEF Distinct, a

LEMMA TailFacts ==
  ASSUME NEW S, NEW s \in Seq(S), s # <<>>
  PROVE  /\ Tail(s) \in Seq(S) /\ Len(Tail(s)) = Len(s) - 1 /\ Len(s) \in Nat \ {0}
         /\ \A i \in 1 .. (Len(s) - 1) : i + 1 \in 1 .. Len(s) /\ Tail(s)[i] = s[i + 1]
         /\ Head(s) = s[1] /\ Head(s) \in S /\ Head(s) \in ToSet(s)
         /\ ToSet(s) = {Head(s)} \cup ToSet(Tail(s))
  <1>1. /\ Tail(s) \in Seq(S) /\ Len(Tail(s)) = Len(s) - 1 /\ Len(s) \in Nat \ {0}
        /\ \A i \in 1 .. (Len(s) - 1) : i + 1 \in 1 .. Len(s) /\ Tail(s)[i] = s[i + 1]
        /\ Head(s) = s[1] /\ Head(s) \in S
    OBVIOUS
  <1> DEFINE t == Tail(s)
  <1>2. \A y : y \in ToSet(s) <=> \E i \in 1 .. Len(s) : s[i] = y BY ElementFacts
  <1>3. \A y : y \in ToSet(t) <=> \E i \in 1 .. Len(t) : t[i] = y
    <2>1. t \in Seq(S) BY <1>1
    <2> HIDE DEF t
    <2>2. QED BY <2>1, ElementFacts
  <1> HIDE DEF t
  <1>4. Head(s) \in ToSet(s)
    <2>1. 1 \in 1 .. Len(s) BY <1>1
    <2>2. QED BY <1>1, <1>2, <2>1
  <1>5. ASSUME NEW y PROVE y \in ToSet(s) <=> y = Head(s) \/ y \in ToSet(t)
    <2>1. ASSUME y \in ToSet(s) PROVE y = Head(s) \/ y \in ToSet(t)
      <3>1. PICK i \in 1 .. Len(s) : s[i] = y BY <1>2, <2>1
      <3>2. CASE i = 1 BY <1>1, <3>1, <3>2
      <3>3. CASE i # 1
        <4>1. i - 1 \in 1 .. Len(t) /\ t[i - 1] = s[(i - 1) + 1] /\ (i - 1) + 1 = i BY <1>1, <3>3 DEF t
        <4>2. QED BY <1>3, <3>1, <4>1
      <3>4. QED BY <3>2, <3>3
    <2>2. ASSUME y \in ToSet(t) PROVE y \in ToSet(s)
      <3>1. PICK i \in 1 .. Len(t) : t[i] = y BY <1>3, <2>2
      <3>2. i + 1 \in 1 .. Len(s) /\ s[i + 1] = y BY <1>1, <3>1 DEF t
      <3>3. QED BY <1>2, <3>2
    <2>3. QED BY <1>4, <2>1, <2>2
  <1>6. QED BY <1>1, <1>4, <1>5 DEF t

LEMMA TailDistinct ==
  ASSUME NEW S, NEW s \in Seq(S), s # <<>>, Distinct(s)
  PROVE  Distinct(Tail(s)) /\ Head(s) \notin ToSet(Tail(s))
  <1> DEFINE t == Tail(s)
  <1>1. /\ t \in Seq(S) /\ Len(t) = Len(s) - 1 /\ Len(s) \in Nat \ {0} /\ Head(s) = s[1]
        /\ \A i \in 1 .. (Len(s) - 1) : i + 1 \in 1 .. Len(s) /\ t[i] = s[i + 1]
    BY TailFacts
  <1>2. \A y : y \in ToSet(t) <=> \E i \in 1 .. Len(t) : t[i] = y
    <2>1. t \in Seq(S) BY <1>1
    <2> HIDE DEF t
    <2>2. QED BY <2>1, ElementFacts
  <1> HIDE DEF t
  <1>3. ASSUME NEW i \in 1 .. Len(t), NEW j \in 1 .. Len(t), t[i] = t[j] PROVE i = j
    <2>1. /\ i + 1 \in 1 .. Len(s) /\ j + 1 \in 1 .. Len(s) /\ s[i + 1] = s[j + 1] BY <1>1, <1>3
    <2>2. i + 1 = j + 1 BY <2>1 DEF Distinct
    <2>3. QED BY <2>2
  <1>4. \A i \in 1 .. Len(t) : t[i] # s[1]
    <2> SUFFICES ASSUME NEW i \in 1 .. Len(t), t[i] = s[1] PROVE FALSE OBVIOUS
    <2>1. i + 1 \in 1 .. Len(s) /\ 1 \in 1 .. Len(s) /\ s[i + 1] = s[1] /\ i + 1 # 1 BY <1>1
    <2>2. QED BY <2>1 DEF Distinct
  <1>5. QED BY <1>1, <1>2, <1>3, <1>4 DEF Distinct, t

-----------------------------------------------------------------------------
(* The elements of a sequence that are in a set.                           *)

LEMMA OnlyFacts ==
  ASSUME NEW S, NEW s \in Seq(S), NEW T
  PROVE  /\ Only(s, T) \in Seq(S)
         /\ ToSet(Only(s, T)) = ToSet(s) \cap T
         /\ Distinct(s) => Distinct(Only(s, T))
         /\ S \subseteq Nat /\ Increasing(s) => Increasing(Only(s, T))
  <1> DEFINE o == Only(s, T)
  <1>1. /\ o \in Seq(S) /\ \E e : Picks(s, o, e)
        /\ \A i \in 1 .. Len(o) : o[i] \in T
        /\ \A i \in 1 .. Len(s) : s[i] \in T => \E j \in 1 .. Len(o) : o[j] = s[i]
    BY OnlyKeeps
  <1> HIDE DEF o
  <1>2. PICK e : Picks(s, o, e) BY <1>1
  <1>3. /\ Len(o) \in Nat /\ \A i \in 1 .. Len(o) : e[i] \in 1 .. Len(s) /\ o[i] = s[e[i]]
        /\ \A i, j \in 1 .. Len(o) : i < j => e[i] < e[j]
    BY <1>1, <1>2, ElementFacts DEF Picks
  <1>4. ToSet(o) = ToSet(s) \cap T
    <2>1. \A x : x \in ToSet(s) <=> \E i \in 1 .. Len(s) : s[i] = x BY ElementFacts
    <2>2. \A x : x \in ToSet(o) <=> \E i \in 1 .. Len(o) : o[i] = x BY <1>1, ElementFacts
    <2>3. QED BY <1>1, <1>3, <2>1, <2>2
  <1>5. ASSUME Distinct(s) PROVE Distinct(o)
    <2> SUFFICES ASSUME NEW i \in 1 .. Len(o), NEW j \in 1 .. Len(o), o[i] = o[j] PROVE i = j
      BY DEF Distinct
    <2>1. e[i] = e[j] /\ e[i] \in Nat BY <1>3, <1>5 DEF Distinct
    <2>2. QED BY <1>3, <2>1
  <1>6. ASSUME S \subseteq Nat, Increasing(s) PROVE Increasing(o) BY <1>3, <1>6 DEF Increasing
  <1>7. QED BY <1>1, <1>4, <1>5, <1>6 DEF o

-----------------------------------------------------------------------------
(* Where frames start.                                                     *)

Frames(c) == Script[c].frames
FrameCount(c) == Len(Script[c].frames)

LEMMA FrameFacts ==
  ASSUME NEW f, IsFrame(f)
  PROVE  /\ FrameSize(f) \in Nat /\ FrameSize(f) >= 2
         /\ \A n \in Int : to_websocket_entity_consumed(n, f) # 0 <=> n >= FrameSize(f)
  <1>1. f.bits \in {7, 16, 64} /\ f.mask \in BOOLEAN /\ f.len \in Nat BY DEF IsFrame
  <1>2. ExtendedLength(f.bits) \in Nat BY <1>1 DEF ExtendedLength
  <1> DEFINE e == ExtendedLength(f.bits)
             m == IF f.mask THEN 4 ELSE 0
  <1>3. m \in Nat OBVIOUS
  <1>4. FrameSize(f) = 2 + e + m + f.len BY DEF FrameSize
  <1>5. \A n : to_websocket_entity_consumed(n, f)
                 = IF n < 2 + e \/ n < (2 + e) + m \/ f.len > n - ((2 + e) + m)
                   THEN 0 ELSE ((2 + e) + m) + f.len
    BY DEF to_websocket_entity_consumed
  <1> HIDE DEF e, m
  <1>6. e \in Nat BY <1>2 DEF e
  <1>7. QED BY <1>1, <1>3, <1>4, <1>5, <1>6

LEMMA ScriptFacts ==
  ASSUME NEW c \in Conns
  PROVE  /\ FrameCount(c) \in Nat /\ DOMAIN Frames(c) = 1 .. FrameCount(c)
         /\ \A i \in 1 .. FrameCount(c) : IsFrame(Frames(c)[i])
         /\ RequestSize(Script[c].request) \in Nat
  <1>1. /\ FrameCount(c) \in Nat /\ DOMAIN Frames(c) = 1 .. FrameCount(c)
        /\ \A i \in 1 .. FrameCount(c) : IsFrame(Frames(c)[i])
        /\ Len(Script[c].request.headers) \in Nat
    BY ServerConstants DEF FrameCount, Frames
  <1> DEFINE n == Len(Script[c].request.headers)
  <1>2. n \in Nat BY <1>1
  <1> HIDE DEF n
  <1>3. LineSize \in Nat /\ 1 + n \in Nat BY <1>2, HandshakeConstants
  <1>4. LineSize * (1 + n) \in Nat BY <1>3
  <1>5. LineSize * (1 + n) + 2 \in Nat BY <1>4
  <1>6. QED BY <1>1, <1>5 DEF RequestSize, n

StartLaw(c, k, g) ==
  g = [i \in 1 .. k |-> IF i = 1 THEN RequestSize(Script[c].request)
                        ELSE g[i - 1] + FrameSize(Script[c].frames[i - 1])]

\* The recursion defines a function.
LEMMA StartDefined ==
  ASSUME NEW c \in Conns
  PROVE  /\ FrameStart(c, 1) = RequestSize(Script[c].request)
         /\ \A i \in 2 .. (FrameCount(c) + 1) :
              FrameStart(c, i) = FrameStart(c, i - 1) + FrameSize(Frames(c)[i - 1])
  <1> DEFINE first == RequestSize(Script[c].request)
             Sz(i) == FrameSize(Script[c].frames[i])
             P == {k \in Nat : \E g : StartLaw(c, k, g)}
  <1>1. 0 \in P
    <2> DEFINE g == [i \in 1 .. 0 |-> first]
    <2>1. g = [i \in 1 .. 0 |-> IF i = 1 THEN first ELSE g[i - 1] + Sz(i - 1)]
      OBVIOUS
    <2>2. StartLaw(c, 0, g) BY <2>1 DEF StartLaw
    <2>3. QED BY <2>2
  <1>2. ASSUME NEW k \in Nat, k \in P PROVE k + 1 \in P
    <2>1. PICK g : StartLaw(c, k, g) BY <1>2
    <2>2. g = [i \in 1 .. k |-> IF i = 1 THEN first ELSE g[i - 1] + Sz(i - 1)]
      BY <2>1 DEF StartLaw
    <2>3. \A i \in 1 .. k : g[i] = IF i = 1 THEN first ELSE g[i - 1] + Sz(i - 1)
      BY <2>2, Zenon
    <2> HIDE DEF first, Sz
    <2> DEFINE h == [i \in 1 .. (k + 1) |-> IF i <= k THEN g[i] ELSE IF i = 1 THEN first
                                            ELSE g[k] + Sz(i - 1)]
               rhs == [i \in 1 .. (k + 1) |-> IF i = 1 THEN first ELSE h[i - 1] + Sz(i - 1)]
    <2>4. ASSUME NEW i \in 1 .. (k + 1)
          PROVE  h[i] = IF i = 1 THEN first ELSE h[i - 1] + Sz(i - 1)
      <3>1. h[i] = IF i <= k THEN g[i] ELSE IF i = 1 THEN first ELSE g[k] + Sz(i - 1) OBVIOUS
      <3>2. CASE i = 1
        <4>1. 1 <= k => 1 \in 1 .. k OBVIOUS
        <4>2. 1 <= k => g[1] = first BY <2>3, <4>1
        <4> HIDE DEF h
        <4>3. QED BY <3>1, <3>2, <4>2
      <3>3. CASE i # 1 /\ i <= k
        <4>1. i \in 1 .. k /\ i - 1 \in 1 .. (k + 1) /\ i - 1 <= k BY <3>3
        <4>2. h[i - 1] = g[i - 1] BY <4>1
        <4>3. h[i] = g[i] BY <3>1, <3>3
        <4>4. g[i] = g[i - 1] + Sz(i - 1) BY <2>3, <3>3, <4>1
        <4> HIDE DEF h
        <4>5. QED BY <3>3, <4>2, <4>3, <4>4
      <3>4. CASE i # 1 /\ ~(i <= k)
        <4>1. i = k + 1 /\ i - 1 = k /\ k \in 1 .. (k + 1) /\ k <= k BY <3>4
        <4>2. h[i - 1] = g[k] BY <4>1
        <4>3. h[i] = g[k] + Sz(i - 1) BY <3>1, <3>4
        <4> HIDE DEF h
        <4>4. QED BY <3>4, <4>2, <4>3
      <3>5. QED BY <3>2, <3>3, <3>4
    <2>5. h = rhs
      <3>1. \A i \in 1 .. (k + 1) : rhs[i] = IF i = 1 THEN first ELSE h[i - 1] + Sz(i - 1)
        BY Zenon
      <3>2. \A i \in 1 .. (k + 1) : h[i] = rhs[i] BY <2>4, <3>1, Zenon
      <3>3. h \in [1 .. (k + 1) -> {h[i] : i \in 1 .. (k + 1)}] OBVIOUS
      <3>4. rhs \in [1 .. (k + 1) -> {rhs[i] : i \in 1 .. (k + 1)}]
        <4> HIDE DEF h
        <4>1. QED OBVIOUS
      <3> DEFINE D == 1 .. (k + 1)
                 R == {h[i] : i \in D}
      <3> HIDE DEF h, rhs
      <3>5. {rhs[i] : i \in D} = R BY <3>2
      <3>6. h \in [D -> R] /\ rhs \in [D -> R] /\ \A i \in D : h[i] = rhs[i] BY <3>2, <3>3, <3>4, <3>5
      <3> HIDE DEF D, R
      <3>7. QED BY <3>6
    <2>6. StartLaw(c, k + 1, h) BY <2>5, Zenon DEF StartLaw, first, Sz
    <2> HIDE DEF h
    <2>7. QED BY <2>6
  <1>3. Nat \subseteq P
    <2> HIDE DEF P
    <2>1. QED BY <1>1, <1>2, SetInduction
  <1>4. FrameCount(c) \in Nat BY ScriptFacts
  <1> DEFINE N == FrameCount(c) + 1
             S == FrameStarts(c)
  <1>5. \E g : StartLaw(c, N, g)
    <2>1. N \in Nat BY <1>4
    <2>2. QED BY <1>3, <2>1
  <1>6. S = CHOOSE g : StartLaw(c, N, g) BY Zenon DEF FrameStarts, StartLaw, FrameCount
  <1>7. StartLaw(c, N, S) BY <1>5, <1>6, Zenon
  <1> HIDE DEF S
  <1>8. \A i \in 1 .. N : S[i] = IF i = 1 THEN first ELSE S[i - 1] + Sz(i - 1)
    BY <1>7, Zenon DEF StartLaw
  <1>9. S[1] = first
    <2>1. 1 \in 1 .. N BY <1>4
    <2>2. QED BY <1>8, <2>1
  <1>10. ASSUME NEW i \in 2 .. N PROVE S[i] = S[i - 1] + Sz(i - 1)
    <2>1. i \in 1 .. N /\ i # 1 BY <1>4
    <2>2. QED BY <1>8, <2>1
  <1>11. QED BY <1>9, <1>10 DEF S, FrameStart, Frames

\* A later frame starts later.
LEMMA StartFacts ==
  ASSUME NEW c \in Conns
  PROVE  /\ FrameStart(c, 1) = RequestSize(Script[c].request)
         /\ \A i \in 1 .. (FrameCount(c) + 1) : FrameStart(c, i) \in Nat
         /\ \A i \in 1 .. FrameCount(c) :
              FrameStart(c, i + 1) = FrameStart(c, i) + FrameSize(Frames(c)[i])
         /\ \A i, j \in 1 .. (FrameCount(c) + 1) : i < j => FrameStart(c, i) < FrameStart(c, j)
  <1> DEFINE N == FrameCount(c) + 1
             F(i) == FrameStart(c, i)
             P == {k \in Nat : k <= N => /\ \A i \in 1 .. k : F(i) \in Nat
                                         /\ \A i, j \in 1 .. k : i < j => F(i) < F(j)}
  <1>1. /\ FrameCount(c) \in Nat /\ RequestSize(Script[c].request) \in Nat
        /\ \A i \in 1 .. FrameCount(c) : IsFrame(Frames(c)[i])
    BY ScriptFacts
  <1>2. F(1) = RequestSize(Script[c].request) BY StartDefined
  <1>3. ASSUME NEW i \in 1 .. FrameCount(c)
        PROVE  F(i + 1) = F(i) + FrameSize(Frames(c)[i])
    <2>1. i + 1 \in 2 .. (FrameCount(c) + 1) /\ (i + 1) - 1 = i BY <1>1
    <2>2. F(i + 1) = F((i + 1) - 1) + FrameSize(Frames(c)[(i + 1) - 1]) BY <2>1, StartDefined
    <2>3. QED BY <2>1, <2>2
  <1>4. \A i \in 1 .. FrameCount(c) : FrameSize(Frames(c)[i]) \in Nat /\ FrameSize(Frames(c)[i]) >= 2
    BY <1>1, FrameFacts
  <1>5. N \in Nat BY <1>1
  <1> HIDE DEF F
  <1>6. 0 \in P OBVIOUS
  <1>7. ASSUME NEW k \in Nat, k \in P PROVE k + 1 \in P
    <2> SUFFICES ASSUME k + 1 <= N
                 PROVE  /\ \A i \in 1 .. (k + 1) : F(i) \in Nat
                        /\ \A i, j \in 1 .. (k + 1) : i < j => F(i) < F(j)
      OBVIOUS
    <2>1. /\ \A i \in 1 .. k : F(i) \in Nat /\ \A j \in 1 .. k : i < j => F(i) < F(j)
      BY <1>5, <1>7
    <2>2. CASE k = 0
      <3>1. \A i \in 1 .. (k + 1) : i = 1 BY <2>2
      <3>2. F(1) \in Nat BY <1>1, <1>2
      <3>3. QED BY <3>1, <3>2
    <2>3. CASE k # 0
      <3>1. k \in 1 .. FrameCount(c) /\ k \in 1 .. k BY <1>1, <2>3
      <3>2. F(k + 1) = F(k) + FrameSize(Frames(c)[k]) BY <1>3, <3>1
      <3>3. F(k) \in Nat BY <2>1, <3>1
      <3>4. F(k + 1) \in Nat /\ F(k) < F(k + 1) BY <1>4, <3>1, <3>2, <3>3
      <3>5. \A i \in 1 .. k : F(i) < F(k + 1)
        <4> SUFFICES ASSUME NEW i \in 1 .. k PROVE F(i) < F(k + 1) OBVIOUS
        <4>1. F(i) \in Nat /\ (i < k => F(i) < F(k)) BY <2>1, <3>1
        <4>2. i < k \/ i = k OBVIOUS
        <4>3. CASE i < k BY <3>3, <3>4, <4>1, <4>3
        <4>4. CASE i = k BY <3>4, <4>4
        <4>5. QED BY <4>2, <4>3, <4>4
      <3>6. \A i \in 1 .. (k + 1) : i \in 1 .. k \/ i = k + 1 OBVIOUS
      <3>7. \A i \in 1 .. (k + 1) : F(i) \in Nat BY <2>1, <3>4, <3>6
      <3>8. ASSUME NEW i \in 1 .. (k + 1), NEW j \in 1 .. (k + 1), i < j PROVE F(i) < F(j)
        <4>1. i \in 1 .. k BY <3>8
        <4>2. CASE j \in 1 .. k BY <2>1, <3>8, <4>1, <4>2
        <4>3. CASE j = k + 1 BY <3>5, <4>1, <4>3
        <4>4. QED BY <3>6, <4>2, <4>3
      <3>9. QED BY <3>7, <3>8
    <2>4. QED BY <2>2, <2>3
  <1>8. Nat \subseteq P
    <2> HIDE DEF P
    <2>1. QED BY <1>6, <1>7, SetInduction
  <1>9. /\ \A i \in 1 .. N : F(i) \in Nat
        /\ \A i, j \in 1 .. N : i < j => F(i) < F(j)
    BY <1>5, <1>8
  <1>10. QED BY <1>2, <1>3, <1>9 DEF F

LEMMA WholeFacts ==
  ASSUME NEW c \in Conns, NEW a \in Nat, NEW b \in Nat
  PROVE  /\ WholeFrames(c, a, b) \in Seq(Nat) /\ Increasing(WholeFrames(c, a, b))
         /\ \A i : i \in ToSet(WholeFrames(c, a, b)) <=>
                     /\ i \in 1 .. FrameCount(c)
                     /\ FrameStart(c, i) >= a /\ FrameStart(c, i + 1) <= b
  <1> DEFINE N == FrameCount(c)
             all == [i \in 1 .. N |-> i]
             T == {i \in 1 .. N : /\ FrameStart(c, i) >= a
                                  /\ to_websocket_entity_consumed(b - FrameStart(c, i), Frames(c)[i]) # 0}
  <1>1. /\ N \in Nat /\ DOMAIN Frames(c) = 1 .. N
        /\ \A i \in 1 .. N : IsFrame(Frames(c)[i])
    BY ScriptFacts
  <1>2. WholeFrames(c, a, b) = Only(all, T) BY <1>1 DEF WholeFrames, Frames
  <1> HIDE DEF N
  <1>3. all \in Seq(Nat) /\ Len(all) = N /\ \A i \in 1 .. N : all[i] = i BY <1>1
  <1> HIDE DEF all, T
  <1>4. Increasing(all) BY <1>3 DEF Increasing
  <1>5. Only(all, T) \in Seq(Nat) /\ ToSet(Only(all, T)) = ToSet(all) \cap T /\ Increasing(Only(all, T))
    <2>1. Nat \subseteq Nat OBVIOUS
    <2>2. QED BY <1>3, <1>4, <2>1, OnlyFacts
  <1>6. \A i : i \in ToSet(all) <=> i \in 1 .. N
    <2>1. \A x : x \in ToSet(all) <=> \E i \in 1 .. Len(all) : all[i] = x BY <1>3, ElementFacts
    <2>2. QED BY <1>3, <2>1
  <1>7. ASSUME NEW i \in 1 .. N
        PROVE  to_websocket_entity_consumed(b - FrameStart(c, i), Frames(c)[i]) # 0
                 <=> FrameStart(c, i + 1) <= b
    <2>1. i \in 1 .. (N + 1) BY <1>1
    <2>2. FrameStart(c, i) \in Nat /\ FrameStart(c, i + 1) = FrameStart(c, i) + FrameSize(Frames(c)[i])
      BY <2>1, StartFacts DEF N
    <2> DEFINE n == b - FrameStart(c, i)
    <2>3. n \in Int /\ FrameSize(Frames(c)[i]) \in Nat BY <1>1, <2>2, FrameFacts
    <2>4. to_websocket_entity_consumed(n, Frames(c)[i]) # 0 <=> n >= FrameSize(Frames(c)[i])
      <3> HIDE DEF n
      <3>1. QED BY <1>1, <2>3, FrameFacts
    <2>5. n >= FrameSize(Frames(c)[i]) <=> FrameStart(c, i + 1) <= b BY <2>2, <2>3
    <2>6. QED BY <2>4, <2>5
  <1>8. \A i : i \in T <=> i \in 1 .. N /\ FrameStart(c, i) >= a /\ FrameStart(c, i + 1) <= b
    BY <1>7 DEF T
  <1>9. QED BY <1>2, <1>5, <1>6, <1>8 DEF N

-----------------------------------------------------------------------------
(* The invariant.                                                          *)

EventSet == [fd : Fds \cup {NoFd}, conn : Conns \cup {0}, hup : BOOLEAN]
MessageSet == [fd : Fds, conn : Conns, len : Nat, pong : BOOLEAN]
SubSet == [fd : Fds, conn : Conns]
Places == {"batch", "accepted", "handshake", "frames", "sending", "stopped", "killed"}

Types ==
  /\ backlog \in Seq(Conns) /\ ready \in Seq({Listening} \cup Conns) /\ batch \in Seq(EventSet)
  /\ todo \in Seq(Nat) /\ sends \in Seq(MessageSet) /\ subs \in Seq(SubSet)
  /\ fds \in [Fds -> Conns \cup {0}] /\ phase \in [Conns -> {"idle", "queued", "open", "gone"}]
  /\ sent \in [Conns -> Nat] /\ read \in [Conns -> Nat] /\ handled \in [Conns -> Seq(Nat)]
  /\ hup \subseteq Conns /\ full \subseteq Conns /\ cut \subseteq Conns /\ left \subseteq Conns
  /\ stalls \in Nat /\ stranded \in Nat
  /\ pc \in Places /\ current \in Fds \cup {NoFd}
  /\ signal \in BOOLEAN /\ interrupted \in BOOLEAN

QueueOK ==
  /\ Distinct(backlog)
  /\ \A c \in Conns : c \in ToSet(backlog) <=> phase[c] = "queued"

OpenOK ==
  /\ \A f, g \in Fds : fds[f] = fds[g] /\ fds[f] # 0 => f = g
  /\ \A c \in Conns : phase[c] = "open" <=> \E fd \in Fds : fds[fd] = c

\* What is on the ready list is watched, once.
ReadyOK ==
  /\ Distinct(ready)
  /\ \A c \in ToSet(ready) : c # Listening => phase[c] = "open" /\ ~(pc = "accepted" /\ fds[current] = c)

\* A batch has at most one event of each connection and of the listening
\* socket.
BatchOK ==
  /\ \A i, j \in 1 .. Len(batch) : batch[i].conn = batch[j].conn => i = j
  /\ \A i \in 1 .. Len(batch) : batch[i].fd = NoFd <=> batch[i].conn = 0

SubsCurrent == \A x \in ToSet(subs) : fds[x.fd] = x.conn
SendsCurrent == \A x \in ToSet(sends) : fds[x.fd] = x.conn
BatchCurrent == \A x \in ToSet(batch) : x.fd # NoFd => fds[x.fd] = x.conn

\* Which event is under way at each place of the loop.  A connection that has
\* just been accepted is in nobody's books.
Welcoming == pc \in {"accepted", "handshake"}
Serving == pc \in {"frames", "sending"}
PlaceOK ==
  /\ Welcoming =>
       /\ current # NoFd /\ fds[current] # 0 /\ batch # <<>> /\ Head(batch).fd = NoFd
       /\ \A x \in ToSet(subs) : x.fd # current
       /\ \A x \in ToSet(batch) : x.fd # current
  /\ Serving => current # NoFd /\ batch # <<>> /\ Head(batch).fd = current
  /\ pc \in {"batch", "stopped"} => current = NoFd
  /\ pc \notin {"frames", "sending", "killed"} => todo = <<>>
  /\ pc \notin {"sending", "killed"} => sends = <<>>

\* An event of the listening socket that has not been taken.
Pending == \E i \in 1 .. Len(batch) : batch[i].fd = NoFd /\ ~(i = 1 /\ Welcoming)
One(b) == IF b THEN 1 ELSE 0
DebtOK ==
  ~signal /\ Running =>
    Len(backlog) = stranded + (One(Listening \in ToSet(ready)) + One(Pending))

\* Nothing has been read of a connection before its handshake; later, unless
\* a read was cut, whole frames have.
Fresh(c) == phase[c] \in {"idle", "queued"} \/ (Welcoming /\ fds[current] = c)
ReadOK ==
  \A c \in Conns :
    /\ read[c] <= sent[c]
    /\ Fresh(c) => read[c] = 0 /\ handled[c] = <<>>
    /\ Running /\ phase[c] = "open" /\ ~Fresh(c) /\ c \notin cut => read[c] \in Boundaries(c)

\* The frames handled lie in what has been read, and before the ones to do.
InRead(c, x) == x \in 1 .. FrameCount(c) /\ FrameStart(c, x + 1) <= read[c]
HandledOK ==
  /\ \A c \in Conns : \A x \in ToSet(handled[c]) : InRead(c, x)
  /\ Serving => /\ Increasing(todo)
                /\ \A x \in ToSet(todo) : /\ InRead(fds[current], x)
                                          /\ \A y \in ToSet(handled[fds[current]]) : y < x

ServerInv ==
  /\ Types /\ QueueOK /\ OpenOK /\ ReadyOK /\ BatchOK /\ SubsCurrent /\ SendsCurrent /\ BatchCurrent
  /\ PlaceOK /\ DebtOK /\ ReadOK /\ HandledOK /\ InOrder

LEMMA ConnFacts == /\ Conns \subseteq Nat \ {0} /\ Fds = Conns /\ Listening = 0 /\ NoFd = 0
                   /\ 0 \notin Conns
  <1>1. Cardinality(Conns) \in Nat BY ServerConstants, FS_CardinalityType
  <1>2. QED BY <1>1, ServerConstants DEF Fds, Listening, NoFd

LEMMA EmptySeqFacts ==
  /\ \A S : <<>> \in Seq(S)
  /\ ToSet(<<>>) = {} /\ Len(<<>>) = 0 /\ Distinct(<<>>) /\ Increasing(<<>>)
  <1>1. Len(<<>>) = 0 /\ \A S : <<>> \in Seq(S) OBVIOUS
  <1>2. QED BY <1>1 DEF ToSet, Distinct, Increasing

LEMMA ServerInitInv == ServerInit => ServerInv
  <1> SUFFICES ASSUME ServerInit PROVE ServerInv OBVIOUS
  <1>1. Types BY EmptySeqFacts DEF ServerInit, Types, Places
  <1>2. QueueOK BY EmptySeqFacts DEF ServerInit, QueueOK
  <1>3. OpenOK BY ConnFacts DEF ServerInit, OpenOK
  <1>4. ReadyOK /\ BatchOK BY EmptySeqFacts DEF ServerInit, ReadyOK, BatchOK
  <1>5. SubsCurrent /\ SendsCurrent /\ BatchCurrent
    BY EmptySeqFacts DEF ServerInit, SubsCurrent, SendsCurrent, BatchCurrent
  <1>6. PlaceOK BY DEF ServerInit, PlaceOK, Welcoming, Serving
  <1>7. DebtOK BY EmptySeqFacts DEF ServerInit, DebtOK, Pending, One
  <1>8. ReadOK BY DEF ServerInit, ReadOK, Fresh
  <1>9. HandledOK BY EmptySeqFacts DEF ServerInit, HandledOK, Serving
  <1>10. InOrder BY EmptySeqFacts DEF ServerInit, InOrder
  <1>11. QED BY <1>1, <1>2, <1>3, <1>4, <1>5, <1>6, <1>7, <1>8, <1>9, <1>10 DEF ServerInv

-----------------------------------------------------------------------------
(* What depends on what.                                                   *)

LEMMA Unchanged ==
  ASSUME ServerInv
  PROVE  /\ UNCHANGED <<backlog, phase>> => QueueOK'
         /\ UNCHANGED <<fds, phase>> => OpenOK'
         /\ UNCHANGED <<ready, phase, pc, fds, current>> => ReadyOK'
         /\ UNCHANGED batch => BatchOK'
         /\ UNCHANGED <<subs, fds>> => SubsCurrent'
         /\ UNCHANGED <<sends, fds>> => SendsCurrent'
         /\ UNCHANGED <<batch, fds>> => BatchCurrent'
         /\ UNCHANGED <<pc, current, fds, batch, subs, todo, sends>> => PlaceOK'
         /\ UNCHANGED <<signal, pc, backlog, stranded, ready, batch>> => DebtOK'
         /\ UNCHANGED <<read, sent, phase, pc, fds, current, handled, cut>> => ReadOK'
         /\ UNCHANGED <<handled, read, pc, todo, fds, current>> => HandledOK'
         /\ UNCHANGED <<handled, phase, cut, read, current, fds, todo>> => InOrder'
  <1>1. UNCHANGED <<backlog, phase>> => QueueOK' BY DEF ServerInv, QueueOK
  <1>2. UNCHANGED <<fds, phase>> => OpenOK' BY DEF ServerInv, OpenOK
  <1>3. UNCHANGED <<ready, phase, pc, fds, current>> => ReadyOK' BY DEF ServerInv, ReadyOK
  <1>4. UNCHANGED batch => BatchOK' BY DEF ServerInv, BatchOK
  <1>5. /\ UNCHANGED <<subs, fds>> => SubsCurrent'
        /\ UNCHANGED <<sends, fds>> => SendsCurrent'
        /\ UNCHANGED <<batch, fds>> => BatchCurrent'
    BY DEF ServerInv, SubsCurrent, SendsCurrent, BatchCurrent
  <1>6. UNCHANGED <<pc, current, fds, batch, subs, todo, sends>> => PlaceOK'
    BY DEF ServerInv, PlaceOK, Welcoming, Serving
  <1>7. UNCHANGED <<signal, pc, backlog, stranded, ready, batch>> => DebtOK'
    BY DEF ServerInv, DebtOK, Pending, Running, Welcoming, One
  <1>8. UNCHANGED <<read, sent, phase, pc, fds, current, handled, cut>> => ReadOK'
    BY DEF ServerInv, ReadOK, Fresh, Running, Welcoming
  <1>9. UNCHANGED <<handled, read, pc, todo, fds, current>> => HandledOK'
    BY DEF ServerInv, HandledOK, Serving, InRead
  <1>10. UNCHANGED <<handled, phase, cut, read, current, fds, todo>> => InOrder'
    BY DEF ServerInv, InOrder
  <1>11. QED BY <1>1, <1>2, <1>3, <1>4, <1>5, <1>6, <1>7, <1>8, <1>9, <1>10, Zenon

-----------------------------------------------------------------------------
(* Clients, the kernel and the signal handler.                             *)

LEMMA MakeReadyFacts ==
  ASSUME ServerInv, NEW x \in {Listening} \cup Conns
  PROVE  /\ MakeReady(x) \in Seq({Listening} \cup Conns) /\ Distinct(MakeReady(x))
         /\ ToSet(MakeReady(x)) = ToSet(ready) \cup {x}
  <1>1. ready \in Seq({Listening} \cup Conns) /\ Distinct(ready) BY DEF ServerInv, Types, ReadyOK
  <1>2. CASE x \in ToSet(ready) BY <1>1, <1>2 DEF MakeReady
  <1>3. CASE x \notin ToSet(ready)
    <2>1. MakeReady(x) = Append(ready, x) BY <1>3 DEF MakeReady
    <2>2. QED BY <1>1, <1>3, <2>1, AppendFacts, AppendDistinct
  <1>4. QED BY <1>2, <1>3

LEMMA NotifyFacts ==
  ASSUME ServerInv, NEW c \in Conns, Notify(c), UNCHANGED <<phase, pc, fds, current>>
  PROVE  /\ ready' \in Seq({Listening} \cup Conns) /\ ReadyOK'
         /\ Listening \in ToSet(ready') <=> Listening \in ToSet(ready)
  <1>1. /\ ready \in Seq({Listening} \cup Conns) /\ Distinct(ready)
        /\ \A d \in ToSet(ready) : d # Listening => phase[d] = "open" /\ ~(pc = "accepted" /\ fds[current] = d)
    BY DEF ServerInv, Types, ReadyOK
  <1>2. CASE ~Watched(c)
    <2>1. ready' = ready BY <1>2 DEF Notify
    <2>2. QED BY <1>1, <2>1, Unchanged
  <1>3. CASE Watched(c)
    <2>1. ready' = MakeReady(c) BY <1>3 DEF Notify
    <2>2. /\ ready' \in Seq({Listening} \cup Conns) /\ Distinct(ready')
          /\ ToSet(ready') = ToSet(ready) \cup {c}
      BY <2>1, MakeReadyFacts
    <2>3. phase[c] = "open" /\ ~(pc = "accepted" /\ fds[current] = c) BY <1>3 DEF Watched
    <2>4. c # Listening BY ConnFacts
    <2>5. \A d \in ToSet(ready') :
            d # Listening => phase'[d] = "open" /\ ~(pc' = "accepted" /\ fds'[current'] = d)
      BY <1>1, <2>2, <2>3
    <2>6. QED BY <2>2, <2>4, <2>5 DEF ReadyOK
  <1>4. QED BY <1>2, <1>3

LEMMA ConnectInv ==
  ASSUME ServerInv, NEW c \in Conns, Connect(c)
  PROVE  ServerInv'
  <1>1. /\ phase[c] = "idle" /\ phase' = [phase EXCEPT ![c] = "queued"] /\ backlog' = Append(backlog, c)
        /\ stranded' = IF Listening \in ToSet(ready) THEN stranded + 1 ELSE stranded
        /\ ready' = MakeReady(Listening)
        /\ UNCHANGED <<fds, read, batch, pc, current, todo, sends, subs, handled, cut, left>>
        /\ UNCHANGED <<sent, hup, full, stalls, signal, interrupted>>
    BY DEF Connect, loopVars
  <1>2. Types /\ QueueOK /\ OpenOK /\ ReadyOK /\ DebtOK /\ ReadOK /\ InOrder BY DEF ServerInv
  <1>3. /\ ready' \in Seq({Listening} \cup Conns) /\ Distinct(ready')
        /\ ToSet(ready') = ToSet(ready) \cup {Listening}
    BY <1>1, MakeReadyFacts
  <1>4. /\ backlog' \in Seq(Conns) /\ Len(backlog') = Len(backlog) + 1 /\ Len(backlog) \in Nat
        /\ ToSet(backlog') = ToSet(backlog) \cup {c}
    <2>1. backlog \in Seq(Conns) BY <1>2 DEF Types
    <2>2. QED BY <1>1, <2>1, AppendFacts, ElementFacts
  <1>5. Types' BY <1>1, <1>2, <1>3, <1>4 DEF Types
  <1>6. QueueOK'
    <2>1. c \notin ToSet(backlog) BY <1>1, <1>2 DEF QueueOK
    <2>2. Distinct(backlog') BY <1>1, <1>2, <2>1, AppendDistinct DEF Types, QueueOK
    <2>3. \A d \in Conns : d \in ToSet(backlog') <=> phase'[d] = "queued"
      BY <1>1, <1>2, <1>4 DEF Types, QueueOK
    <2>4. QED BY <2>2, <2>3 DEF QueueOK
  <1>7. \A d \in Conns : phase'[d] = "open" <=> phase[d] = "open" BY <1>1, <1>2 DEF Types
  <1>8. OpenOK' BY <1>1, <1>2, <1>7 DEF OpenOK
  <1>9. ReadyOK'
    <2>1. ToSet(ready) \subseteq {Listening} \cup Conns BY <1>2, ElementFacts DEF Types
    <2>2. QED BY <1>1, <1>2, <1>3, <1>7, <2>1 DEF ReadyOK
  <1>10. DebtOK'
    <2>1. Running' = Running /\ Pending' = Pending BY <1>1 DEF Running, Pending, Welcoming
    <2>2. Listening \in ToSet(ready') BY <1>3
    <2>3. stranded \in Nat BY <1>2 DEF Types
    <2>4. One(Pending) \in Nat BY DEF One
    <2>5. QED BY <1>1, <1>2, <1>4, <2>1, <2>2, <2>3, <2>4 DEF DebtOK, One
  <1>11. ReadOK'
    <2>1. \A d \in Conns : Fresh(d)' <=> Fresh(d) BY <1>1, <1>2 DEF Fresh, Welcoming, Types
    <2>2. Running' = Running BY <1>1 DEF Running
    <2>3. QED BY <1>1, <1>2, <1>7, <2>1, <2>2 DEF ReadOK
  <1>12. InOrder' BY <1>1, <1>2, <1>7 DEF InOrder
  <1>13. QED BY <1>1, <1>5, <1>6, <1>8, <1>9, <1>10, <1>11, <1>12, Unchanged DEF ServerInv

\* A step that only makes a connection ready, and may add to what it has sent.
LEMMA NotifyInv ==
  ASSUME ServerInv, NEW c \in Conns, Notify(c),
         sent' \in [Conns -> Nat], \A d \in Conns : sent[d] <= sent'[d],
         hup' \subseteq Conns,
         UNCHANGED <<loopVars, backlog, phase, full, stalls, stranded, signal, interrupted>>
  PROVE  ServerInv'
  <1>1. /\ UNCHANGED <<fds, read, batch, pc, current, todo, sends, subs, handled, cut, left>>
        /\ UNCHANGED <<backlog, phase, full, stalls, stranded, signal, interrupted>>
    BY DEF loopVars
  <1>2. /\ ready' \in Seq({Listening} \cup Conns) /\ ReadyOK'
        /\ Listening \in ToSet(ready') <=> Listening \in ToSet(ready)
    BY <1>1, NotifyFacts
  <1>3. Types /\ DebtOK /\ ReadOK BY DEF ServerInv
  <1>4. Types' BY <1>1, <1>2, <1>3 DEF Types
  <1>5. DebtOK'
    <2>1. Running' = Running /\ Pending' = Pending BY <1>1 DEF Running, Pending, Welcoming
    <2>2. One(Listening \in ToSet(ready')) = One(Listening \in ToSet(ready)) BY <1>2 DEF One
    <2>3. QED BY <1>1, <1>3, <2>1, <2>2 DEF DebtOK
  <1>6. ReadOK'
    <2>1. \A d \in Conns : Fresh(d)' <=> Fresh(d) BY <1>1 DEF Fresh, Welcoming
    <2>2. Running' = Running BY <1>1 DEF Running
    <2>3. \A d \in Conns : read'[d] <= sent'[d] BY <1>1, <1>3 DEF ReadOK, Types
    <2>4. QED BY <1>1, <1>3, <2>1, <2>2, <2>3 DEF ReadOK
  <1>7. QED BY <1>1, <1>2, <1>4, <1>5, <1>6, Unchanged DEF ServerInv

LEMMA WriteInv ==
  ASSUME ServerInv, NEW c \in Conns, Write(c)
  PROVE  ServerInv'
  <1>1. Types BY DEF ServerInv
  <1>2. PICK n \in ToSet(Script[c].pieces) : n > sent[c] /\ sent' = [sent EXCEPT ![c] = n] BY DEF Write
  <1>3. n \in Nat BY ServerConstants
  <1>4. sent' \in [Conns -> Nat] /\ \A d \in Conns : sent[d] <= sent'[d] BY <1>1, <1>2, <1>3 DEF Types
  <1>5. hup' \subseteq Conns BY <1>1 DEF Write, Types
  <1>6. QED BY <1>4, <1>5, NotifyInv DEF Write

LEMMA HangUpInv ==
  ASSUME ServerInv, NEW c \in Conns, HangUp(c)
  PROVE  ServerInv'
  <1>1. Types BY DEF ServerInv
  <1>2. sent' \in [Conns -> Nat] /\ \A d \in Conns : sent[d] <= sent'[d] BY <1>1 DEF HangUp, Types
  <1>3. hup' \subseteq Conns BY <1>1 DEF HangUp, Types
  <1>4. QED BY <1>2, <1>3, NotifyInv DEF HangUp

LEMMA StallInv ==
  ASSUME ServerInv, NEW c \in Conns, Stall(c) \/ Drain(c)
  PROVE  ServerInv'
  <1>1. /\ UNCHANGED <<fds, read, batch, pc, current, todo, sends, subs, handled, cut, left>>
        /\ UNCHANGED <<backlog, phase, sent, hup, ready, stranded, signal, interrupted>>
        /\ full' \subseteq full \cup {c} /\ stalls' \in {stalls, stalls + 1}
    BY DEF Stall, Drain, loopVars
  <1>2. Types' BY <1>1 DEF ServerInv, Types
  <1>3. QED BY <1>1, <1>2, Unchanged DEF ServerInv

LEMMA SignalInv ==
  ASSUME ServerInv, signal_handler
  PROVE  ServerInv'
  <1>1. /\ UNCHANGED <<fds, read, batch, pc, current, todo, sends, subs, handled, cut, left>>
        /\ UNCHANGED <<backlog, phase, sent, hup, full, stalls, ready, stranded>>
        /\ signal' = TRUE /\ interrupted' = Waiting
    BY DEF signal_handler, kernelVars, loopVars
  <1>2. Waiting \in BOOLEAN BY DEF Waiting
  <1>3. Types' BY <1>1, <1>2 DEF ServerInv, Types
  <1>4. DebtOK' BY <1>1 DEF DebtOK
  <1>5. QED BY <1>1, <1>3, <1>4, Unchanged DEF ServerInv

-----------------------------------------------------------------------------
(* Closing a connection.                                                   *)

\* The next event of the batch.
LEMMA NextEventFacts ==
  ASSUME ServerInv, batch # <<>>, NextEvent
  PROVE  /\ batch' \in Seq(EventSet) /\ BatchOK'
         /\ Head(batch) \in EventSet /\ Head(batch) \in ToSet(batch) /\ Head(batch) = batch[1]
         /\ (Head(batch).fd = NoFd <=> Head(batch).conn = 0)
         /\ ToSet(batch') \subseteq ToSet(batch)
         /\ \A x \in ToSet(batch') : x.conn # Head(batch).conn
         /\ ~Welcoming' /\ (Welcoming => Head(batch).fd = NoFd)
              /\ (Welcoming \/ Head(batch).fd # NoFd) => One(Pending') = One(Pending)
  <1>1. batch \in Seq(EventSet) /\ BatchOK /\ batch' = Tail(batch)
    BY DEF ServerInv, Types, NextEvent
  <1>2. /\ batch' \in Seq(EventSet) /\ Len(batch') = Len(batch) - 1 /\ Len(batch) \in Nat \ {0}
        /\ \A i \in 1 .. (Len(batch) - 1) : i + 1 \in 1 .. Len(batch) /\ batch'[i] = batch[i + 1]
        /\ Head(batch) = batch[1] /\ Head(batch) \in EventSet /\ Head(batch) \in ToSet(batch)
        /\ ToSet(batch) = {Head(batch)} \cup ToSet(batch')
    BY <1>1, TailFacts
  <1>3. 1 \in 1 .. Len(batch) BY <1>2
  <1>4. BatchOK'
    <2>1. ASSUME NEW i \in 1 .. Len(batch'), NEW j \in 1 .. Len(batch'), batch'[i].conn = batch'[j].conn
          PROVE  i = j
      <3>1. /\ i + 1 \in 1 .. Len(batch) /\ j + 1 \in 1 .. Len(batch)
            /\ batch[i + 1].conn = batch[j + 1].conn
        BY <1>2, <2>1
      <3>2. i + 1 = j + 1 BY <1>1, <3>1 DEF BatchOK
      <3>3. QED BY <1>2, <3>2
    <2>2. \A i \in 1 .. Len(batch') : batch'[i].fd = NoFd <=> batch'[i].conn = 0
      BY <1>1, <1>2 DEF BatchOK
    <2>3. QED BY <2>1, <2>2 DEF BatchOK
  <1>5. \A i \in 1 .. Len(batch') : batch'[i].conn # Head(batch).conn
    <2> SUFFICES ASSUME NEW i \in 1 .. Len(batch'), batch'[i].conn = Head(batch).conn PROVE FALSE
      OBVIOUS
    <2>1. i + 1 \in 1 .. Len(batch) /\ batch[i + 1].conn = batch[1].conn /\ i + 1 # 1 BY <1>2
    <2>2. QED BY <1>1, <1>3, <2>1 DEF BatchOK
  <1>6. \A x : x \in ToSet(batch') <=> \E i \in 1 .. Len(batch') : batch'[i] = x BY <1>2, ElementFacts
  <1>7. \A x \in ToSet(batch') : x.conn # Head(batch).conn BY <1>5, <1>6
  <1>8. Head(batch).fd = NoFd <=> Head(batch).conn = 0 BY <1>1, <1>2, <1>3 DEF BatchOK
  <1>9. ASSUME ~Welcoming', Welcoming => Head(batch).fd = NoFd, Welcoming \/ Head(batch).fd # NoFd
        PROVE  Pending' <=> Pending
    <2>1. ASSUME Pending PROVE Pending'
      <3>1. PICK i \in 1 .. Len(batch) : batch[i].fd = NoFd /\ ~(i = 1 /\ Welcoming) BY <2>1 DEF Pending
      <3>2. i # 1 BY <1>2, <1>9, <3>1
      <3>3. i - 1 \in 1 .. (Len(batch) - 1) /\ (i - 1) + 1 = i BY <1>2, <3>2
      <3>4. batch'[i - 1] = batch[i] BY <1>2, <3>3
      <3>5. QED BY <1>2, <1>9, <3>1, <3>3, <3>4 DEF Pending
    <2>2. ASSUME Pending' PROVE Pending
      <3>1. PICK i \in 1 .. Len(batch') : batch'[i].fd = NoFd BY <2>2 DEF Pending
      <3>2. i + 1 \in 1 .. Len(batch) /\ batch[i + 1].fd = NoFd /\ i + 1 # 1 BY <1>2, <3>1
      <3>3. QED BY <3>2 DEF Pending
    <2>3. QED BY <2>1, <2>2
  <1>10. ~Welcoming' /\ (Welcoming => Head(batch).fd = NoFd) /\ (Welcoming \/ Head(batch).fd # NoFd)
           => One(Pending') = One(Pending)
    BY <1>9 DEF One
  <1>11. QED BY <1>1, <1>2, <1>4, <1>6, <1>7, <1>8, <1>10

LEMMA CloseFacts ==
  ASSUME ServerInv, NEW fd \in Fds, fds[fd] # 0, CloseSocket(fd), backlog' = backlog, pc' # "accepted"
  PROVE  /\ fds[fd] \in Conns /\ phase[fds[fd]] = "open"
         /\ fds' \in [Fds -> Conns \cup {0}] /\ \A f \in Fds : f # fd => fds'[f] = fds[f]
         /\ phase' \in [Conns -> {"idle", "queued", "open", "gone"}] /\ phase'[fds[fd]] = "gone"
         /\ \A d \in Conns : d # fds[fd] => phase'[d] = phase[d]
         /\ full' \subseteq Conns /\ ready' \in Seq({Listening} \cup Conns)
         /\ QueueOK' /\ OpenOK' /\ ReadyOK'
         /\ Listening \in ToSet(ready') <=> Listening \in ToSet(ready)
  <1> DEFINE c == fds[fd]
  <1>1. Types /\ QueueOK /\ OpenOK /\ ReadyOK BY DEF ServerInv
  <1>2. c \in Conns /\ c # 0 BY <1>1 DEF Types
  <1>3. phase[c] = "open" BY <1>1, <1>2 DEF OpenOK
  <1>4. /\ fds' = [fds EXCEPT ![fd] = 0] /\ phase' = [phase EXCEPT ![c] = "gone"]
        /\ full' = full \ {c} /\ ready' = Only(ready, ToSet(ready) \ {c})
    BY DEF CloseSocket
  <1>5. fd \in Fds BY ConnFacts
  <1> HIDE DEF c
  <1>6. /\ fds' \in [Fds -> Conns \cup {0}] /\ fds'[fd] = 0
        /\ \A f \in Fds : f # fd => fds'[f] = fds[f]
    BY <1>1, <1>4, <1>5 DEF Types
  <1>7. /\ phase' \in [Conns -> {"idle", "queued", "open", "gone"}] /\ phase'[c] = "gone"
        /\ \A d \in Conns : d # c => phase'[d] = phase[d]
    BY <1>1, <1>2, <1>4 DEF Types
  <1>8. /\ ready' \in Seq({Listening} \cup Conns) /\ Distinct(ready')
        /\ ToSet(ready') = ToSet(ready) \ {c}
    <2> DEFINE T == ToSet(ready) \ {c}
    <2>1. ready' = Only(ready, T) BY <1>4
    <2> HIDE DEF T
    <2>2. /\ ready' \in Seq({Listening} \cup Conns) /\ Distinct(ready')
          /\ ToSet(ready') = ToSet(ready) \cap T
      BY <1>1, <2>1, OnlyFacts DEF Types, ReadyOK
    <2>3. QED BY <2>2 DEF T
  <1>9. QueueOK' BY <1>1, <1>3, <1>7 DEF QueueOK
  <1>10. OpenOK'
    <2>1. \A f, g \in Fds : fds'[f] = fds'[g] /\ fds'[f] # 0 => f = g BY <1>1, <1>6 DEF OpenOK
    <2>2. ASSUME NEW d \in Conns PROVE phase'[d] = "open" <=> \E f \in Fds : fds'[f] = d
      <3>1. CASE d = c
        <4>1. \A f \in Fds : fds'[f] # c
          <5> SUFFICES ASSUME NEW f \in Fds, fds'[f] = c PROVE FALSE OBVIOUS
          <5>1. f # fd /\ fds[f] = c BY <1>2, <1>6
          <5>2. fds[f] = fds[fd] /\ fds[f] # 0 BY <1>2, <5>1 DEF c
          <5>3. QED BY <1>1, <5>1, <5>2 DEF OpenOK
        <4>2. QED BY <1>7, <3>1, <4>1
      <3>2. CASE d # c
        <4>1. phase'[d] = phase[d] BY <1>7, <3>2
        <4>2. \A f \in Fds : fds'[f] = d <=> fds[f] = d
          <5>1. d # 0 BY ConnFacts
          <5>2. fds[fd] # d BY <3>2 DEF c
          <5>3. QED BY <1>6, <5>1, <5>2
        <4>3. QED BY <1>1, <4>1, <4>2 DEF OpenOK
      <3>3. QED BY <3>1, <3>2
    <2>3. QED BY <2>1, <2>2 DEF OpenOK
  <1>11. ReadyOK'
    <2>1. ToSet(ready) \subseteq {Listening} \cup Conns BY <1>1, ElementFacts DEF Types
    <2>2. QED BY <1>1, <1>7, <1>8, <2>1 DEF ReadyOK
  <1>12. Listening \in ToSet(ready') <=> Listening \in ToSet(ready)
    BY <1>2, <1>8, ConnFacts
  <1>13. full' \subseteq Conns BY <1>1, <1>4 DEF Types
  <1>14. QED BY <1>2, <1>3, <1>6, <1>7, <1>8, <1>9, <1>10, <1>11, <1>12, <1>13 DEF c

LEMMA OthersFacts ==
  ASSUME ServerInv, NEW fd
  PROVE  /\ Others(fd) \in Seq(SubSet) /\ ToSet(Others(fd)) = {s \in ToSet(subs) : s.fd # fd}
  <1> DEFINE T == {s \in ToSet(subs) : s.fd # fd}
  <1>1. subs \in Seq(SubSet) BY DEF ServerInv, Types
  <1>2. Others(fd) = Only(subs, T) BY DEF Others
  <1> HIDE DEF T
  <1>3. Others(fd) \in Seq(SubSet) /\ ToSet(Others(fd)) = ToSet(subs) \cap T BY <1>1, <1>2, OnlyFacts
  <1>4. QED BY <1>3 DEF T

\* The connection of the event that is under way is closed.
LEMMA DisconnectedInv ==
  ASSUME ServerInv, NEW fd \in Fds, NEW next \in {"batch", "stopped"}, pc \in {"batch", "frames", "sending"},
         batch # <<>>, Head(batch).fd = fd, Disconnected(fd, next)
  PROVE  ServerInv'
  <1> DEFINE c == fds[fd]
  <1>1. /\ Types /\ BatchOK /\ SubsCurrent /\ BatchCurrent /\ PlaceOK /\ DebtOK /\ ReadOK /\ HandledOK
        /\ InOrder
    BY DEF ServerInv
  <1>2. /\ CloseSocket(fd) /\ websocket_disconnect_callback(fd) /\ NextEvent /\ pc' = next
        /\ interrupted' = FALSE /\ current' = NoFd /\ todo' = <<>> /\ sends' = <<>> /\ subs' = Others(fd)
        /\ UNCHANGED <<backlog, sent, hup, stalls, stranded, read, handled, cut, left, signal>>
    BY DEF Disconnected, CloseSocket, websocket_disconnect_callback
  <1>3. ~Welcoming /\ ~Welcoming' /\ ~Serving' /\ pc' # "accepted" BY <1>2 DEF Welcoming, Serving
  <1>4. fd # NoFd BY ConnFacts
  <1>5. /\ batch' \in Seq(EventSet) /\ BatchOK'
        /\ Head(batch) \in EventSet /\ Head(batch) \in ToSet(batch)
        /\ (Head(batch).fd = NoFd <=> Head(batch).conn = 0)
        /\ ToSet(batch') \subseteq ToSet(batch)
        /\ \A x \in ToSet(batch') : x.conn # Head(batch).conn
        /\ One(Pending') = One(Pending)
    BY <1>2, <1>3, <1>4, NextEventFacts
  <1>6. c = Head(batch).conn /\ c # 0 BY <1>1, <1>4, <1>5 DEF BatchCurrent
  <1>7. /\ c \in Conns /\ phase[c] = "open"
        /\ fds' \in [Fds -> Conns \cup {0}] /\ \A f \in Fds : f # fd => fds'[f] = fds[f]
        /\ phase' \in [Conns -> {"idle", "queued", "open", "gone"}] /\ phase'[c] = "gone"
        /\ \A d \in Conns : d # c => phase'[d] = phase[d]
        /\ full' \subseteq Conns /\ ready' \in Seq({Listening} \cup Conns)
        /\ QueueOK' /\ OpenOK' /\ ReadyOK'
        /\ Listening \in ToSet(ready') <=> Listening \in ToSet(ready)
    BY <1>2, <1>3, <1>6, CloseFacts
  <1>8. subs' \in Seq(SubSet) /\ ToSet(subs') = {s \in ToSet(subs) : s.fd # fd} BY <1>2, OthersFacts
  <1> HIDE DEF c
  <1>9. Types' BY <1>1, <1>2, <1>5, <1>7, <1>8, EmptySeqFacts DEF Types, Places
  <1>10. SubsCurrent'
    <2>1. \A x \in ToSet(subs) : x \in SubSet BY <1>1, ElementFacts DEF Types
    <2>2. QED BY <1>1, <1>7, <1>8, <2>1 DEF SubsCurrent, SubSet
  <1>11. SendsCurrent' BY <1>2, EmptySeqFacts DEF SendsCurrent
  <1>12. BatchCurrent'
    <2> SUFFICES ASSUME NEW x \in ToSet(batch'), x.fd # NoFd PROVE fds'[x.fd] = x.conn
      BY DEF BatchCurrent
    <2>1. x \in ToSet(batch) /\ x.conn # c BY <1>5, <1>6
    <2>2. x \in EventSet BY <1>1, <2>1, ElementFacts DEF Types
    <2>3. fds[x.fd] = x.conn BY <1>1, <2>1 DEF BatchCurrent
    <2>4. x.fd # fd BY <2>1, <2>3 DEF c
    <2>5. QED BY <1>7, <2>2, <2>3, <2>4 DEF EventSet
  <1>13. PlaceOK' BY <1>2, <1>3 DEF PlaceOK, Serving
  <1>14. DebtOK'
    <2>1. Running BY DEF Running
    <2>2. One(Listening \in ToSet(ready')) = One(Listening \in ToSet(ready)) BY <1>7 DEF One
    <2>3. QED BY <1>1, <1>2, <1>5, <2>1, <2>2 DEF DebtOK
  <1>15. ReadOK'
    <2>1. \A d \in Conns : Fresh(d)' <=> Fresh(d) BY <1>3, <1>7 DEF Fresh
    <2>2. Running BY DEF Running
    <2>3. QED BY <1>1, <1>2, <1>7, <2>1, <2>2 DEF ReadOK
  <1>16. HandledOK' BY <1>1, <1>2, <1>3 DEF HandledOK, InRead
  <1>17. InOrder'
    <2>1. current = NoFd \/ fds[current] = c BY <1>1 DEF PlaceOK, Serving, c
    <2>2. \A d \in Conns : phase'[d] = "open" => d # c /\ phase[d] = "open" BY <1>7
    <2>3. QED BY <1>1, <1>2, <2>1, <2>2 DEF InOrder
  <1>18. QED BY <1>5, <1>7, <1>9, <1>10, <1>11, <1>12, <1>13, <1>14, <1>15, <1>16, <1>17 DEF ServerInv

\* The connection that is being welcomed is closed; what has been read of it
\* may have changed.
LEMMA RejectedInv ==
  ASSUME ServerInv, Welcoming, Rejected,
         read' \in [Conns -> Nat], cut' \subseteq Conns,
         \A d \in Conns : d # fds[current] => read'[d] = read[d] /\ (d \in cut' <=> d \in cut),
         \A d \in Conns : read'[d] <= sent[d]
  PROVE  ServerInv'
  <1> DEFINE c == fds[current]
  <1>1. /\ Types /\ BatchOK /\ SubsCurrent /\ BatchCurrent /\ PlaceOK /\ DebtOK /\ ReadOK /\ HandledOK
        /\ InOrder
    BY DEF ServerInv
  <1>2. /\ CloseSocket(current) /\ NextEvent /\ pc' = "batch"
        /\ current' = NoFd /\ todo' = <<>> /\ sends' = <<>>
        /\ UNCHANGED <<backlog, sent, hup, stalls, stranded, subs, handled, left, signal, interrupted>>
    BY DEF Rejected, CloseSocket
  <1>3. /\ current \in Fds /\ c # 0 /\ batch # <<>> /\ Head(batch).fd = NoFd
        /\ \A x \in ToSet(subs) : x.fd # current
        /\ \A x \in ToSet(batch) : x.fd # current
    BY <1>1 DEF PlaceOK, Types
  <1>4. ~Welcoming' /\ ~Serving' /\ pc' # "accepted" /\ Running BY <1>2 DEF Welcoming, Serving, Running
  <1>5. /\ batch' \in Seq(EventSet) /\ BatchOK'
        /\ ToSet(batch') \subseteq ToSet(batch)
        /\ One(Pending') = One(Pending)
    BY <1>2, <1>3, <1>4, NextEventFacts
  <1>6. /\ c \in Conns /\ phase[c] = "open"
        /\ fds' \in [Fds -> Conns \cup {0}] /\ \A f \in Fds : f # current => fds'[f] = fds[f]
        /\ phase' \in [Conns -> {"idle", "queued", "open", "gone"}] /\ phase'[c] = "gone"
        /\ \A d \in Conns : d # c => phase'[d] = phase[d]
        /\ full' \subseteq Conns /\ ready' \in Seq({Listening} \cup Conns)
        /\ QueueOK' /\ OpenOK' /\ ReadyOK'
        /\ Listening \in ToSet(ready') <=> Listening \in ToSet(ready)
    BY <1>2, <1>3, <1>4, CloseFacts
  <1>7. \A d \in Conns : d # c => read'[d] = read[d] /\ (d \in cut' <=> d \in cut) OBVIOUS
  <1>8. handled[c] = <<>> BY <1>1, <1>6 DEF ReadOK, Fresh, c
  <1>9. \A d \in Conns : Fresh(d) => d = c \/ phase[d] \in {"idle", "queued"} BY DEF Fresh, c
  <1> HIDE DEF c
  <1>10. Types' BY <1>1, <1>2, <1>5, <1>6, EmptySeqFacts DEF Types, Places
  <1>11. SubsCurrent'
    <2>1. \A x \in ToSet(subs) : x \in SubSet BY <1>1, ElementFacts DEF Types
    <2>2. QED BY <1>1, <1>2, <1>3, <1>6, <2>1 DEF SubsCurrent, SubSet
  <1>12. SendsCurrent' BY <1>2, EmptySeqFacts DEF SendsCurrent
  <1>13. BatchCurrent'
    <2> SUFFICES ASSUME NEW x \in ToSet(batch'), x.fd # NoFd PROVE fds'[x.fd] = x.conn
      BY DEF BatchCurrent
    <2>1. x \in ToSet(batch) /\ x.fd # current BY <1>3, <1>5
    <2>2. x \in EventSet BY <1>1, <2>1, ElementFacts DEF Types
    <2>3. fds[x.fd] = x.conn BY <1>1, <2>1 DEF BatchCurrent
    <2>4. QED BY <1>6, <2>1, <2>2, <2>3 DEF EventSet
  <1>14. PlaceOK' BY <1>2, <1>4 DEF PlaceOK, Serving
  <1>15. DebtOK'
    <2>1. One(Listening \in ToSet(ready')) = One(Listening \in ToSet(ready)) BY <1>6 DEF One
    <2>2. QED BY <1>1, <1>2, <1>4, <1>5, <2>1 DEF DebtOK
  <1>16. ReadOK'
    <2> SUFFICES ASSUME NEW d \in Conns
                 PROVE  /\ read'[d] <= sent'[d]
                        /\ Fresh(d)' => read'[d] = 0 /\ handled'[d] = <<>>
                        /\ Running' /\ phase'[d] = "open" /\ ~Fresh(d)' /\ d \notin cut'
                             => read'[d] \in Boundaries(d)
      BY DEF ReadOK
    <2>1. CASE d = c BY <1>2, <1>4, <1>6, <2>1 DEF Fresh
    <2>2. CASE d # c
      <3>1. Fresh(d)' <=> Fresh(d) BY <1>4, <1>6, <1>9, <2>2 DEF Fresh
      <3>2. QED BY <1>1, <1>2, <1>4, <1>6, <1>7, <2>2, <3>1 DEF ReadOK
    <2>3. QED BY <2>1, <2>2
  <1>17. HandledOK'
    <2>1. \A d \in Conns : \A x \in ToSet(handled'[d]) : InRead(d, x)'
      <3> SUFFICES ASSUME NEW d \in Conns, NEW x \in ToSet(handled'[d]) PROVE InRead(d, x)' OBVIOUS
      <3>1. d # c BY <1>2, <1>8, EmptySeqFacts
      <3>2. QED BY <1>1, <1>2, <1>7, <3>1 DEF HandledOK, InRead
    <2>2. QED BY <1>4, <2>1 DEF HandledOK
  <1>18. InOrder'
    <2>1. \A d \in Conns : phase'[d] = "open" => d # c /\ phase[d] = "open" BY <1>6
    <2>2. todo = <<>> BY <1>1 DEF PlaceOK, Welcoming
    <2>3. QED BY <1>1, <1>2, <1>7, <2>1, <2>2, EmptySeqFacts DEF InOrder
  <1>19. QED BY <1>5, <1>6, <1>10, <1>11, <1>12, <1>13, <1>14, <1>15, <1>16, <1>17, <1>18 DEF ServerInv

-----------------------------------------------------------------------------
(* The events of the kernel.                                               *)

LEMMA FinalizeInv ==
  ASSUME ServerInv, Finalize
  PROVE  ServerInv'
  <1>1. /\ pc = "batch" /\ signal /\ pc' = "stopped"
        /\ UNCHANGED <<backlog, phase, sent, hup, full, stalls, ready, stranded>>
        /\ UNCHANGED <<fds, read, batch, current, todo, sends, subs, handled, cut, left, signal, interrupted>>
    BY DEF Finalize, kernelVars
  <1>2. Types' BY <1>1 DEF ServerInv, Types, Places
  <1>3. ReadyOK' /\ PlaceOK' BY <1>1 DEF ServerInv, ReadyOK, PlaceOK, Welcoming, Serving
  <1>4. DebtOK' BY <1>1 DEF DebtOK
  <1>5. ReadOK' BY <1>1 DEF ServerInv, ReadOK, Fresh, Welcoming, Running
  <1>6. HandledOK' BY <1>1 DEF ServerInv, HandledOK, Serving, InRead
  <1>7. QED BY <1>1, <1>2, <1>3, <1>4, <1>5, <1>6, Unchanged DEF ServerInv

LEMMA EpollWaitInv ==
  ASSUME ServerInv, websocket_epoll_wait
  PROVE  ServerInv'
  <1> DEFINE T == {x \in ToSet(ready) : Reports(x)}
             some == Only(ready, T)
  <1>1. /\ pc = "batch" /\ batch = <<>> /\ ~signal
        /\ batch' = [i \in DOMAIN some |-> EventOf(some[i])] /\ ready' = <<>>
        /\ UNCHANGED <<backlog, phase, sent, hup, full, stalls, stranded, fds, read, pc, current, todo>>
        /\ UNCHANGED <<sends, subs, handled, cut, left, signal, interrupted>>
    BY DEF websocket_epoll_wait
  <1>2. Types /\ OpenOK /\ ReadyOK /\ PlaceOK /\ DebtOK BY DEF ServerInv
  <1>3. /\ some \in Seq({Listening} \cup Conns) /\ Distinct(some)
        /\ ToSet(some) = {x \in ToSet(ready) : Reports(x)}
    <2> HIDE DEF T
    <2>1. some \in Seq({Listening} \cup Conns) /\ Distinct(some) /\ ToSet(some) = ToSet(ready) \cap T
      BY <1>2, OnlyFacts DEF Types, ReadyOK
    <2>2. QED BY <2>1 DEF T
  <1> HIDE DEF some
  <1>4. /\ Len(some) \in Nat /\ DOMAIN some = 1 .. Len(some)
        /\ \A x : x \in ToSet(some) <=> \E i \in 1 .. Len(some) : some[i] = x
    BY <1>3, ElementFacts
  <1>5. ASSUME NEW x \in ToSet(ready)
        PROVE  /\ EventOf(x) \in EventSet /\ EventOf(x).conn = x
               /\ EventOf(x).fd = NoFd <=> x = 0
               /\ EventOf(x).fd # NoFd => fds[EventOf(x).fd] = x
    <2>1. x \in {Listening} \cup Conns BY <1>2, ElementFacts DEF Types
    <2>2. CASE x = Listening BY <2>2 DEF EventOf, EventSet, Listening
    <2>3. CASE x # Listening
      <3>1. x \in Conns /\ phase[x] = "open" BY <1>2, <2>1, <2>3 DEF ReadyOK
      <3>2. FdOf(x) \in Fds /\ fds[FdOf(x)] = x BY <1>2, <3>1 DEF OpenOK, FdOf
      <3>3. EventOf(x) = [fd |-> FdOf(x), conn |-> x, hup |-> x \in hup] BY <2>3 DEF EventOf
      <3>4. QED BY <2>3, <3>1, <3>2, <3>3, ConnFacts DEF EventSet
    <2>4. QED BY <2>2, <2>3
  <1>6. \A i \in 1 .. Len(some) : some[i] \in ToSet(ready) BY <1>3, <1>4
  <1>7. batch' = [i \in 1 .. Len(some) |-> EventOf(some[i])] BY <1>1, <1>4
  <1>8. batch' \in Seq(EventSet) /\ Len(batch') = Len(some)
    BY <1>4, <1>5, <1>6, <1>7
  <1>9. \A i \in 1 .. Len(some) : batch'[i] = EventOf(some[i]) BY <1>7
  <1>10. BatchOK'
    <2>1. ASSUME NEW i \in 1 .. Len(some), NEW j \in 1 .. Len(some), batch'[i].conn = batch'[j].conn
          PROVE  i = j
      <3>1. some[i] = some[j] BY <1>5, <1>6, <1>9, <2>1
      <3>2. QED BY <1>3, <3>1 DEF Distinct
    <2>2. \A i \in 1 .. Len(some) : batch'[i].fd = NoFd <=> batch'[i].conn = 0
      BY <1>5, <1>6, <1>9
    <2>3. QED BY <1>8, <2>1, <2>2 DEF BatchOK
  <1>11. BatchCurrent'
    <2> SUFFICES ASSUME NEW e \in ToSet(batch'), e.fd # NoFd PROVE fds'[e.fd] = e.conn
      BY DEF BatchCurrent
    <2>1. \A x : x \in ToSet(batch') <=> \E i \in 1 .. Len(batch') : batch'[i] = x
      BY <1>8, ElementFacts
    <2>2. PICK i \in 1 .. Len(some) : e = EventOf(some[i]) BY <1>8, <1>9, <2>1
    <2>3. QED BY <1>1, <1>5, <1>6, <2>2
  <1>12. Types' BY <1>1, <1>2, <1>8, EmptySeqFacts DEF Types
  <1>13. ReadyOK' BY <1>1, EmptySeqFacts DEF ReadyOK
  <1>14. PlaceOK' BY <1>1, <1>2 DEF PlaceOK, Welcoming, Serving
  <1>15. DebtOK'
    <2>1. ~Welcoming /\ ~Welcoming' /\ Running BY <1>1 DEF Welcoming, Running
    <2>2. ~Pending BY <1>1, EmptySeqFacts DEF Pending
    <2>3. Pending' <=> Listening \in ToSet(some)
      <3>1. Pending' <=> \E i \in 1 .. Len(some) : batch'[i].fd = NoFd BY <1>8, <2>1 DEF Pending
      <3>2. \A i \in 1 .. Len(some) : batch'[i].fd = NoFd <=> some[i] = Listening
        BY <1>5, <1>6, <1>9 DEF Listening
      <3>3. QED BY <1>4, <3>1, <3>2
    <2>4. Listening \in ToSet(some) <=> Listening \in ToSet(ready) /\ backlog # <<>>
      BY <1>3 DEF Reports
    <2>5. stranded \in Nat /\ Len(backlog) \in Nat /\ (backlog = <<>> => Len(backlog) = 0)
      BY <1>2, ElementFacts, EmptySeqFacts DEF Types
    <2>6. Len(backlog) = stranded + (One(Listening \in ToSet(ready)) + One(Pending))
      BY <1>1, <1>2, <2>1 DEF DebtOK
    <2>7. Listening \in ToSet(ready) => backlog # <<>> BY <2>2, <2>5, <2>6 DEF One
    <2>8. Pending' <=> Listening \in ToSet(ready) BY <2>3, <2>4, <2>7
    <2>9. Listening \notin ToSet(ready') BY <1>1, EmptySeqFacts
    <2>10. One(Pending') = One(Listening \in ToSet(ready)) /\ One(Pending) = 0
             /\ One(Listening \in ToSet(ready')) = 0
      BY <2>2, <2>8, <2>9 DEF One
    <2>11. One(Pending') \in Nat BY DEF One
    <2>12. QED BY <1>1, <2>5, <2>6, <2>10, <2>11 DEF DebtOK
  <1>16. QED BY <1>1, <1>10, <1>11, <1>12, <1>13, <1>14, <1>15, Unchanged DEF ServerInv

-----------------------------------------------------------------------------
(* Accepting a connection.                                                 *)

\* The event stands for a connection that waits, and there is a descriptor.
LEMMA AcceptFacts ==
  ASSUME ServerInv, AcceptEvent, ~signal
  PROVE  /\ backlog # <<>> /\ {f \in Fds : fds[f] = 0} # {}
         /\ Len(backlog) = stranded + (One(Listening \in ToSet(ready)) + 1)
  <1>1. Types /\ QueueOK /\ OpenOK /\ DebtOK BY DEF ServerInv
  <1>2. /\ pc = "batch" /\ batch # <<>> /\ Head(batch).fd = NoFd BY DEF AcceptEvent
  <1>3. Len(batch) \in Nat \ {0} /\ Head(batch) = batch[1] BY <1>1, <1>2, TailFacts DEF Types
  <1>4. 1 \in 1 .. Len(batch) /\ ~Welcoming /\ Running BY <1>2, <1>3 DEF Welcoming, Running
  <1>5. Pending BY <1>2, <1>3, <1>4 DEF Pending
  <1>6. Len(backlog) = stranded + (One(Listening \in ToSet(ready)) + 1)
    BY <1>1, <1>4, <1>5 DEF DebtOK, One
  <1>7. backlog # <<>>
    <2>1. stranded \in Nat /\ Len(<<>>) = 0 BY <1>1 DEF Types
    <2>2. One(Listening \in ToSet(ready)) \in Nat BY DEF One
    <2>3. QED BY <1>6, <2>1, <2>2
  <1>8. {f \in Fds : fds[f] = 0} # {}
    <2> SUFFICES ASSUME \A f \in Fds : fds[f] # 0 PROVE FALSE OBVIOUS
    <2> DEFINE c == Head(backlog)
               U == Conns \ {c}
    <2>1. c \in Conns /\ c \in ToSet(backlog) BY <1>1, <1>7, TailFacts DEF Types
    <2>2. phase[c] = "queued" BY <1>1, <2>1 DEF QueueOK
    <2>3. \A f \in Fds : fds[f] # c BY <1>1, <2>1, <2>2 DEF OpenOK
    <2> HIDE DEF c
    <2>4. fds \in [Conns -> U] BY <1>1, <2>3 DEF Types, Fds
    <2>5. /\ IsFiniteSet(Conns) /\ IsFiniteSet(U) /\ Cardinality(U) = Cardinality(Conns) - 1
          /\ Cardinality(Conns) \in Nat
      BY <2>1, ServerConstants, FS_RemoveElement, FS_CardinalityType
    <2>6. Cardinality(U) < Cardinality(Conns) BY <2>5
    <2> HIDE DEF U
    <2>7. \E f, g \in Conns : f # g /\ fds[f] = fds[g] BY <2>4, <2>5, <2>6, FS_PigeonHole
    <2>8. QED BY <1>1, <2>7 DEF OpenOK, Fds
  <1>9. QED BY <1>6, <1>7, <1>8

\* Nothing of a connection has been read before its first frame ends.
LEMMA NothingRead ==
  ASSUME NEW c \in Conns, NEW i \in DOMAIN Script[c].frames
  PROVE  ~(FrameStart(c, i + 1) <= FrameStart(c, 1)) /\ ~(FrameStart(c, i + 1) <= 0)
  <1>1. FrameCount(c) \in Nat /\ i \in 1 .. FrameCount(c) BY ScriptFacts DEF Frames
  <1>2. /\ i + 1 \in 1 .. (FrameCount(c) + 1) /\ 1 \in 1 .. (FrameCount(c) + 1) /\ 1 < i + 1
    BY <1>1
  <1>3. FrameStart(c, 1) \in Nat /\ FrameStart(c, i + 1) \in Nat BY <1>2, StartFacts
  <1>4. FrameStart(c, 1) < FrameStart(c, i + 1)
    <2> DEFINE j == i + 1
    <2>1. j \in 1 .. (FrameCount(c) + 1) /\ 1 < j BY <1>2
    <2> HIDE DEF j
    <2>2. FrameStart(c, 1) < FrameStart(c, j) BY <1>2, <2>1, StartFacts
    <2>3. QED BY <2>2 DEF j
  <1>5. QED BY <1>3, <1>4

LEMMA AcceptInv ==
  ASSUME ServerInv, websocket_accept
  PROVE  ServerInv'
  <1> DEFINE c == Head(backlog)
             free == {f \in Fds : fds[f] = 0}
             fd == Min(free)
  <1>1. /\ AcceptEvent /\ ~signal /\ backlog' = Tail(backlog) /\ phase' = [phase EXCEPT ![c] = "open"]
        /\ fds' = [fds EXCEPT ![fd] = c] /\ current' = fd /\ pc' = "accepted"
        /\ UNCHANGED <<sent, hup, full, stalls, ready, stranded, read, batch, todo, sends, subs, handled>>
        /\ UNCHANGED <<cut, left, signal, interrupted>>
    BY DEF websocket_accept
  <1>2. /\ Types /\ QueueOK /\ OpenOK /\ ReadyOK /\ BatchOK /\ SubsCurrent /\ SendsCurrent /\ BatchCurrent
        /\ PlaceOK /\ DebtOK /\ ReadOK /\ HandledOK /\ InOrder
    BY DEF ServerInv
  <1>3. /\ backlog # <<>> /\ free # {}
        /\ Len(backlog) = stranded + (One(Listening \in ToSet(ready)) + 1)
    BY <1>1, AcceptFacts
  <1>4. fd \in Fds /\ fds[fd] = 0
    <2>1. free \subseteq Nat BY ConnFacts
    <2> HIDE DEF free
    <2>2. fd \in free BY <1>3, <2>1, MinFacts
    <2>3. QED BY <2>2 DEF free
  <1>5. /\ backlog' \in Seq(Conns) /\ Len(backlog') = Len(backlog) - 1 /\ Len(backlog) \in Nat
        /\ Distinct(backlog') /\ c \notin ToSet(backlog') /\ c \in Conns
        /\ ToSet(backlog) = {c} \cup ToSet(backlog')
    BY <1>1, <1>2, <1>3, TailFacts, TailDistinct DEF Types, QueueOK
  <1>6. phase[c] = "queued" BY <1>2, <1>5 DEF QueueOK
  <1>7. \A f \in Fds : fds[f] # c BY <1>2, <1>5, <1>6 DEF OpenOK
  <1>8. pc = "batch" /\ batch # <<>> /\ Head(batch).fd = NoFd /\ current = NoFd /\ todo = <<>> /\ sends = <<>>
    BY <1>1, <1>2 DEF AcceptEvent, PlaceOK
  <1> HIDE DEF c, fd, free
  <1>9. c # 0 /\ fd # NoFd BY <1>4, <1>5, ConnFacts
  <1>10. /\ fds' \in [Fds -> Conns \cup {0}] /\ fds'[fd] = c
         /\ \A f \in Fds : f # fd => fds'[f] = fds[f]
    BY <1>1, <1>2, <1>4, <1>5 DEF Types
  <1>11. /\ phase' \in [Conns -> {"idle", "queued", "open", "gone"}] /\ phase'[c] = "open"
         /\ \A d \in Conns : d # c => phase'[d] = phase[d]
    BY <1>1, <1>2, <1>5 DEF Types
  <1>12. Types' BY <1>1, <1>2, <1>4, <1>5, <1>10, <1>11 DEF Types, Places
  <1>13. QueueOK' BY <1>2, <1>5, <1>6, <1>11 DEF QueueOK
  <1>14. OpenOK'
    <2>1. \A f, g \in Fds : fds'[f] = fds'[g] /\ fds'[f] # 0 => f = g
      BY <1>2, <1>7, <1>10 DEF OpenOK
    <2>2. ASSUME NEW d \in Conns PROVE phase'[d] = "open" <=> \E f \in Fds : fds'[f] = d
      <3>1. CASE d = c BY <1>4, <1>10, <1>11, <3>1
      <3>2. CASE d # c
        <4>1. d # 0 BY ConnFacts
        <4>2. \A f \in Fds : fds'[f] = d <=> fds[f] = d BY <1>4, <1>10, <3>2, <4>1
        <4>3. QED BY <1>2, <1>11, <3>2, <4>2 DEF OpenOK
      <3>3. QED BY <3>1, <3>2
    <2>3. QED BY <2>1, <2>2 DEF OpenOK
  <1>15. ReadyOK'
    <2>1. ToSet(ready) \subseteq {Listening} \cup Conns BY <1>2, ElementFacts DEF Types
    <2>2. \A d \in ToSet(ready) : d # Listening => d # c /\ phase'[d] = "open"
      BY <1>2, <1>6, <1>11, <2>1 DEF ReadyOK
    <2>3. QED BY <1>1, <1>2, <1>10, <2>2 DEF ReadyOK
  <1>16. \A x \in ToSet(subs) : x.fd \in Fds /\ x.fd # fd /\ fds[x.fd] = x.conn
    <2>1. \A x \in ToSet(subs) : x \in SubSet BY <1>2, ElementFacts DEF Types
    <2>2. QED BY <1>2, <1>4, <2>1, ConnFacts DEF SubsCurrent, SubSet
  <1>17. \A x \in ToSet(batch) : /\ x.fd # fd
                                 /\ x.fd # NoFd => x.fd \in Fds /\ fds[x.fd] = x.conn
    <2> SUFFICES ASSUME NEW x \in ToSet(batch)
                 PROVE  /\ x.fd # fd
                        /\ x.fd # NoFd => x.fd \in Fds /\ fds[x.fd] = x.conn
      OBVIOUS
    <2>1. x \in EventSet BY <1>2, ElementFacts DEF Types
    <2>2. PICK i \in 1 .. Len(batch) : batch[i] = x BY <1>2, ElementFacts DEF Types
    <2>3. x.fd = NoFd <=> x.conn = 0 BY <1>2, <2>2 DEF BatchOK
    <2>4. x.fd # NoFd => x.fd \in Fds /\ fds[x.fd] = x.conn BY <1>2, <2>1 DEF EventSet, BatchCurrent
    <2>5. QED BY <1>4, <1>9, <2>3, <2>4
  <1>18. SubsCurrent' BY <1>1, <1>10, <1>16 DEF SubsCurrent
  <1>19. SendsCurrent' BY <1>1, <1>8, EmptySeqFacts DEF SendsCurrent
  <1>20. BatchCurrent' BY <1>1, <1>10, <1>17 DEF BatchCurrent
  <1>21. PlaceOK' BY <1>1, <1>8, <1>9, <1>10, <1>16, <1>17 DEF PlaceOK, Welcoming, Serving
  <1>22. DebtOK'
    <2>1. Welcoming' BY <1>1 DEF Welcoming
    <2>2. Len(batch) \in Nat \ {0} /\ Head(batch) = batch[1] BY <1>2, <1>8, TailFacts DEF Types
    <2>3. 1 \in 1 .. Len(batch) /\ batch[1].conn = 0 BY <1>2, <1>8, <2>2 DEF BatchOK
    <2>4. \A i \in 1 .. Len(batch) : batch[i].fd = NoFd => i = 1 BY <1>2, <2>3 DEF BatchOK
    <2>5. ~Pending' BY <1>1, <2>1, <2>4 DEF Pending
    <2>6. One(Pending') = 0 BY <2>5 DEF One
    <2>7. stranded \in Nat /\ One(Listening \in ToSet(ready)) \in Nat BY <1>2 DEF Types, One
    <2>8. QED BY <1>1, <1>3, <1>5, <2>6, <2>7 DEF DebtOK
  <1>23. ReadOK'
    <2>1. ~Welcoming /\ Running BY <1>8 DEF Welcoming, Running
    <2>2. \A d \in Conns : Fresh(d)' <=> Fresh(d)
      BY <1>1, <1>6, <1>10, <1>11, <2>1 DEF Fresh, Welcoming
    <2>3. Fresh(c) BY <1>6 DEF Fresh
    <2>4. QED BY <1>1, <1>2, <1>11, <2>1, <2>2, <2>3 DEF ReadOK
  <1>24. HandledOK' BY <1>1, <1>2 DEF HandledOK, Serving, InRead
  <1>25. InOrder'
    <2>1. read[c] = 0 BY <1>2, <1>5, <1>6 DEF ReadOK, Fresh
    <2>2. \A i \in DOMAIN Script[c].frames : ~(FrameStart(c, i + 1) <= read[c])
      BY <1>5, <2>1, NothingRead
    <2>3. \A d \in Conns : d # c /\ phase'[d] = "open" => phase[d] = "open" BY <1>11
    <2>4. QED BY <1>1, <1>2, <1>8, <2>2, <2>3 DEF InOrder
  <1>26. QED BY <1>1, <1>12, <1>13, <1>14, <1>15, <1>18, <1>19, <1>20, <1>21, <1>22, <1>23, <1>24, <1>25,
                Unchanged DEF ServerInv

\* The event is used up: its connection stays in the backlog, and is counted,
\* or is gone.
LEMMA AcceptFailsInv ==
  ASSUME ServerInv, AcceptFails
  PROVE  ServerInv'
  <1> DEFINE c == Head(backlog)
  <1>1. /\ AcceptEvent /\ ~signal /\ NextEvent
        /\ \/ stranded' = stranded + 1 /\ UNCHANGED <<backlog, phase>>
           \/ backlog' = Tail(backlog) /\ phase' = [phase EXCEPT ![c] = "gone"] /\ UNCHANGED stranded
        /\ UNCHANGED <<sent, hup, full, stalls, ready, fds, read, pc, current, todo, sends, subs, handled>>
        /\ UNCHANGED <<cut, left, signal, interrupted>>
    BY DEF AcceptFails
  <1>2. /\ Types /\ QueueOK /\ OpenOK /\ ReadyOK /\ BatchOK /\ BatchCurrent /\ PlaceOK /\ ReadOK
        /\ InOrder
    BY DEF ServerInv
  <1>3. backlog # <<>> /\ Len(backlog) = stranded + (One(Listening \in ToSet(ready)) + 1)
    BY <1>1, AcceptFacts
  <1>4. /\ Tail(backlog) \in Seq(Conns) /\ Len(Tail(backlog)) = Len(backlog) - 1 /\ Len(backlog) \in Nat
        /\ Distinct(Tail(backlog)) /\ c \notin ToSet(Tail(backlog)) /\ c \in Conns
        /\ ToSet(backlog) = {c} \cup ToSet(Tail(backlog))
    BY <1>2, <1>3, TailFacts, TailDistinct DEF Types, QueueOK
  <1>5. phase[c] = "queued" BY <1>2, <1>4 DEF QueueOK
  <1>6. pc = "batch" /\ batch # <<>> /\ Head(batch).fd = NoFd /\ ~Welcoming /\ Running
    BY <1>1 DEF AcceptEvent, Welcoming, Running
  <1>7. batch' \in Seq(EventSet) /\ BatchOK' /\ ToSet(batch') \subseteq ToSet(batch)
    BY <1>1, <1>6, NextEventFacts
  <1> HIDE DEF c
  <1>8. /\ phase' \in [Conns -> {"idle", "queued", "open", "gone"}]
        /\ \A d \in Conns : phase'[d] = phase[d] \/ (d = c /\ phase'[d] = "gone")
    <2>1. phase \in [Conns -> {"idle", "queued", "open", "gone"}] BY <1>2 DEF Types
    <2>2. CASE UNCHANGED phase BY <2>1, <2>2
    <2>3. CASE phase' = [phase EXCEPT ![c] = "gone"] BY <1>4, <2>1, <2>3
    <2>4. QED BY <1>1, <2>2, <2>3
  <1>9. Types'
    <2>1. backlog' \in Seq(Conns) /\ stranded' \in Nat
      <3>1. backlog \in Seq(Conns) /\ stranded \in Nat BY <1>2 DEF Types
      <3>2. QED BY <1>1, <1>4, <3>1
    <2>2. QED BY <1>1, <1>2, <1>7, <1>8, <2>1 DEF Types
  <1>10. QueueOK'
    <2>1. CASE UNCHANGED <<backlog, phase>> BY <2>1, Unchanged
    <2>2. CASE backlog' = Tail(backlog) /\ phase' = [phase EXCEPT ![c] = "gone"]
      <3>1. \A d \in Conns : phase'[d] = IF d = c THEN "gone" ELSE phase[d] BY <1>2, <1>4, <2>2 DEF Types
      <3>2. QED BY <1>2, <1>4, <2>2, <3>1 DEF QueueOK
    <2>3. QED BY <1>1, <2>1, <2>2
  <1>11. \A d \in Conns : phase'[d] = "open" <=> phase[d] = "open" BY <1>5, <1>8
  <1>12. OpenOK' BY <1>1, <1>2, <1>11 DEF OpenOK
  <1>13. ReadyOK'
    <2>1. ToSet(ready) \subseteq {Listening} \cup Conns BY <1>2, ElementFacts DEF Types
    <2>2. QED BY <1>1, <1>2, <1>11, <2>1 DEF ReadyOK
  <1>14. BatchCurrent' BY <1>1, <1>2, <1>7 DEF BatchCurrent
  <1>15. PlaceOK' BY <1>1, <1>2, <1>6 DEF PlaceOK, Welcoming, Serving
  <1>16. DebtOK'
    <2>1. ~Pending'
      <3>1. /\ Len(batch) \in Nat \ {0} /\ Head(batch) = batch[1] /\ Len(batch') = Len(batch) - 1
            /\ \A i \in 1 .. Len(batch') : batch'[i] = batch[i + 1]
        BY <1>1, <1>2, <1>6, TailFacts DEF Types, NextEvent
      <3>2. 1 \in 1 .. Len(batch) /\ batch[1].conn = 0 BY <1>2, <1>6, <3>1 DEF BatchOK
      <3>3. \A i \in 1 .. Len(batch) : batch[i].fd = NoFd => i = 1 BY <1>2, <3>2 DEF BatchOK
      <3>4. ASSUME NEW i \in 1 .. Len(batch'), batch'[i].fd = NoFd PROVE FALSE
        <4>1. i + 1 \in 1 .. Len(batch) /\ i + 1 # 1 BY <3>1
        <4>2. batch[i + 1].fd = NoFd BY <3>1, <3>4
        <4>3. QED BY <3>3, <4>1, <4>2
      <3>5. QED BY <3>4 DEF Pending
    <2>2. One(Pending') = 0 BY <2>1 DEF One
    <2>3. stranded \in Nat /\ One(Listening \in ToSet(ready)) \in Nat BY <1>2 DEF Types, One
    <2>4. Len(backlog') = stranded' + One(Listening \in ToSet(ready)) BY <1>1, <1>3, <1>4, <2>3
    <2>5. QED BY <1>1, <2>2, <2>3, <2>4 DEF DebtOK
  <1>17. ReadOK'
    <2>1. \A d \in Conns : Fresh(d)' => Fresh(d) BY <1>1, <1>6, <1>8 DEF Fresh, Welcoming
    <2>2. \A d \in Conns : phase'[d] = "open" /\ Fresh(d) => Fresh(d)'
      BY <1>1, <1>6, <1>11 DEF Fresh, Welcoming
    <2>3. QED BY <1>1, <1>2, <1>6, <1>11, <2>1, <2>2 DEF ReadOK
  <1>18. InOrder' BY <1>1, <1>2, <1>11 DEF InOrder
  <1>19. QED BY <1>1, <1>7, <1>9, <1>10, <1>12, <1>13, <1>14, <1>15, <1>16, <1>17, <1>18, Unchanged
         DEF ServerInv

LEMMA AcceptRefusedInv ==
  ASSUME ServerInv, AcceptRefused
  PROVE  ServerInv'
  <1>1. /\ pc = "batch" /\ batch # <<>> /\ signal /\ NextEvent
        /\ UNCHANGED <<backlog, phase, sent, hup, full, stalls, ready, stranded>>
        /\ UNCHANGED <<fds, read, pc, current, todo, sends, subs, handled, cut, left, signal, interrupted>>
    BY DEF AcceptRefused, AcceptEvent, kernelVars
  <1>2. Types /\ BatchCurrent /\ PlaceOK BY DEF ServerInv
  <1>3. batch' \in Seq(EventSet) /\ BatchOK' /\ ToSet(batch') \subseteq ToSet(batch)
    BY <1>1, NextEventFacts
  <1>4. Types' BY <1>1, <1>2, <1>3 DEF Types
  <1>5. BatchCurrent' BY <1>1, <1>2, <1>3 DEF BatchCurrent
  <1>6. PlaceOK' BY <1>1, <1>2 DEF PlaceOK, Welcoming, Serving
  <1>7. DebtOK' BY <1>1 DEF DebtOK
  <1>8. QED BY <1>1, <1>3, <1>4, <1>5, <1>6, <1>7, Unchanged DEF ServerInv

\* What is being welcomed: an open connection of which nothing has been read.
LEMMA WelcomeFacts ==
  ASSUME ServerInv, Welcoming
  PROVE  /\ current \in Fds /\ current # NoFd /\ fds[current] \in Conns /\ phase[fds[current]] = "open"
         /\ read[fds[current]] = 0 /\ handled[fds[current]] = <<>> /\ Running
         /\ todo = <<>> /\ sends = <<>> /\ batch # <<>> /\ Head(batch).fd = NoFd
  <1>1. Types /\ OpenOK /\ PlaceOK /\ ReadOK BY DEF ServerInv
  <1>2. /\ current # NoFd /\ fds[current] # 0 /\ todo = <<>> /\ sends = <<>>
        /\ batch # <<>> /\ Head(batch).fd = NoFd
    BY <1>1 DEF PlaceOK, Welcoming
  <1>3. current \in Fds /\ fds[current] \in Conns BY <1>1, <1>2 DEF Types
  <1>4. phase[fds[current]] = "open" BY <1>1, <1>3 DEF OpenOK
  <1>5. Fresh(fds[current]) /\ Running BY DEF Fresh, Welcoming, Running
  <1>6. QED BY <1>1, <1>2, <1>3, <1>4, <1>5 DEF ReadOK

LEMMA EpollAddInv ==
  ASSUME ServerInv, websocket_epoll_add
  PROVE  ServerInv'
  <1>1. pc = "accepted" /\ Welcoming BY DEF websocket_epoll_add, Welcoming
  <1>2. CASE Rejected /\ UNCHANGED <<read, cut>>
    <2>1. Types /\ ReadOK BY DEF ServerInv
    <2>2. read' \in [Conns -> Nat] /\ cut' \subseteq Conns /\ \A d \in Conns : read'[d] <= sent[d]
      BY <1>2, <2>1 DEF Types, ReadOK
    <2>3. QED BY <1>1, <1>2, <2>2, RejectedInv
  <1>3. CASE ~Rejected
    <2> DEFINE c == fds[current]
    <2>1. /\ pc' = "handshake" /\ ready' = IF Reports(c) THEN Append(ready, c) ELSE ready
          /\ UNCHANGED <<backlog, phase, sent, hup, full, stalls, stranded, fds, read, batch, current>>
          /\ UNCHANGED <<todo, sends, subs, handled, cut, left, signal, interrupted>>
      BY <1>3 DEF websocket_epoll_add
    <2>2. /\ c \in Conns /\ phase[c] = "open" /\ current # NoFd BY <1>1, WelcomeFacts
    <2>3. /\ Types /\ ReadyOK /\ PlaceOK /\ DebtOK /\ ReadOK /\ HandledOK BY DEF ServerInv
    <2>4. c \notin ToSet(ready) BY <1>1, <2>2, <2>3, ConnFacts DEF ReadyOK
    <2>5. c # Listening BY <2>2, ConnFacts
    <2> HIDE DEF c
    <2>6. /\ ready' \in Seq({Listening} \cup Conns) /\ Distinct(ready')
          /\ ToSet(ready) \subseteq ToSet(ready') /\ ToSet(ready') \subseteq ToSet(ready) \cup {c}
      <3>1. ready \in Seq({Listening} \cup Conns) /\ Distinct(ready) BY <2>3 DEF Types, ReadyOK
      <3>2. CASE ready' = ready BY <3>1, <3>2
      <3>3. CASE ready' = Append(ready, c)
        BY <2>2, <2>4, <3>1, <3>3, AppendFacts, AppendDistinct
      <3>4. QED BY <2>1, <3>2, <3>3
    <2>7. Types' BY <2>1, <2>3, <2>6 DEF Types, Places
    <2>8. ReadyOK' BY <1>1, <2>1, <2>2, <2>3, <2>6 DEF ReadyOK
    <2>9. Welcoming' /\ ~Serving /\ ~Serving' /\ Running /\ Running'
      BY <1>1, <2>1 DEF Welcoming, Serving, Running
    <2>10. PlaceOK'
      <3>1. todo = <<>> /\ sends = <<>> BY <1>1, WelcomeFacts
      <3>2. QED BY <1>1, <2>1, <2>3, <2>9, <3>1 DEF PlaceOK
    <2>11. DebtOK'
      <3>1. Pending' <=> Pending BY <1>1, <2>1, <2>9 DEF Pending
      <3>2. Listening \in ToSet(ready') <=> Listening \in ToSet(ready) BY <2>5, <2>6
      <3>3. /\ One(Pending') = One(Pending)
            /\ One(Listening \in ToSet(ready')) = One(Listening \in ToSet(ready))
        BY <3>1, <3>2 DEF One
      <3>4. QED BY <2>1, <2>3, <2>9, <3>3 DEF DebtOK
    <2>12. ReadOK'
      <3>1. \A d \in Conns : Fresh(d)' <=> Fresh(d) BY <1>1, <2>1, <2>9 DEF Fresh
      <3>2. QED BY <2>1, <2>3, <2>9, <3>1 DEF ReadOK
    <2>13. HandledOK' BY <2>1, <2>3, <2>9 DEF HandledOK, InRead
    <2>14. QED BY <2>1, <2>7, <2>8, <2>10, <2>11, <2>12, <2>13, Unchanged DEF ServerInv
  <1>4. QED BY <1>2, <1>3 DEF websocket_epoll_add

LEMMA HandshakeFailsInv ==
  ASSUME ServerInv, HandshakeFails
  PROVE  ServerInv'
  <1>1. Welcoming /\ Rejected /\ UNCHANGED <<read, cut>> BY DEF HandshakeFails, Welcoming
  <1>2. Types /\ ReadOK BY DEF ServerInv
  <1>3. read' \in [Conns -> Nat] /\ cut' \subseteq Conns /\ \A d \in Conns : read'[d] <= sent[d]
    BY <1>1, <1>2 DEF Types, ReadOK
  <1>4. QED BY <1>1, <1>3, RejectedInv

\* A read takes no more than there is.
LEMMA OneReadFacts ==
  ASSUME ServerInv, NEW c \in Conns
  PROVE  /\ Unread(c) \in Nat /\ OneRead(c) \in Nat /\ OneRead(c) <= Unread(c)
         /\ read[c] \in Nat /\ sent[c] \in Nat /\ Unread(c) = sent[c] - read[c]
  <1>1. read[c] \in Nat /\ sent[c] \in Nat /\ read[c] <= sent[c] BY DEF ServerInv, Types, ReadOK
  <1>2. Unread(c) \in Nat /\ Unread(c) = sent[c] - read[c] BY <1>1 DEF Unread
  <1> DEFINE S == {Unread(c), Capacity - 1}
  <1>3. S \subseteq Nat /\ S # {} /\ Unread(c) \in S BY <1>2, ServerConstants
  <1> HIDE DEF S
  <1>4. Min(S) \in S /\ Min(S) <= Unread(c) BY <1>3, MinFacts
  <1>5. QED BY <1>1, <1>2, <1>3, <1>4 DEF OneRead, S

LEMMA HandshakeReadInv ==
  ASSUME ServerInv, HandshakeRead
  PROVE  ServerInv'
  <1> DEFINE c == fds[current]
             n == OneRead(c)
  <1>1. /\ Welcoming /\ read' = [read EXCEPT ![c] = n]
        /\ cut' = IF n # RequestSize(Script[c].request) THEN cut \cup {c} ELSE cut
    BY DEF HandshakeRead, Welcoming
  <1>2. /\ Types /\ BatchOK /\ BatchCurrent /\ PlaceOK /\ DebtOK /\ ReadOK /\ HandledOK /\ InOrder
    BY DEF ServerInv
  <1>3. /\ current \in Fds /\ current # NoFd /\ c \in Conns /\ phase[c] = "open"
        /\ read[c] = 0 /\ handled[c] = <<>> /\ Running
        /\ todo = <<>> /\ sends = <<>> /\ batch # <<>> /\ Head(batch).fd = NoFd
    BY <1>1, WelcomeFacts
  <1>4. n \in Nat /\ n <= sent[c]
    <2>1. /\ Unread(c) \in Nat /\ n \in Nat /\ n <= Unread(c)
          /\ sent[c] \in Nat /\ Unread(c) = sent[c] - read[c]
      BY <1>3, OneReadFacts
    <2>2. QED BY <1>3, <2>1
  <1>5. \A d \in Conns : Fresh(d) <=> d = c \/ phase[d] \in {"idle", "queued"} BY <1>1 DEF Fresh
  <1> HIDE DEF c, n
  <1>6. /\ read' \in [Conns -> Nat] /\ cut' \subseteq Conns /\ read'[c] = n
        /\ \A d \in Conns : d # c => read'[d] = read[d] /\ (d \in cut' <=> d \in cut)
        /\ \A d \in Conns : read'[d] <= sent[d]
    BY <1>1, <1>2, <1>3, <1>4 DEF Types, ReadOK
  <1>7. CASE Rejected BY <1>1, <1>6, <1>7, RejectedInv DEF c
  <1>8. CASE ~Rejected
    <2>1. /\ NextEvent /\ pc' = "batch" /\ current' = NoFd /\ left' \subseteq left \cup {c}
          /\ UNCHANGED <<backlog, phase, sent, hup, full, stalls, ready, stranded>>
          /\ UNCHANGED <<fds, todo, sends, subs, handled, signal, interrupted>>
      BY <1>8 DEF HandshakeRead, kernelVars, c
    <2>2. ~Welcoming' /\ ~Serving' /\ Running' BY <2>1 DEF Welcoming, Serving, Running
    <2>3. /\ batch' \in Seq(EventSet) /\ BatchOK'
          /\ ToSet(batch') \subseteq ToSet(batch) /\ One(Pending') = One(Pending)
      BY <1>1, <1>3, <2>1, <2>2, NextEventFacts
    <2>4. Types' BY <1>2, <1>3, <1>6, <2>1, <2>3 DEF Types, Places
    <2>5. ReadyOK' BY <2>1 DEF ServerInv, ReadyOK
    <2>6. BatchCurrent' BY <1>2, <2>1, <2>3 DEF BatchCurrent
    <2>7. PlaceOK' BY <1>3, <2>1, <2>2 DEF PlaceOK
    <2>8. DebtOK' BY <1>2, <1>3, <2>1, <2>3 DEF DebtOK
    <2>9. FrameStart(c, 1) = RequestSize(Script[c].request) /\ FrameStart(c, 1) \in Boundaries(c)
      <3>1. FrameCount(c) \in Nat BY <1>3, ScriptFacts
      <3>2. 1 \in 1 .. (FrameCount(c) + 1) BY <3>1
      <3>3. QED BY <1>3, <3>2, StartFacts DEF Boundaries, FrameCount
    <2>10. c \notin cut' => read'[c] = FrameStart(c, 1) BY <1>1, <1>6, <2>9
    <2>11. ReadOK'
      <3> SUFFICES ASSUME NEW d \in Conns
                   PROVE  /\ read'[d] <= sent'[d]
                          /\ Fresh(d)' => read'[d] = 0 /\ handled'[d] = <<>>
                          /\ Running' /\ phase'[d] = "open" /\ ~Fresh(d)' /\ d \notin cut'
                               => read'[d] \in Boundaries(d)
        BY DEF ReadOK
      <3>1. Fresh(d)' <=> phase[d] \in {"idle", "queued"} BY <2>1, <2>2 DEF Fresh
      <3>2. CASE d = c BY <1>3, <1>6, <2>1, <2>9, <2>10, <3>1, <3>2
      <3>3. CASE d # c BY <1>2, <1>3, <1>5, <1>6, <2>1, <3>1, <3>3 DEF ReadOK
      <3>4. QED BY <3>2, <3>3
    <2>12. HandledOK'
      <3>1. \A d \in Conns : \A x \in ToSet(handled'[d]) : InRead(d, x)'
        <4> SUFFICES ASSUME NEW d \in Conns, NEW x \in ToSet(handled'[d]) PROVE InRead(d, x)' OBVIOUS
        <4>1. d # c BY <1>3, <2>1, EmptySeqFacts
        <4>2. QED BY <1>2, <1>6, <2>1, <4>1 DEF HandledOK, InRead
      <3>2. QED BY <2>2, <3>1 DEF HandledOK
    <2>13. InOrder'
      <3>1. \A i \in DOMAIN Script[c].frames : ~(FrameStart(c, i + 1) <= FrameStart(c, 1))
        BY <1>3, NothingRead
      <3>2. QED BY <1>2, <1>3, <1>6, <2>1, <2>10, <3>1, EmptySeqFacts DEF InOrder
    <2>14. QED BY <2>1, <2>3, <2>4, <2>5, <2>6, <2>7, <2>8, <2>11, <2>12, <2>13, Unchanged DEF ServerInv
  <1>9. QED BY <1>7, <1>8

-----------------------------------------------------------------------------
(* Reading a client.                                                       *)

\* The descriptor of an event belongs to an open connection.
LEMMA EventFacts ==
  ASSUME ServerInv, batch # <<>>, Head(batch).fd # NoFd
  PROVE  /\ Head(batch).fd \in Fds /\ fds[Head(batch).fd] \in Conns
         /\ fds[Head(batch).fd] = Head(batch).conn /\ phase[fds[Head(batch).fd]] = "open"
  <1>1. Types /\ OpenOK /\ BatchOK /\ BatchCurrent BY DEF ServerInv
  <1>2. /\ Head(batch) \in EventSet /\ Head(batch) \in ToSet(batch) /\ Head(batch) = batch[1]
        /\ Len(batch) \in Nat \ {0}
    BY <1>1, TailFacts DEF Types
  <1>3. 1 \in 1 .. Len(batch) BY <1>2
  <1>4. Head(batch).conn # 0 BY <1>1, <1>2, <1>3 DEF BatchOK
  <1>5. fds[Head(batch).fd] = Head(batch).conn BY <1>1, <1>2 DEF BatchCurrent
  <1>6. Head(batch).fd \in Fds /\ Head(batch).conn \in Conns BY <1>2, <1>4 DEF EventSet
  <1>7. QED BY <1>1, <1>5, <1>6 DEF OpenOK

LEMMA ServingFacts ==
  ASSUME ServerInv, Serving
  PROVE  /\ current \in Fds /\ current # NoFd /\ fds[current] \in Conns /\ phase[fds[current]] = "open"
         /\ batch # <<>> /\ Head(batch).fd = current /\ Running /\ ~Welcoming
  <1>1. current # NoFd /\ batch # <<>> /\ Head(batch).fd = current BY DEF ServerInv, PlaceOK
  <1>2. Running /\ ~Welcoming BY DEF Running, Serving, Welcoming
  <1>3. QED BY <1>1, <1>2, EventFacts

LEMMA ClosingInv ==
  ASSUME ServerInv, HungUp \/ ReceiveSignal \/ Garbage \/ CloseFrame
  PROVE  ServerInv'
  <1>1. CASE ReceiveEvent
    <2>1. pc = "batch" /\ batch # <<>> /\ Head(batch).fd # NoFd BY <1>1 DEF ReceiveEvent
    <2>2. Head(batch).fd \in Fds BY <2>1, EventFacts
    <2>3. Disconnected(Head(batch).fd, "batch") \/ Disconnected(Head(batch).fd, "stopped")
      BY <2>1 DEF HungUp, ReceiveSignal, Garbage, CloseFrame
    <2>4. QED BY <2>1, <2>2, <2>3, DisconnectedInv
  <1>2. CASE CloseFrame
    <2>1. pc = "frames" /\ Serving /\ Disconnected(current, "batch") BY <1>2 DEF CloseFrame, Serving
    <2>2. current \in Fds /\ batch # <<>> /\ Head(batch).fd = current BY <2>1, ServingFacts
    <2>3. QED BY <2>1, <2>2, DisconnectedInv
  <1>3. QED BY <1>1, <1>2 DEF HungUp, ReceiveSignal, Garbage

LEMMA RecvInv ==
  ASSUME ServerInv, websocket_recv
  PROVE  ServerInv'
  <1> DEFINE fd == Head(batch).fd
             c == fds[fd]
             n == OneRead(c)
             a == read[c]
             end == read[c] + n
             whole == WholeFrames(c, a, end)
  <1>1. /\ pc = "batch" /\ batch # <<>> /\ fd # NoFd
        /\ read' = [read EXCEPT ![c] = end]
        /\ cut' = IF end \notin Boundaries(c) THEN cut \cup {c} ELSE cut
        /\ left' \subseteq left \cup {c} /\ pc' = "frames" /\ current' = fd
        /\ todo' \in {whole, <<>>} /\ (a \in Boundaries(c) => todo' = whole)
        /\ UNCHANGED <<backlog, phase, sent, hup, full, stalls, ready, stranded>>
        /\ UNCHANGED <<fds, batch, sends, subs, handled, signal, interrupted>>
    BY DEF websocket_recv, ReceiveEvent, kernelVars
  <1>2. /\ Types /\ ReadyOK /\ PlaceOK /\ DebtOK /\ ReadOK /\ HandledOK /\ InOrder
    BY DEF ServerInv
  <1>3. fd \in Fds /\ c \in Conns /\ phase[c] = "open" BY <1>1, EventFacts
  <1>4. /\ n \in Nat /\ a \in Nat /\ end \in Nat /\ a <= end /\ end <= sent[c]
    <2>1. /\ Unread(c) \in Nat /\ n \in Nat /\ n <= Unread(c)
          /\ a \in Nat /\ sent[c] \in Nat /\ Unread(c) = sent[c] - a
      BY <1>3, OneReadFacts
    <2> HIDE DEF n, a, c
    <2>2. QED BY <2>1 DEF a
  <1> HIDE DEF fd, c, n, end
  <1>5. /\ whole \in Seq(Nat) /\ Increasing(whole)
        /\ \A i : i \in ToSet(whole) <=> /\ i \in 1 .. FrameCount(c)
                                         /\ FrameStart(c, i) >= a /\ FrameStart(c, i + 1) <= end
    <2> HIDE DEF a
    <2>1. QED BY <1>3, <1>4, WholeFacts
  <1> HIDE DEF whole
  <1>6. todo' \in Seq(Nat) /\ Increasing(todo') /\ ToSet(todo') \subseteq ToSet(whole)
    BY <1>1, <1>5, EmptySeqFacts
  <1>7. /\ read' \in [Conns -> Nat] /\ cut' \subseteq Conns /\ read'[c] = end
        /\ \A d \in Conns : d # c => read'[d] = read[d] /\ (d \in cut' <=> d \in cut)
        /\ cut \subseteq cut'
    BY <1>1, <1>2, <1>3, <1>4 DEF Types
  <1>8. ~Welcoming /\ ~Welcoming' /\ ~Serving /\ Serving' /\ Running /\ Running'
    BY <1>1 DEF Welcoming, Serving, Running
  <1>9. Types' BY <1>1, <1>2, <1>3, <1>6, <1>7 DEF Types, Places
  <1>10. ReadyOK' BY <1>1, <1>2 DEF ReadyOK
  <1>11. todo = <<>> /\ sends = <<>> /\ current = NoFd BY <1>1, <1>2 DEF PlaceOK
  <1>12. PlaceOK' BY <1>1, <1>8, <1>11 DEF PlaceOK, fd
  <1>13. DebtOK'
    <2>1. Pending' <=> Pending BY <1>1, <1>8 DEF Pending
    <2>2. One(Pending') = One(Pending) BY <2>1 DEF One
    <2>3. QED BY <1>1, <1>2, <1>8, <2>2 DEF DebtOK
  <1>14. \A d \in Conns : Fresh(d)' <=> Fresh(d) BY <1>1, <1>8 DEF Fresh
  <1>15. ~Fresh(c) BY <1>3, <1>8 DEF Fresh
  <1>16. ReadOK'
    <2> SUFFICES ASSUME NEW d \in Conns
                 PROVE  /\ read'[d] <= sent'[d]
                        /\ Fresh(d)' => read'[d] = 0 /\ handled'[d] = <<>>
                        /\ Running' /\ phase'[d] = "open" /\ ~Fresh(d)' /\ d \notin cut'
                             => read'[d] \in Boundaries(d)
      BY DEF ReadOK
    <2>1. CASE d = c BY <1>1, <1>3, <1>4, <1>7, <1>14, <1>15, <2>1
    <2>2. CASE d # c BY <1>1, <1>2, <1>7, <1>8, <1>14, <2>2 DEF ReadOK
    <2>3. QED BY <2>1, <2>2
  <1>17. ASSUME NEW x \in 1 .. FrameCount(c)
         PROVE  /\ FrameStart(c, x) \in Nat /\ FrameStart(c, x + 1) \in Nat
                /\ \A y \in 1 .. (FrameCount(c) + 1) : FrameStart(c, y) <= FrameStart(c, x) => y <= x
                /\ \A y \in 1 .. (FrameCount(c) + 1) : FrameStart(c, y) < FrameStart(c, x + 1) => y <= x
                /\ \A y \in 1 .. x : FrameStart(c, y) <= FrameStart(c, x)
    <2> DEFINE z == x + 1
    <2>1. FrameCount(c) \in Nat BY <1>3, ScriptFacts
    <2>2. x \in 1 .. (FrameCount(c) + 1) /\ z \in 1 .. (FrameCount(c) + 1) /\ z = x + 1 BY <2>1
    <2> HIDE DEF z
    <2>3. /\ \A i \in 1 .. (FrameCount(c) + 1) : FrameStart(c, i) \in Nat
          /\ \A i, j \in 1 .. (FrameCount(c) + 1) : i < j => FrameStart(c, i) < FrameStart(c, j)
      BY <1>3, StartFacts
    <2>4. FrameStart(c, x) \in Nat /\ FrameStart(c, z) \in Nat BY <2>2, <2>3
    <2>5. ASSUME NEW y \in 1 .. (FrameCount(c) + 1), FrameStart(c, y) <= FrameStart(c, x) PROVE y <= x
      <3> SUFFICES ASSUME x < y PROVE FALSE BY <2>1
      <3>1. FrameStart(c, x) < FrameStart(c, y) /\ FrameStart(c, y) \in Nat BY <2>2, <2>3
      <3>2. QED BY <2>4, <2>5, <3>1
    <2>6. ASSUME NEW y \in 1 .. (FrameCount(c) + 1), FrameStart(c, y) < FrameStart(c, z) PROVE y <= x
      <3> SUFFICES ASSUME x < y PROVE FALSE BY <2>1
      <3>1. y = z \/ z < y BY <2>1, <2>2
      <3>2. FrameStart(c, y) \in Nat /\ (z < y => FrameStart(c, z) < FrameStart(c, y)) BY <2>2, <2>3
      <3>3. CASE y = z BY <2>4, <2>6, <3>3
      <3>4. CASE z < y BY <2>4, <2>6, <3>2, <3>4
      <3>5. QED BY <3>1, <3>3, <3>4
    <2>7. ASSUME NEW y \in 1 .. x PROVE FrameStart(c, y) <= FrameStart(c, x)
      <3>1. y \in 1 .. (FrameCount(c) + 1) /\ (y < x \/ y = x) BY <2>1
      <3>2. FrameStart(c, y) \in Nat /\ (y < x => FrameStart(c, y) < FrameStart(c, x)) BY <2>2, <2>3, <3>1
      <3>3. CASE y = x BY <2>4, <3>3
      <3>4. CASE y < x BY <2>4, <3>2, <3>4
      <3>5. QED BY <3>1, <3>3, <3>4
    <2>8. QED BY <2>4, <2>5, <2>6, <2>7 DEF z
  <1>18. HandledOK'
    <2>1. ASSUME NEW d \in Conns, NEW x \in ToSet(handled'[d]) PROVE InRead(d, x)'
      <3>1. InRead(d, x) BY <1>1, <1>2, <2>1 DEF HandledOK
      <3>2. CASE d = c
        <4>1. x \in 1 .. FrameCount(c) /\ FrameStart(c, x + 1) <= a BY <3>1, <3>2 DEF InRead
        <4>2. FrameStart(c, x + 1) \in Nat BY <1>17, <4>1
        <4>3. FrameStart(c, x + 1) <= end
          <5> HIDE DEF a
          <5>1. QED BY <1>4, <4>1, <4>2
        <4>4. QED BY <1>7, <3>2, <4>1, <4>3 DEF InRead
      <3>3. CASE d # c BY <1>7, <3>1, <3>3 DEF InRead
      <3>4. QED BY <3>2, <3>3
    <2>2. ASSUME NEW x \in ToSet(todo')
          PROVE  /\ x \in 1 .. FrameCount(c) /\ FrameStart(c, x + 1) <= read'[c]
                 /\ \A y \in ToSet(handled[c]) : y < x
      <3>1. x \in 1 .. FrameCount(c) /\ FrameStart(c, x) >= a /\ FrameStart(c, x + 1) <= end
        BY <1>5, <1>6, <2>2
      <3>2. FrameStart(c, x + 1) <= read'[c] BY <1>7, <3>1
      <3>3. ASSUME NEW y \in ToSet(handled[c]) PROVE y < x
        <4>1. y \in 1 .. FrameCount(c) /\ FrameStart(c, y + 1) <= a
          BY <1>2, <1>3 DEF HandledOK, InRead
        <4>2. FrameCount(c) \in Nat /\ FrameStart(c, y + 1) \in Nat /\ FrameStart(c, x) \in Nat
          BY <1>3, <1>17, <3>1, <4>1, ScriptFacts
        <4>3. FrameStart(c, y + 1) <= FrameStart(c, x)
          <5> HIDE DEF a
          <5>1. QED BY <1>4, <3>1, <4>1, <4>2
        <4> DEFINE z == y + 1
        <4>4. z \in 1 .. (FrameCount(c) + 1) BY <4>1, <4>2
        <4>5. z <= x
          <5>1. FrameStart(c, z) <= FrameStart(c, x) BY <4>3
          <5> HIDE DEF z
          <5>2. QED BY <1>17, <3>1, <4>4, <5>1
        <4>6. QED BY <3>1, <4>1, <4>5
      <3>4. QED BY <3>1, <3>2, <3>3
    <2>3. c = fds'[current'] /\ handled' = handled BY <1>1 DEF c
    <2>4. \A x \in ToSet(todo') : /\ InRead(fds[current], x)'
                                  /\ \A y \in ToSet(handled'[fds'[current']]) : y < x
      BY <2>2, <2>3 DEF InRead
    <2>5. \A d \in Conns : \A x \in ToSet(handled'[d]) : InRead(d, x)' BY <2>1
    <2>6. QED BY <1>6, <2>4, <2>5 DEF HandledOK
  <1>19. InOrder'
    <2>1. ASSUME NEW i \in DOMAIN Script[c].frames, c \notin cut', FrameStart(c, i + 1) <= read'[c]
          PROVE  i \in ToSet(handled[c]) \cup ToSet(todo')
      <3>1. i \in 1 .. FrameCount(c) BY <1>3, ScriptFacts DEF Frames
      <3>2. a \in Boundaries(c) /\ todo' = whole
        BY <1>1, <1>2, <1>3, <1>7, <1>8, <1>15, <2>1 DEF ReadOK
      <3>3. PICK k \in 1 .. (FrameCount(c) + 1) : a = FrameStart(c, k) BY <3>2 DEF Boundaries, FrameCount
      <3>4. CASE FrameStart(c, i + 1) <= a BY <1>2, <1>3, <1>7, <1>11, <2>1, <3>4, EmptySeqFacts DEF InOrder
      <3>5. CASE ~(FrameStart(c, i + 1) <= a)
        <4>1. FrameStart(c, i + 1) \in Nat /\ FrameStart(c, i) \in Nat BY <1>17, <3>1
        <4>2. FrameStart(c, k) < FrameStart(c, i + 1)
          <5> HIDE DEF a
          <5>1. QED BY <1>4, <3>3, <3>5, <4>1
        <4>3. k <= i BY <1>17, <3>1, <4>2
        <4>4. k \in 1 .. i BY <3>1, <4>3
        <4>5. FrameStart(c, k) <= FrameStart(c, i) BY <1>17, <3>1, <4>4
        <4>6. FrameStart(c, i) >= a
          <5> HIDE DEF a
          <5>1. QED BY <1>4, <3>3, <4>1, <4>5
        <4>7. QED BY <1>5, <1>7, <2>1, <3>1, <3>2, <4>6
      <3>6. QED BY <3>4, <3>5
    <2>2. current' # NoFd /\ fds'[current'] = c BY <1>1 DEF c
    <2>3. QED BY <1>1, <1>2, <1>7, <1>11, <2>1, <2>2 DEF InOrder
  <1>20. QED BY <1>1, <1>9, <1>10, <1>12, <1>13, <1>16, <1>18, <1>19, Unchanged DEF ServerInv

LEMMA ReadDoneInv ==
  ASSUME ServerInv, ReadDone
  PROVE  ServerInv'
  <1>1. /\ pc = "frames" /\ todo = <<>> /\ NextEvent /\ pc' = "batch" /\ current' = NoFd
        /\ UNCHANGED <<backlog, phase, sent, hup, full, stalls, ready, stranded>>
        /\ UNCHANGED <<fds, read, todo, sends, subs, handled, cut, left, signal, interrupted>>
    BY DEF ReadDone, kernelVars
  <1>2. Types /\ ReadyOK /\ BatchCurrent /\ PlaceOK /\ DebtOK /\ ReadOK /\ HandledOK /\ InOrder
    BY DEF ServerInv
  <1>3. /\ Serving /\ ~Welcoming /\ ~Welcoming' /\ ~Serving' /\ Running /\ Running'
    BY <1>1 DEF Welcoming, Serving, Running
  <1>4. batch # <<>> /\ Head(batch).fd # NoFd BY <1>3, ServingFacts
  <1>5. /\ batch' \in Seq(EventSet) /\ BatchOK'
        /\ ToSet(batch') \subseteq ToSet(batch) /\ One(Pending') = One(Pending)
    BY <1>1, <1>3, <1>4, NextEventFacts
  <1>6. Types' BY <1>1, <1>2, <1>5 DEF Types, Places
  <1>7. ReadyOK' BY <1>1, <1>2 DEF ReadyOK
  <1>8. BatchCurrent' BY <1>1, <1>2, <1>5 DEF BatchCurrent
  <1>9. PlaceOK' BY <1>1, <1>2, <1>3 DEF PlaceOK
  <1>10. DebtOK' BY <1>1, <1>2, <1>3, <1>5 DEF DebtOK
  <1>11. ReadOK' BY <1>1, <1>2, <1>3 DEF ReadOK, Fresh
  <1>12. HandledOK' BY <1>1, <1>2, <1>3 DEF HandledOK, InRead
  <1>13. InOrder' BY <1>1, <1>2, EmptySeqFacts DEF InOrder
  <1>14. QED BY <1>1, <1>5, <1>6, <1>7, <1>8, <1>9, <1>10, <1>11, <1>12, <1>13, Unchanged DEF ServerInv

LEMMA PrependFacts ==
  ASSUME NEW S, NEW x \in S, NEW s \in Seq(S)
  PROVE  <<x>> \o s \in Seq(S) /\ ToSet(<<x>> \o s) = {x} \cup ToSet(s)
  <1> DEFINE t == <<x>> \o s
  <1>1. /\ t \in Seq(S) /\ Len(t) = Len(s) + 1 /\ Len(s) \in Nat /\ t[1] = x
        /\ \A i \in 1 .. Len(s) : t[i + 1] = s[i]
    OBVIOUS
  <1> HIDE DEF t
  <1>2. \A y : y \in ToSet(t) <=> \E i \in 1 .. Len(t) : t[i] = y BY <1>1, ElementFacts
  <1>3. \A y : y \in ToSet(s) <=> \E i \in 1 .. Len(s) : s[i] = y BY ElementFacts
  <1>4. ASSUME NEW y PROVE y \in ToSet(t) <=> y = x \/ y \in ToSet(s)
    <2>1. ASSUME y \in ToSet(t) PROVE y = x \/ y \in ToSet(s)
      <3>1. PICK i \in 1 .. Len(t) : t[i] = y BY <1>2, <2>1
      <3>2. CASE i = 1 BY <1>1, <3>1, <3>2
      <3>3. CASE i # 1
        <4>1. i - 1 \in 1 .. Len(s) /\ (i - 1) + 1 = i BY <1>1, <3>3
        <4>2. t[i] = s[i - 1]
          <5>1. t[(i - 1) + 1] = s[i - 1] BY <1>1, <4>1
          <5>2. QED BY <4>1, <5>1
        <4>3. QED BY <1>3, <3>1, <4>1, <4>2
      <3>4. QED BY <3>2, <3>3
    <2>2. ASSUME y = x PROVE y \in ToSet(t)
      <3>1. 1 \in 1 .. Len(t) BY <1>1
      <3>2. QED BY <1>1, <1>2, <2>2, <3>1
    <2>3. ASSUME y \in ToSet(s) PROVE y \in ToSet(t)
      <3>1. PICK i \in 1 .. Len(s) : s[i] = y BY <1>3, <2>3
      <3>2. i + 1 \in 1 .. Len(t) /\ t[i + 1] = y BY <1>1, <3>1
      <3>3. QED BY <1>2, <3>2
    <2>4. QED BY <2>1, <2>2, <2>3
  <1>5. QED BY <1>1, <1>4 DEF t

LEMMA SingleFacts ==
  ASSUME NEW S, NEW x \in S
  PROVE  <<x>> \in Seq(S) /\ ToSet(<<x>>) = {x}
  <1> DEFINE t == <<x>>
  <1>1. t \in Seq(S) /\ Len(t) = 1 /\ t[1] = x OBVIOUS
  <1> HIDE DEF t
  <1>2. \A y : y \in ToSet(t) <=> \E i \in 1 .. Len(t) : t[i] = y BY <1>1, ElementFacts
  <1>3. \A y : y \in ToSet(t) <=> y = x BY <1>1, <1>2
  <1>4. QED BY <1>1, <1>3 DEF t

\* The messages of a handler go to descriptors that are in use, under the
\* connections that have them.
LEMMA RepliesFacts ==
  ASSUME ServerInv, Serving, NEW f, IsFrame(f)
  PROVE  /\ Replies(f) \in Seq(MessageSet)
         /\ \A x \in ToSet(Replies(f)) : fds[x.fd] = x.conn
  <1> DEFINE OK(s) == s \in Seq(MessageSet) /\ \A x \in ToSet(s) : fds[x.fd] = x.conn
  <1>1. current \in Fds /\ fds[current] \in Conns BY ServingFacts
  <1>2. ASSUME NEW g \in Fds, fds[g] \in Conns, NEW len \in Nat, NEW pong \in BOOLEAN
        PROVE  /\ Message(g, len, pong) \in MessageSet
               /\ fds[Message(g, len, pong).fd] = Message(g, len, pong).conn
    BY <1>2 DEF Message, MessageSet
  <1>3. f.len \in Nat /\ Answer \in Nat
    <2>1. f.len \in Nat BY DEF IsFrame
    <2>2. Answer \in Nat BY ServerConstants
    <2>3. QED BY <2>1, <2>2
  <1>4. ASSUME NEW len \in Nat, NEW pong \in BOOLEAN PROVE OK(<<Message(current, len, pong)>>)
    <2> DEFINE m == Message(current, len, pong)
    <2>1. m \in MessageSet /\ fds[m.fd] = m.conn BY <1>1, <1>2
    <2> HIDE DEF m
    <2>2. <<m>> \in Seq(MessageSet) /\ ToSet(<<m>>) = {m} BY <2>1, SingleFacts
    <2>3. OK(<<m>>) BY <2>1, <2>2
    <2>4. QED BY <2>3 DEF m
  <1>5. CASE f.opcode = "ping"
    <2>1. Replies(f) = <<Message(current, f.len, TRUE)>> BY <1>5 DEF Replies
    <2>2. QED BY <1>3, <1>4, <2>1
  <1>6. CASE f.opcode = "text" /\ f.message = "EVENT"
    <2> DEFINE o == Others(current)
               r == [i \in DOMAIN o |-> Message(o[i].fd, f.reply, FALSE)]
               m == Message(current, Answer, FALSE)
    <2>1. Replies(f) = <<m>> \o r BY <1>6 DEF Replies
    <2>2. f.reply \in Nat BY <1>6 DEF IsFrame
    <2>3. o \in Seq(SubSet) /\ ToSet(o) = {s \in ToSet(subs) : s.fd # current} BY OthersFacts
    <2> HIDE DEF o
    <2>4. /\ Len(o) \in Nat /\ DOMAIN o = 1 .. Len(o) /\ \A i \in 1 .. Len(o) : o[i] \in SubSet
          /\ \A x : x \in ToSet(o) <=> \E i \in 1 .. Len(o) : o[i] = x
      BY <2>3, ElementFacts
    <2>5. \A i \in 1 .. Len(o) : o[i].fd \in Fds /\ fds[o[i].fd] \in Conns
      <3> SUFFICES ASSUME NEW i \in 1 .. Len(o) PROVE o[i].fd \in Fds /\ fds[o[i].fd] \in Conns OBVIOUS
      <3>1. o[i] \in ToSet(o) /\ o[i] \in SubSet BY <2>4
      <3>2. fds[o[i].fd] = o[i].conn BY <2>3, <3>1 DEF ServerInv, SubsCurrent
      <3>3. QED BY <3>1, <3>2 DEF SubSet
    <2>6. \A i \in 1 .. Len(o) : /\ Message(o[i].fd, f.reply, FALSE) \in MessageSet
                                 /\ fds[Message(o[i].fd, f.reply, FALSE).fd]
                                      = Message(o[i].fd, f.reply, FALSE).conn
      BY <1>2, <2>2, <2>5
    <2>7. r = [i \in 1 .. Len(o) |-> Message(o[i].fd, f.reply, FALSE)] BY <2>4
    <2>8. r \in Seq(MessageSet) /\ Len(r) = Len(o)
      <3> DEFINE M(i) == Message(o[i].fd, f.reply, FALSE)
      <3>1. r = [i \in 1 .. Len(o) |-> M(i)] /\ \A i \in 1 .. Len(o) : M(i) \in MessageSet
        BY <2>6, <2>7
      <3> HIDE DEF M, r
      <3>2. QED BY <2>4, <3>1
    <2>9. \A i \in 1 .. Len(o) : fds[r[i].fd] = r[i].conn BY <2>6, <2>7
    <2> HIDE DEF r
    <2>10. \A x \in ToSet(r) : fds[x.fd] = x.conn
      <3>1. \A x : x \in ToSet(r) <=> \E i \in 1 .. Len(r) : r[i] = x BY <2>8, ElementFacts
      <3>2. QED BY <2>8, <2>9, <3>1
    <2>11. m \in MessageSet /\ fds[m.fd] = m.conn BY <1>1, <1>2, <1>3
    <2> HIDE DEF m
    <2>12. <<m>> \o r \in Seq(MessageSet) /\ ToSet(<<m>> \o r) = {m} \cup ToSet(r)
      BY <2>8, <2>11, PrependFacts
    <2>13. QED BY <2>1, <2>10, <2>11, <2>12
  <1>7. CASE f.opcode = "text" /\ f.message # "EVENT"
    <2>1. Replies(f) = <<Message(current, Answer, FALSE)>> BY <1>7 DEF Replies
    <2>2. QED BY <1>3, <1>4, <2>1
  <1>8. CASE f.opcode # "ping" /\ f.opcode # "text"
    <2>1. Replies(f) = <<>> BY <1>8 DEF Replies
    <2>2. QED BY <2>1, EmptySeqFacts
  <1>9. QED BY <1>5, <1>6, <1>7, <1>8

LEMMA OpcodeInv ==
  ASSUME ServerInv, opcode_handle
  PROVE  ServerInv'
  <1> DEFINE c == fds[current]
             h == Head(todo)
             f == Script[c].frames[h]
             sub == [fd |-> current, conn |-> c]
  <1>1. /\ pc = "frames" /\ todo # <<>> /\ handled' = [handled EXCEPT ![c] = Append(@, h)]
        /\ todo' = Tail(todo) /\ subs' \in {subs, Append(subs, sub)}
        /\ sends' = Replies(f) /\ pc' = "sending"
        /\ UNCHANGED <<backlog, phase, sent, hup, full, stalls, ready, stranded>>
        /\ UNCHANGED <<fds, read, batch, current, cut, left, signal, interrupted>>
    BY DEF opcode_handle, kernelVars
  <1>2. /\ Types /\ ReadyOK /\ SubsCurrent /\ PlaceOK /\ DebtOK /\ ReadOK /\ HandledOK /\ InOrder
    BY DEF ServerInv
  <1>3. /\ Serving /\ Serving' /\ ~Welcoming /\ ~Welcoming' /\ Running /\ Running'
    BY <1>1 DEF Welcoming, Serving, Running
  <1>4. /\ current \in Fds /\ current # NoFd /\ c \in Conns /\ phase[c] = "open" BY <1>3, ServingFacts
  <1>5. /\ todo' \in Seq(Nat) /\ h \in Nat /\ h \in ToSet(todo) /\ h = todo[1]
        /\ ToSet(todo) = {h} \cup ToSet(todo')
        /\ Len(todo') = Len(todo) - 1 /\ Len(todo) \in Nat \ {0}
        /\ \A i \in 1 .. (Len(todo) - 1) : i + 1 \in 1 .. Len(todo) /\ todo'[i] = todo[i + 1]
    BY <1>1, <1>2, TailFacts DEF Types
  <1>6. /\ Increasing(todo) /\ h \in 1 .. FrameCount(c) /\ FrameStart(c, h + 1) <= read[c]
        /\ \A x \in ToSet(todo) : /\ x \in 1 .. FrameCount(c) /\ FrameStart(c, x + 1) <= read[c]
                                  /\ \A y \in ToSet(handled[c]) : y < x
    BY <1>2, <1>3, <1>5 DEF HandledOK, InRead
  <1>7. IsFrame(f) BY <1>4, <1>6, ScriptFacts DEF Frames
  <1>8. sends' \in Seq(MessageSet) /\ \A x \in ToSet(sends') : fds[x.fd] = x.conn
    <2> HIDE DEF f
    <2>1. QED BY <1>1, <1>3, <1>7, RepliesFacts
  <1>9. subs' \in Seq(SubSet) /\ \A x \in ToSet(subs') : fds[x.fd] = x.conn
    <2>1. sub \in SubSet /\ fds[sub.fd] = sub.conn BY <1>4 DEF SubSet
    <2>2. subs \in Seq(SubSet) BY <1>2 DEF Types
    <2> HIDE DEF sub
    <2>3. Append(subs, sub) \in Seq(SubSet) /\ ToSet(Append(subs, sub)) = ToSet(subs) \cup {sub}
      BY <2>1, <2>2, AppendFacts
    <2>4. QED BY <1>1, <1>2, <2>1, <2>2, <2>3 DEF SubsCurrent
  <1> HIDE DEF c, h, f, sub
  <1>10. /\ Increasing(todo') /\ \A x \in ToSet(todo') : h < x
    <2>1. ASSUME NEW i \in 1 .. Len(todo'), NEW j \in 1 .. Len(todo'), i < j PROVE todo'[i] < todo'[j]
      <3>1. /\ i + 1 \in 1 .. Len(todo) /\ j + 1 \in 1 .. Len(todo) /\ i + 1 < j + 1
            /\ todo'[i] = todo[i + 1] /\ todo'[j] = todo[j + 1]
        BY <1>5, <2>1
      <3>2. QED BY <1>6, <3>1 DEF Increasing
    <2>2. ASSUME NEW i \in 1 .. Len(todo') PROVE h < todo'[i]
      <3>1. 1 \in 1 .. Len(todo) /\ i + 1 \in 1 .. Len(todo) /\ 1 < i + 1 /\ todo'[i] = todo[i + 1]
        BY <1>5
      <3>2. QED BY <1>5, <1>6, <3>1 DEF Increasing
    <2>3. \A x : x \in ToSet(todo') <=> \E i \in 1 .. Len(todo') : todo'[i] = x BY <1>5, ElementFacts
    <2>4. QED BY <2>1, <2>2, <2>3 DEF Increasing
  <1>11. /\ handled' \in [Conns -> Seq(Nat)] /\ handled'[c] = Append(handled[c], h)
         /\ \A d \in Conns : d # c => handled'[d] = handled[d]
    <2>1. Append(handled[c], h) \in Seq(Nat) BY <1>2, <1>4, <1>5 DEF Types
    <2>2. QED BY <1>1, <1>2, <1>4, <2>1 DEF Types
  <1>12. /\ Len(handled'[c]) = Len(handled[c]) + 1 /\ Len(handled[c]) \in Nat
         /\ \A i \in 1 .. Len(handled[c]) : handled'[c][i] = handled[c][i]
         /\ handled'[c][Len(handled[c]) + 1] = h
         /\ ToSet(handled'[c]) = ToSet(handled[c]) \cup {h}
         /\ \A i \in 1 .. Len(handled[c]) : handled[c][i] \in ToSet(handled[c])
    <2> DEFINE s == handled[c]
    <2>1. s \in Seq(Nat) BY <1>2, <1>4 DEF Types
    <2>2. handled'[c] = Append(s, h) BY <1>11
    <2> HIDE DEF s
    <2>3. /\ Len(Append(s, h)) = Len(s) + 1
          /\ \A i \in 1 .. Len(s) : Append(s, h)[i] = s[i]
          /\ Append(s, h)[Len(s) + 1] = h
          /\ ToSet(Append(s, h)) = ToSet(s) \cup {h}
      <3>1. h \in Nat BY <1>5
      <3>2. QED BY <2>1, <3>1, AppendFacts, SMTT(30)
    <2>4. Len(s) \in Nat /\ \A i \in 1 .. Len(s) : s[i] \in ToSet(s) BY <2>1, ElementFacts
    <2>5. QED BY <2>2, <2>3, <2>4 DEF s
  <1>13. Types' BY <1>1, <1>2, <1>5, <1>8, <1>9, <1>11 DEF Types, Places
  <1>14. ReadyOK' BY <1>1, <1>2 DEF ReadyOK
  <1>15. SubsCurrent' /\ SendsCurrent' BY <1>1, <1>8, <1>9 DEF SubsCurrent, SendsCurrent
  <1>16. PlaceOK' BY <1>1, <1>2, <1>3 DEF PlaceOK
  <1>17. DebtOK'
    <2>1. Pending' <=> Pending BY <1>1, <1>3 DEF Pending
    <2>2. One(Pending') = One(Pending) BY <2>1 DEF One
    <2>3. QED BY <1>1, <1>2, <1>3, <2>2 DEF DebtOK
  <1>18. ReadOK'
    <2>1. \A d \in Conns : Fresh(d)' <=> Fresh(d) BY <1>1, <1>3 DEF Fresh
    <2>2. ~Fresh(c) BY <1>3, <1>4 DEF Fresh
    <2>3. QED BY <1>1, <1>2, <1>3, <1>11, <2>1, <2>2 DEF ReadOK
  <1>19. HandledOK'
    <2>1. ASSUME NEW d \in Conns, NEW x \in ToSet(handled'[d]) PROVE InRead(d, x)'
      <3>1. CASE d # c BY <1>1, <1>2, <1>11, <2>1, <3>1 DEF HandledOK, InRead
      <3>2. CASE d = c /\ x \in ToSet(handled[c]) BY <1>1, <1>2, <1>4, <3>2 DEF HandledOK, InRead
      <3>3. CASE d = c /\ x = h BY <1>1, <1>6, <3>3 DEF InRead
      <3>4. QED BY <1>12, <2>1, <3>1, <3>2, <3>3
    <2>2. ASSUME NEW x \in ToSet(todo')
          PROVE  /\ x \in 1 .. FrameCount(c) /\ FrameStart(c, x + 1) <= read[c]
                 /\ \A y \in ToSet(handled'[c]) : y < x
      BY <1>5, <1>6, <1>10, <1>12, <2>2
    <2>3. c = fds'[current'] /\ read' = read BY <1>1 DEF c
    <2>4. \A x \in ToSet(todo') : /\ InRead(fds[current], x)'
                                  /\ \A y \in ToSet(handled'[fds'[current']]) : y < x
      BY <2>2, <2>3 DEF InRead
    <2>5. \A d \in Conns : \A x \in ToSet(handled'[d]) : InRead(d, x)' BY <2>1
    <2>6. QED BY <1>10, <2>4, <2>5 DEF HandledOK
  <1>20. InOrder'
    <2>1. ASSUME NEW i \in 2 .. Len(handled'[c]) PROVE handled'[c][i - 1] < handled'[c][i]
      <3>1. i - 1 \in 1 .. Len(handled[c]) BY <1>12
      <3>2. CASE i \in 2 .. Len(handled[c])
        <4>1. i \in 1 .. Len(handled[c]) BY <3>2
        <4>2. handled[c][i - 1] < handled[c][i] BY <1>2, <1>4, <3>2 DEF InOrder
        <4>3. QED BY <1>12, <3>1, <4>1, <4>2
      <3>3. CASE i = Len(handled[c]) + 1
        <4>1. handled[c][i - 1] \in ToSet(handled[c]) BY <1>12, <3>1
        <4>2. handled[c][i - 1] < h BY <1>5, <1>6, <4>1
        <4>3. QED BY <1>12, <3>1, <3>3, <4>2
      <3>4. QED BY <1>12, <3>2, <3>3
    <2>2. \A i \in 2 .. Len(handled'[c]) : handled'[c][i - 1] < handled'[c][i] BY <2>1
    <2>3. ToSet(handled[c]) \cup ToSet(todo) = ToSet(handled'[c]) \cup ToSet(todo') BY <1>5, <1>12
    <2>4. current' # NoFd /\ fds'[current'] = c /\ fds[current] = c /\ current # NoFd
      BY <1>1, <1>4 DEF c
    <2> SUFFICES ASSUME NEW d \in Conns
                 PROVE  /\ \A i \in 2 .. Len(handled'[d]) : handled'[d][i - 1] < handled'[d][i]
                        /\ phase'[d] = "open" /\ d \notin cut' =>
                             \A i \in DOMAIN Script[d].frames :
                               FrameStart(d, i + 1) <= read'[d] =>
                                 i \in ToSet(handled'[d]) \cup (IF current' # NoFd /\ fds'[current'] = d
                                                               THEN ToSet(todo') ELSE {})
      BY DEF InOrder
    <2>5. CASE d = c
      <3>1. ASSUME phase[c] = "open", c \notin cut, NEW i \in DOMAIN Script[c].frames,
                   FrameStart(c, i + 1) <= read[c]
            PROVE  i \in ToSet(handled[c]) \cup ToSet(todo)
        BY <1>2, <1>4, <2>4, <3>1 DEF InOrder
      <3>2. QED BY <1>1, <2>2, <2>3, <2>4, <2>5, <3>1
    <2>6. CASE d # c BY <1>1, <1>2, <1>11, <2>4, <2>6 DEF InOrder
    <2>7. QED BY <2>5, <2>6
  <1>21. QED BY <1>1, <1>13, <1>14, <1>15, <1>16, <1>17, <1>18, <1>19, <1>20, Unchanged DEF ServerInv

-----------------------------------------------------------------------------
(* Sending.                                                                *)

LEMMA FrameDoneInv ==
  ASSUME ServerInv, FrameDone
  PROVE  ServerInv'
  <1>1. pc = "sending" /\ sends = <<>> /\ Serving BY DEF FrameDone, Serving
  <1>2. current \in Fds /\ batch # <<>> /\ Head(batch).fd = current BY <1>1, ServingFacts
  <1>3. CASE signal
    <2>1. Disconnected(current, "stopped") BY <1>3 DEF FrameDone
    <2>2. QED BY <1>1, <1>2, <2>1, DisconnectedInv
  <1>4. CASE ~signal
    <2>1. /\ pc' = "frames"
          /\ UNCHANGED <<backlog, phase, sent, hup, full, stalls, ready, stranded>>
          /\ UNCHANGED <<fds, read, batch, current, todo, sends, subs, handled, cut, left>>
          /\ UNCHANGED <<signal, interrupted>>
      BY <1>4 DEF FrameDone, kernelVars
    <2>2. Types /\ ReadyOK /\ PlaceOK /\ DebtOK /\ ReadOK /\ HandledOK BY DEF ServerInv
    <2>3. Serving' /\ ~Welcoming /\ ~Welcoming' /\ Running /\ Running'
      BY <1>1, <2>1 DEF Serving, Welcoming, Running
    <2>4. Types' BY <2>1, <2>2 DEF Types, Places
    <2>5. ReadyOK' BY <2>1, <2>2 DEF ReadyOK
    <2>6. PlaceOK' BY <1>1, <2>1, <2>2, <2>3 DEF PlaceOK
    <2>7. DebtOK'
      <3>1. Pending' <=> Pending BY <2>1, <2>3 DEF Pending
      <3>2. One(Pending') = One(Pending) BY <3>1 DEF One
      <3>3. QED BY <2>1, <2>2, <2>3, <3>2 DEF DebtOK
    <2>8. ReadOK' BY <2>1, <2>2, <2>3 DEF ReadOK, Fresh
    <2>9. HandledOK' BY <1>1, <2>1, <2>2, <2>3 DEF HandledOK, InRead
    <2>10. QED BY <2>1, <2>4, <2>5, <2>6, <2>7, <2>8, <2>9, Unchanged DEF ServerInv
  <1>5. QED BY <1>3, <1>4

LEMMA SendNextInv ==
  ASSUME ServerInv, pc = "sending", sends # <<>>, SendNext
  PROVE  ServerInv'
  <1>1. /\ sends' = Tail(sends) /\ interrupted' = FALSE
        /\ UNCHANGED <<backlog, phase, sent, hup, full, stalls, ready, stranded>>
        /\ UNCHANGED <<fds, read, batch, pc, current, todo, subs, handled, cut, left, signal>>
    BY DEF SendNext, kernelVars
  <1>2. Types /\ SendsCurrent /\ PlaceOK BY DEF ServerInv
  <1>3. sends' \in Seq(MessageSet) /\ ToSet(sends') \subseteq ToSet(sends)
    BY <1>1, <1>2, TailFacts DEF Types
  <1>4. Types' BY <1>1, <1>2, <1>3 DEF Types
  <1>5. SendsCurrent' BY <1>1, <1>2, <1>3 DEF SendsCurrent
  <1>6. PlaceOK' BY <1>1, <1>2 DEF PlaceOK, Welcoming, Serving
  <1>7. QED BY <1>1, <1>4, <1>5, <1>6, Unchanged DEF ServerInv

LEMMA SendInv ==
  ASSUME ServerInv, Sent \/ SendFails
  PROVE  ServerInv'
  <1>1. pc = "sending" /\ sends # <<>> /\ Serving BY DEF Sent, SendFails, Serving
  <1>2. CASE SendNext BY <1>1, <1>2, SendNextInv
  <1>3. CASE Disconnected(current, "batch")
    <2>1. current \in Fds /\ batch # <<>> /\ Head(batch).fd = current BY <1>1, ServingFacts
    <2>2. QED BY <1>1, <1>3, <2>1, DisconnectedInv
  <1>4. QED BY <1>2, <1>3 DEF Sent, SendFails

LEMMA BrokenPipeInv ==
  ASSUME ServerInv, BrokenPipe
  PROVE  ServerInv'
  <1>1. /\ pc \in {"sending", "handshake"} /\ pc' = "killed"
        /\ UNCHANGED <<backlog, phase, sent, hup, full, stalls, ready, stranded>>
        /\ UNCHANGED <<fds, read, batch, current, todo, sends, subs, handled, cut, left, signal, interrupted>>
    BY DEF BrokenPipe, kernelVars
  <1>2. Types /\ ReadyOK /\ ReadOK /\ HandledOK BY DEF ServerInv
  <1>3. ~Serving' /\ ~Welcoming' /\ ~Running' BY <1>1 DEF Serving, Welcoming, Running
  <1>4. Types' BY <1>1, <1>2 DEF Types, Places
  <1>5. ReadyOK' BY <1>1, <1>2 DEF ReadyOK
  <1>6. PlaceOK' BY <1>1, <1>3 DEF PlaceOK
  <1>7. DebtOK' BY <1>3 DEF DebtOK
  <1>8. ReadOK' BY <1>1, <1>2, <1>3 DEF ReadOK, Fresh
  <1>9. HandledOK' BY <1>1, <1>2, <1>3 DEF HandledOK, InRead
  <1>10. QED BY <1>1, <1>4, <1>5, <1>6, <1>7, <1>8, <1>9, Unchanged DEF ServerInv

-----------------------------------------------------------------------------
(* The theorems.                                                           *)

LEMMA ServerStutter == ServerInv /\ UNCHANGED serverVars => ServerInv'
  <1> SUFFICES ASSUME ServerInv, UNCHANGED serverVars PROVE ServerInv' OBVIOUS
  <1>1. /\ UNCHANGED <<backlog, phase, sent, hup, full, stalls, ready, stranded>>
        /\ UNCHANGED <<fds, read, batch, pc, current, todo, sends, subs, handled, cut, left>>
        /\ UNCHANGED <<signal, interrupted>>
    BY DEF serverVars, kernelVars, loopVars
  <1>2. Types' BY <1>1 DEF ServerInv, Types
  <1>3. QED BY <1>1, <1>2, Unchanged DEF ServerInv

\* ServerInv is inductive: it holds at the start of the loop and survives
\* every step of the loop, of a client and of the signal handler.
THEOREM ServerInvariant == ServerSpec => []ServerInv
  <1>1. ServerInit => ServerInv BY ServerInitInv
  <1>2. ASSUME ServerInv, ServerStep PROVE ServerInv'
    BY <1>2, FinalizeInv, EpollWaitInv, AcceptInv, AcceptFailsInv, AcceptRefusedInv, EpollAddInv,
       HandshakeFailsInv, HandshakeReadInv, ClosingInv, RecvInv, ReadDoneInv, OpcodeInv, FrameDoneInv, SendInv, BrokenPipeInv
       DEF ServerStep
  <1>3. ASSUME ServerInv, ClientStep PROVE ServerInv'
    BY <1>3, ConnectInv, WriteInv, HangUpInv, StallInv DEF ClientStep
  <1>4. ServerInv /\ [ServerNext]_serverVars => ServerInv'
    BY <1>2, <1>3, SignalInv, ServerStutter DEF ServerNext
  <1>5. QED BY <1>1, <1>4, PTL DEF ServerSpec

\* In every state of the loop a connection is open exactly when it has a
\* descriptor and waits for accept exactly when it is in the backlog, no more
\* is read of it than it has sent, and each place of the loop has the
\* connection it handles.
THEOREM ServerTypes == ServerSpec => []ServerTypeOK
  <1>1. ServerInv => ServerTypeOK
    <2> SUFFICES ASSUME ServerInv PROVE ServerTypeOK OBVIOUS
    <2>1. Types /\ QueueOK /\ OpenOK /\ PlaceOK /\ ReadOK BY DEF ServerInv
    <2>2. ToSet(backlog) = {c \in Conns : phase[c] = "queued"}
      BY <2>1, ElementFacts DEF Types, QueueOK
    <2>3. \A c \in Conns : /\ phase[c] \in {"idle", "queued", "open", "gone"}
                           /\ (phase[c] = "open") = (\E fd \in Fds : fds[fd] = c)
                           /\ read[c] \in 0 .. sent[c]
      <3> SUFFICES ASSUME NEW c \in Conns
                   PROVE  /\ phase[c] \in {"idle", "queued", "open", "gone"}
                          /\ (phase[c] = "open") = (\E fd \in Fds : fds[fd] = c)
                          /\ read[c] \in 0 .. sent[c]
        OBVIOUS
      <3>1. phase[c] \in {"idle", "queued", "open", "gone"} /\ read[c] \in Nat /\ sent[c] \in Nat
        BY <2>1 DEF Types
      <3>2. phase[c] = "open" <=> \E fd \in Fds : fds[fd] = c BY <2>1 DEF OpenOK
      <3>3. read[c] <= sent[c] BY <2>1 DEF ReadOK
      <3>4. (phase[c] = "open") = (\E fd \in Fds : fds[fd] = c) BY <3>2
      <3>5. read[c] \in 0 .. sent[c] BY <3>1, <3>3
      <3>6. QED BY <3>1, <3>4, <3>5
    <2>4. /\ pc \in Places /\ current \in Fds \cup {NoFd}
          /\ (pc \in {"accepted", "handshake", "frames"} => current # NoFd)
      BY <2>1 DEF Types, PlaceOK, Welcoming, Serving
    <2>5. ToSet(ready) \subseteq {Listening} \cup Conns BY <2>1, ElementFacts DEF Types
    <2>6. hup \cup full \cup cut \cup left \subseteq Conns /\ {signal, interrupted} \subseteq BOOLEAN
      BY <2>1 DEF Types
    <2>7. QED BY <2>2, <2>3, <2>4, <2>5, <2>6 DEF ServerTypeOK, Places
  <1>2. QED BY <1>1, ServerInvariant, PTL

\* Descriptors are given out again as soon as a connection is closed, yet the
\* subscriptions, the events of the batch that are left and the messages that
\* are left always name the connection that has the descriptor now.
THEOREM DescriptorTheorem == ServerSpec => []DescriptorsCurrent
  <1>1. ServerInv => DescriptorsCurrent
    BY DEF ServerInv, SubsCurrent, SendsCurrent, BatchCurrent, DescriptorsCurrent
  <1>2. QED BY <1>1, ServerInvariant, PTL

\* The connections that wait for accept are one for the event that is under
\* way, one for each that came while an event was pending, and one for each
\* event on which accept failed: the loop, which accepts one connection per
\* event, is never further behind.
THEOREM AcceptDebtTheorem == ServerSpec => []AcceptDebt
  <1>1. ServerInv => AcceptDebt
    <2> DEFINE L == {Listening} \cap ToSet(ready)
               E == {i \in DOMAIN batch : batch[i].fd = NoFd
                                            /\ ~(i = 1 /\ pc \in {"accepted", "handshake"})}
    <2> SUFFICES ASSUME ServerInv, ~signal, Running
                 PROVE  Len(backlog) = stranded + Cardinality(L) + Cardinality(E)
      BY DEF AcceptDebt
    <2>1. Types /\ BatchOK /\ DebtOK BY DEF ServerInv
    <2>2. Len(backlog) = stranded + (One(Listening \in ToSet(ready)) + One(Pending)) BY <2>1 DEF DebtOK
    <2>3. Cardinality(L) = One(Listening \in ToSet(ready))
      <3>1. CASE Listening \in ToSet(ready)
        <4>1. L = {Listening} BY <3>1
        <4>2. QED BY <3>1, <4>1, FS_Singleton DEF One
      <3>2. CASE Listening \notin ToSet(ready)
        <4>1. L = {} BY <3>2
        <4>2. QED BY <3>2, <4>1, FS_EmptySet DEF One
      <3>3. QED BY <3>1, <3>2
    <2>4. E = {i \in 1 .. Len(batch) : batch[i].fd = NoFd /\ ~(i = 1 /\ Welcoming)}
      BY <2>1, ElementFacts DEF Types, Welcoming
    <2> HIDE DEF L, E
    <2>5. Cardinality(E) = One(Pending)
      <3>1. CASE Pending
        <4>1. PICK i \in 1 .. Len(batch) : batch[i].fd = NoFd /\ ~(i = 1 /\ Welcoming)
          BY <3>1 DEF Pending
        <4>2. \A j \in 1 .. Len(batch) : batch[j].fd = NoFd => j = i BY <2>1, <4>1 DEF BatchOK
        <4>3. E = {i} BY <2>4, <4>1, <4>2
        <4>4. QED BY <3>1, <4>3, FS_Singleton DEF One
      <3>2. CASE ~Pending
        <4>1. E = {} BY <2>4, <3>2 DEF Pending
        <4>2. QED BY <3>2, <4>1, FS_EmptySet DEF One
      <3>3. QED BY <3>1, <3>2
    <2>6. stranded \in Nat BY <2>1 DEF Types
    <2>7. One(Listening \in ToSet(ready)) \in Nat /\ One(Pending) \in Nat BY DEF One
    <2>8. QED BY <2>2, <2>3, <2>5, <2>6, <2>7
  <1>2. QED BY <1>1, ServerInvariant, PTL

\* The frames of a client reach the handlers in their order and none twice,
\* whatever the reads were; as long as every read ended with a frame, every
\* frame that has been read is handled or is about to be.
THEOREM InOrderTheorem == ServerSpec => []InOrder
  <1>1. ServerInv => InOrder BY DEF ServerInv
  <1>2. QED BY <1>1, ServerInvariant, PTL
=============================================================================
