--------------------------- MODULE ServiceProofs ---------------------------
(***************************************************************************)
(* What the two services rest on, for every number of servers, clerks and  *)
(* operations: an operation has one name, a clerk's operations enter the   *)
(* log in the order in which it makes them, and so a table of the last     *)
(* reqId of every clerk tells exactly the operations that are new.         *)
(***************************************************************************)
EXTENDS Service, WellFoundedInduction, NaturalsInduction, TLAPS

-----------------------------------------------------------------------------
(* Induction, in the form the provers can use: over a set of numbers. *)

\* Every set of numbers that is not empty has a least one.
LEMMA LeastNat ==
  ASSUME NEW T, T \subseteq Nat, T # {}
  PROVE  \E x \in T : \A y \in T : x <= y
<1> DEFINE R == {p \in Nat \X Nat : p[1] < p[2]}
<1>1. IsWellFoundedOn(R, Nat)
  BY NatLessThanWellFounded DEF OpToRel
<1>2. \A x, y \in Nat : y < x => <<y, x>> \in R
  OBVIOUS
<1> HIDE DEF R
<1>3. PICK x \in T : \A y \in T : <<y, x>> \notin R
  BY <1>1, WFMin
<1>4. ASSUME NEW y \in T PROVE x <= y
  <2>1. x \in Nat /\ y \in Nat
    OBVIOUS
  <2>2. ~(y < x)
    BY <1>2, <1>3, <2>1
  <2> QED BY <2>1, <2>2
<1> QED BY <1>4

\* Induction for a set of numbers, from the least number outside it.
LEMMA SetInduction ==
  ASSUME NEW T, 0 \in T, \A n \in Nat : n \in T => n + 1 \in T
  PROVE  \A n \in Nat : n \in T
<1> SUFFICES ASSUME Nat \ T # {} PROVE FALSE
  OBVIOUS
<1>1. PICK x \in Nat \ T : \A y \in Nat \ T : x <= y
  BY LeastNat, Nat \ T \subseteq Nat
<1>2. x # 0 /\ x - 1 \in Nat
  BY <1>1
<1>3. x - 1 \in T
  BY <1>1, <1>2
<1> QED BY <1>1, <1>2, <1>3, (x - 1) + 1 = x

-----------------------------------------------------------------------------
(* What the log means. *)

\* Effective for any sequence s.
EffectiveOf(s, n, read) ==
    LET upTo[k \in 0..n] ==
            IF k = 0 THEN <<>>
            ELSE IF s[k].type = read \/ s[k] \in Range(upTo[k - 1]) THEN upTo[k - 1]
            ELSE Append(upTo[k - 1], s[k])
    IN  upTo[n]

\* Effective is a function of the log, the same before and after a step.
LEMMA EffectiveIs ==
  ASSUME NEW n, NEW read
  PROVE  /\ Effective(n, read) = EffectiveOf(log, n, read)
         /\ Effective(n, read)' = EffectiveOf(log', n, read)
  BY DEF Effective, EffectiveOf

\* One entry more.
With(es, x, read) == IF x.type = read \/ x \in Range(es) THEN es ELSE Append(es, x)

IsUpTo(g, s, n, read) ==
    g = [k \in 0..n |-> IF k = 0 THEN <<>> ELSE With(g[k - 1], s[k], read)]

\* The equations of a table of the first occurrences in each prefix of a log.
LEMMA UpToAt ==
  ASSUME NEW s, NEW read, NEW n \in Nat, NEW g, IsUpTo(g, s, n, read)
  PROVE  /\ g[0] = <<>>
         /\ \A k \in 1..n : g[k] = With(g[k - 1], s[k], read)
<1> DEFINE Body(k) == IF k = 0 THEN <<>> ELSE With(g[k - 1], s[k], read)
<1>1. g = [k \in 0..n |-> Body(k)]
  BY DEF IsUpTo
<1>2. \A k \in 0..n : g[k] = Body(k)
  <2> HIDE DEF Body
  <2> QED BY <1>1
<1> QED BY <1>2

\* Two such tables agree as far as both go (induction on the prefix).
LEMMA UpToUnique ==
  ASSUME NEW s, NEW read, NEW n \in Nat, NEW m \in Nat, NEW g, NEW h,
         IsUpTo(g, s, n, read), IsUpTo(h, s, m, read)
  PROVE  \A k \in Nat : k <= n /\ k <= m => g[k] = h[k]
<1>g. g[0] = <<>> /\ \A j \in 1..n : g[j] = With(g[j - 1], s[j], read)
  BY UpToAt, ZenonT(60)
<1>h. h[0] = <<>> /\ \A j \in 1..m : h[j] = With(h[j - 1], s[j], read)
  BY UpToAt, ZenonT(60)
<1> DEFINE T == {k \in Nat : k <= n /\ k <= m => g[k] = h[k]}
<1>1. 0 \in T
  BY <1>g, <1>h
<1>2. ASSUME NEW k \in Nat, k \in T PROVE k + 1 \in T
  <2>1. SUFFICES ASSUME k + 1 <= n, k + 1 <= m PROVE g[k + 1] = h[k + 1]
    OBVIOUS
  <2>2. g[k] = h[k]
    BY <1>2, <2>1
  <2>3. k + 1 \in 1..n /\ k + 1 \in 1..m /\ (k + 1) - 1 = k
    BY <2>1
  <2>4. g[k + 1] = With(g[(k + 1) - 1], s[k + 1], read)
    BY <2>3, <1>g
  <2>5. h[k + 1] = With(h[(k + 1) - 1], s[k + 1], read)
    BY <2>3, <1>h
  <2> QED BY <2>2, <2>3, <2>4, <2>5
<1>3. \A k \in Nat : k \in T
  <2> HIDE DEF T
  <2> QED BY <1>1, <1>2, SetInduction
<1> QED BY <1>3

\* There is such a table for every prefix, which is what a recursive definition needs.
LEMMA UpToExists ==
  ASSUME NEW s, NEW read
  PROVE  \A n \in Nat : \E g : IsUpTo(g, s, n, read)
<1> DEFINE T == {n \in Nat : \E g : IsUpTo(g, s, n, read)}
<1>1. 0 \in T
  <2>1. IsUpTo([k \in 0..0 |-> <<>>], s, 0, read)
    BY DEF IsUpTo
  <2> QED BY <2>1
<1>2. ASSUME NEW n \in Nat, n \in T PROVE n + 1 \in T
  <2>1. PICK g : IsUpTo(g, s, n, read)
    BY <1>2
  <2> DEFINE h == [k \in 0..(n + 1) |->
                     IF k = 0 THEN <<>> ELSE With(g[k - 1], s[k], read)]
  <2>2. \A k \in 0..n : h[k] = g[k]
    <3>1. \A k \in 1..n : g[k] = With(g[k - 1], s[k], read)
      BY <2>1, UpToAt
    <3>2. g[0] = <<>>
      BY <2>1, UpToAt
    <3>3. h[0] = <<>>
      <4>1. 0 \in 0..(n + 1)
        OBVIOUS
      <4> QED BY <4>1
    <3>4. \A k \in 1..n : h[k] = With(g[k - 1], s[k], read)
      OBVIOUS
    <3> HIDE DEF h
    <3>5. \A k \in 1..n : h[k] = g[k]
      BY <3>1, <3>4
    <3>6. \A k \in 0..n : k = 0 \/ k \in 1..n
      OBVIOUS
    <3> QED BY <3>2, <3>3, <3>5, <3>6
  <2>3. \A k \in 0..(n + 1) : k # 0 => k - 1 \in 0..n
    OBVIOUS
  <2>4. h = [k \in 0..(n + 1) |-> IF k = 0 THEN <<>> ELSE With(h[k - 1], s[k], read)]
    <3>1. \A k \in 0..(n + 1) : k # 0 => h[k - 1] = g[k - 1]
      BY <2>2, <2>3
    <3> QED BY <3>1
  <2>5. IsUpTo(h, s, n + 1, read)
    BY <2>4 DEF IsUpTo
  <2> QED BY <2>5
<1>3. \A n \in Nat : n \in T
  <2> HIDE DEF T
  <2> QED BY <1>1, <1>2, SetInduction
<1> QED BY <1>3

\* EffectiveOf is the last entry of such a table.
LEMMA EffectiveAt ==
  ASSUME NEW s, NEW read, NEW n \in Nat
  PROVE  \E g : IsUpTo(g, s, n, read) /\ EffectiveOf(s, n, read) = g[n]
<1> DEFINE G == CHOOSE g : IsUpTo(g, s, n, read)
<1>1. EffectiveOf(s, n, read) = G[n]
  BY DEF EffectiveOf, IsUpTo, With
<1>2. IsUpTo(G, s, n, read)
  BY UpToExists
<1> QED BY <1>1, <1>2

\* The recursion of Effective, one entry at a time.
LEMMA EffectiveSteps ==
  ASSUME NEW s, NEW read
  PROVE  /\ EffectiveOf(s, 0, read) = <<>>
         /\ \A n \in Nat : EffectiveOf(s, n + 1, read)
                             = With(EffectiveOf(s, n, read), s[n + 1], read)
<1>1. EffectiveOf(s, 0, read) = <<>>
  <2>1. PICK g : IsUpTo(g, s, 0, read) /\ EffectiveOf(s, 0, read) = g[0]
    BY EffectiveAt
  <2>2. g[0] = <<>>
    BY <2>1, UpToAt
  <2> QED BY <2>1, <2>2
<1>2. ASSUME NEW n \in Nat
      PROVE  EffectiveOf(s, n + 1, read) = With(EffectiveOf(s, n, read), s[n + 1], read)
  <2>1. PICK g : IsUpTo(g, s, n, read) /\ EffectiveOf(s, n, read) = g[n]
    BY EffectiveAt
  <2>2. PICK h : IsUpTo(h, s, n + 1, read) /\ EffectiveOf(s, n + 1, read) = h[n + 1]
    BY EffectiveAt
  <2>3. g[n] = h[n]
    BY <2>1, <2>2, UpToUnique
  <2>4. n + 1 \in Nat /\ n + 1 \in 1..(n + 1) /\ (n + 1) - 1 = n
    OBVIOUS
  <2>5. h[n + 1] = With(h[(n + 1) - 1], s[n + 1], read)
    <3>1. PICK m \in Nat : m = n + 1
      BY <2>4
    <3>2. IsUpTo(h, s, m, read)
      BY <2>2, <3>1
    <3>3. \A k \in 1..m : h[k] = With(h[k - 1], s[k], read)
      BY <3>2, UpToAt
    <3>4. m \in 1..m
      BY <2>4, <3>1
    <3>5. h[m] = With(h[m - 1], s[m], read)
      BY <3>3, <3>4
    <3> QED BY <3>1, <3>5
  <2> QED BY <2>1, <2>2, <2>3, <2>4, <2>5
<1> QED BY <1>1, <1>2

\* It depends on the first n entries only.
LEMMA EffectiveSame ==
  ASSUME NEW s, NEW t, NEW read, NEW n \in Nat, \A k \in 1..n : s[k] = t[k]
  PROVE  EffectiveOf(s, n, read) = EffectiveOf(t, n, read)
<1> DEFINE T == {k \in Nat : k <= n => EffectiveOf(s, k, read) = EffectiveOf(t, k, read)}
<1>1. 0 \in T
  <2>1. EffectiveOf(s, 0, read) = EffectiveOf(t, 0, read)
    BY EffectiveSteps
  <2> QED BY <2>1
<1>2. ASSUME NEW k \in Nat, k \in T PROVE k + 1 \in T
  <2>1. SUFFICES ASSUME k + 1 <= n
                 PROVE  EffectiveOf(s, k + 1, read) = EffectiveOf(t, k + 1, read)
    OBVIOUS
  <2>2. EffectiveOf(s, k, read) = EffectiveOf(t, k, read) /\ s[k + 1] = t[k + 1]
    BY <1>2, <2>1
  <2>3. EffectiveOf(s, k + 1, read) = With(EffectiveOf(s, k, read), s[k + 1], read)
    BY EffectiveSteps
  <2>4. EffectiveOf(t, k + 1, read) = With(EffectiveOf(t, k, read), t[k + 1], read)
    BY EffectiveSteps
  <2> QED BY <2>2, <2>3, <2>4
<1>3. \A k \in Nat : k \in T
  <2> HIDE DEF T
  <2> QED BY <1>1, <1>2, SetInduction
<1> QED BY <1>3

\* It is a sequence of operations: the ones of the log that are no reads.
LEMMA EffectiveRange ==
  ASSUME NEW U, NEW s \in Seq(U), NEW read, NEW n \in Nat, n <= Len(s)
  PROVE  /\ EffectiveOf(s, n, read) \in Seq(U)
         /\ \A x : x \in Range(EffectiveOf(s, n, read))
                     <=> \E k \in 1..n : s[k] = x /\ s[k].type # read
<1> DEFINE E(k) == EffectiveOf(s, k, read)
           T == {k \in Nat : k <= n =>
                    /\ E(k) \in Seq(U)
                    /\ \A x : x \in Range(E(k)) <=> \E m \in 1..k : s[m] = x /\ s[m].type # read}
<1>1. 0 \in T
  <2>1. E(0) = <<>>
    BY EffectiveSteps
  <2>2. E(0) \in Seq(U) /\ Range(E(0)) = {}
    <3> HIDE DEF E
    <3>1. DOMAIN <<>> = {}
      OBVIOUS
    <3>2. E(0) \in Seq(U)
      <4>1. <<>> \in Seq(U)
        OBVIOUS
      <4> QED BY <2>1, <4>1, Zenon
    <3>3. Range(E(0)) = {}
      BY <2>1, <3>1, Zenon DEF Range
    <3> QED BY <3>2, <3>3
  <2>3. ~\E m \in 1..0 : TRUE
    OBVIOUS
  <2> QED BY <2>2, <2>3
<1>2. ASSUME NEW k \in Nat, k \in T PROVE k + 1 \in T
  <2>1. SUFFICES ASSUME k + 1 <= n
                 PROVE  /\ E(k + 1) \in Seq(U)
                        /\ \A x : x \in Range(E(k + 1))
                                    <=> \E m \in 1..(k + 1) : s[m] = x /\ s[m].type # read
    OBVIOUS
  <2>2. /\ E(k) \in Seq(U)
        /\ \A x : x \in Range(E(k)) <=> \E m \in 1..k : s[m] = x /\ s[m].type # read
    BY <1>2, <2>1
  <2>3. s[k + 1] \in U
    BY <2>1
  <2>4. E(k + 1) = With(E(k), s[k + 1], read)
    BY EffectiveSteps
  <2>5. \A m : m \in 1..(k + 1) <=> m \in 1..k \/ m = k + 1
    OBVIOUS
  <2> DEFINE e == E(k)
             y == s[k + 1]
  <2>6. e \in Seq(U) /\ y \in U /\ E(k + 1) = With(e, y, read)
    BY <2>2, <2>3, <2>4
  <2> HIDE DEF E, e, y
  <2>7. CASE y.type = read \/ y \in Range(e)
    <3>1. E(k + 1) = e
      BY <2>6, <2>7 DEF With
    <3> QED BY <2>2, <2>5, <2>7, <3>1 DEF e, y
  <2>8. CASE ~(y.type = read \/ y \in Range(e))
    <3>1. E(k + 1) = Append(e, y)
      BY <2>6, <2>8 DEF With
    <3>2. Append(e, y) \in Seq(U)
      BY <2>6
    <3>3. \A x : x \in Range(Append(e, y)) <=> x \in Range(e) \/ x = y
      <4>1. /\ DOMAIN e = 1..Len(e) /\ Len(e) \in Nat
            /\ DOMAIN Append(e, y) = 1..(Len(e) + 1)
            /\ Append(e, y)[Len(e) + 1] = y
            /\ \A q \in 1..Len(e) : Append(e, y)[q] = e[q]
        BY <2>6
      <4>2. \A q : q \in 1..(Len(e) + 1) <=> q \in 1..Len(e) \/ q = Len(e) + 1
        BY <4>1
      <4> QED BY <4>1, <4>2 DEF Range
    <3> QED BY <2>2, <2>5, <2>8, <3>1, <3>2, <3>3 DEF e, y
  <2> QED BY <2>7, <2>8
<1>3. \A k \in Nat : k \in T
  <2> HIDE DEF T
  <2> QED BY <1>1, <1>2, SetInduction
<1> QED BY <1>3

\* It only grows.
LEMMA EffectivePrefix ==
  ASSUME NEW U, NEW s \in Seq(U), NEW read, NEW m \in Nat, NEW n \in Nat,
         m <= n, n <= Len(s)
  PROVE  /\ Len(EffectiveOf(s, m, read)) <= Len(EffectiveOf(s, n, read))
         /\ SubSeq(EffectiveOf(s, n, read), 1, Len(EffectiveOf(s, m, read)))
              = EffectiveOf(s, m, read)
<1> DEFINE E(k) == EffectiveOf(s, k, read)
           T == {k \in Nat : m + k <= n =>
                    /\ Len(E(m)) <= Len(E(m + k))
                    /\ SubSeq(E(m + k), 1, Len(E(m))) = E(m)}
<1>0. E(m) \in Seq(U)
  BY EffectiveRange
<1>1. 0 \in T
  <2>1. SubSeq(E(m), 1, Len(E(m))) = E(m) /\ Len(E(m)) \in Nat
    <3> HIDE DEF E
    <3> QED BY <1>0
  <2> QED BY <2>1
<1>2. ASSUME NEW k \in Nat, k \in T PROVE k + 1 \in T
  <2>1. SUFFICES ASSUME m + (k + 1) <= n
                 PROVE  /\ Len(E(m)) <= Len(E(m + (k + 1)))
                        /\ SubSeq(E(m + (k + 1)), 1, Len(E(m))) = E(m)
    OBVIOUS
  <2>2. PICK a \in Nat : a = m + k
    OBVIOUS
  <2>3. a <= n /\ m + (k + 1) = a + 1
    BY <2>1, <2>2
  <2>4. Len(E(m)) <= Len(E(a)) /\ SubSeq(E(a), 1, Len(E(m))) = E(m)
    BY <1>2, <2>2, <2>3
  <2>5. E(a + 1) = With(E(a), s[a + 1], read)
    BY EffectiveSteps
  <2>6. E(a) \in Seq(U) /\ s[a + 1] \in U
    <3>1. a <= Len(s) /\ a + 1 \in 1..Len(s)
      BY <2>1, <2>2
    <3>2. E(a) \in Seq(U)
      BY <3>1, EffectiveRange
    <3> QED BY <3>1, <3>2
  <2> DEFINE e == E(a)
             d == E(m)
             y == s[a + 1]
  <2>7. /\ e \in Seq(U) /\ d \in Seq(U) /\ y \in U
        /\ Len(d) <= Len(e) /\ SubSeq(e, 1, Len(d)) = d
        /\ E(a + 1) = e \/ E(a + 1) = Append(e, y)
    BY <1>0, <2>4, <2>5, <2>6 DEF With
  <2> HIDE DEF E, e, d, y
  <2>8. Len(d) <= Len(E(a + 1)) /\ SubSeq(E(a + 1), 1, Len(d)) = d
    <3>1. CASE E(a + 1) = e
      BY <2>7, <3>1
    <3>2. CASE E(a + 1) = Append(e, y)
      <4>1. /\ Len(Append(e, y)) = Len(e) + 1 /\ Len(e) \in Nat /\ Len(d) \in Nat
            /\ Append(e, y) \in Seq(U)
        BY <2>7
      <4>2. SubSeq(Append(e, y), 1, Len(d)) = SubSeq(e, 1, Len(d))
        <5>1. \A q \in 1..Len(d) : Append(e, y)[q] = e[q]
          BY <2>7, <4>1
        <5> QED BY <2>7, <4>1, <5>1
      <4>3. Len(d) <= Len(e) /\ SubSeq(e, 1, Len(d)) = d
        BY <2>7
      <4>4. Len(d) <= Len(e) + 1
        BY <4>1, <4>3
      <4> QED BY <3>2, <4>1, <4>2, <4>3, <4>4
    <3> QED BY <2>7, <3>1, <3>2
  <2> QED BY <2>3, <2>8 DEF d
<1>3. \A k \in Nat : k \in T
  <2> HIDE DEF T
  <2> QED BY <1>1, <1>2, SetInduction
<1>4. n - m \in Nat /\ m + (n - m) = n
  OBVIOUS
<1>5. n - m \in T
  <2> HIDE DEF T
  <2> QED BY <1>3, <1>4
<1> QED BY <1>4, <1>5

\* Between two indices that mean the same nothing happens.
LEMMA EffectiveBetween ==
  ASSUME NEW U, NEW s \in Seq(U), NEW read,
         NEW a \in Nat, NEW b \in Nat, NEW c \in Nat, a <= b, b <= c, c <= Len(s),
         EffectiveOf(s, a, read) = EffectiveOf(s, c, read)
  PROVE  EffectiveOf(s, b, read) = EffectiveOf(s, a, read)
<1> DEFINE E(k) == EffectiveOf(s, k, read)
<1>1. E(a) \in Seq(U) /\ E(b) \in Seq(U) /\ E(c) \in Seq(U)
  BY EffectiveRange
<1>2. /\ Len(E(a)) <= Len(E(b)) /\ Len(E(b)) <= Len(E(c))
      /\ SubSeq(E(b), 1, Len(E(a))) = E(a) /\ E(a) = E(c)
  BY EffectivePrefix
<1> HIDE DEF E
<1>3. Len(E(b)) = Len(E(a))
  BY <1>1, <1>2
<1>4. SubSeq(E(b), 1, Len(E(b))) = E(b)
  BY <1>1
<1>5. E(b) = E(a)
  BY <1>2, <1>3, <1>4
<1> QED BY <1>5 DEF E

-----------------------------------------------------------------------------
(* Names.  O is the set of operations of a service. *)

OpSet(O) ==
    /\ \A x \in O : x.me \in Client /\ x.reqId \in Nat /\ x.reqId > 0
    /\ NoOp \notin O
    /\ NoOp \notin [op : O, born : Nat, taken : BOOLEAN]

HandlerFields == {"handler", "srv", "op", "idx", "stage", "ch"}

ServiceType(O) ==
    /\ log \in Seq(O)
    /\ \A p \in proposed : p.op \in O
    /\ id \in [Client -> Nat]
    /\ pending \in [Client -> O \cup {NoOp}]
    /\ born \in [Client -> Nat]
    /\ DOMAIN answer = Client
    /\ \A h \in handlers : DOMAIN h = HandlerFields /\ h.op \in O

\* An operation is somewhere in the system.
Used(x) ==
    \/ \E c \in Client : pending[c] = x
    \/ \E n \in 1..Len(log) : log[n] = x
    \/ \E p \in proposed : p.op = x
    \/ \E h \in handlers : h.op = x

SameName(x, y) == x.me = y.me /\ x.reqId = y.reqId

\* A clerk and its counter name one operation.
Names(O) ==
    /\ \A x \in O : Used(x) => x.reqId <= id[x.me]
    /\ \A x, y \in O : Used(x) /\ Used(y) /\ SameName(x, y) => x = y

Logged(c, r) == \E n \in 1..Len(log) : log[n].me = c /\ log[n].reqId = r

\* A clerk's operation enters the log only after it began, and all the earlier
\* ones are there.
Clerks ==
    \A c \in Client :
        /\ pending[c] # NoOp =>
              /\ pending[c].me = c /\ pending[c].reqId = id[c]
              /\ born[c] <= Len(log)
              /\ \A n \in 1..Len(log) : log[n] = pending[c] => n > born[c]
        /\ \A r \in 1..id[c] : (r = id[c] => pending[c] = NoOp) => Logged(c, r)

\* The operations of a clerk are first committed in the order of their numbers.
InTurn ==
    \A n \in 1..Len(log) : \A r \in 1..(log[n].reqId - 1) :
        \E m \in 1..(n - 1) : log[m].me = log[n].me /\ log[m].reqId = r

\* What is in a handler's channel is the name of an entry of the log.
Channels ==
    \A h \in handlers : h.ch # NoOp => \E n \in 1..Len(log) : SameName(h.ch, log[n])

ServiceInv(O) == ServiceType(O) /\ Names(O) /\ Clerks /\ InTurn /\ Channels

\* The invariant of the shared part holds initially.
LEMMA InitServiceInv ==
  ASSUME NEW O, OpSet(O), InitService
  PROVE  ServiceInv(O)
<1>1. ServiceType(O)
  BY DEF InitService, ServiceType
<1>2. Len(log) = 0 /\ 1..Len(log) = {}
  BY DEF InitService
<1>3. ~\E x \in O : Used(x)
  BY <1>2 DEF InitService, Used, OpSet
<1>4. \A c \in Client : pending[c] = NoOp /\ 1..id[c] = {}
  BY DEF InitService
<1>5. Clerks /\ InTurn /\ Channels
  BY <1>2, <1>4 DEF InitService, Clerks, InTurn, Channels
<1> QED BY <1>1, <1>3, <1>5 DEF ServiceInv, Names

\* A step that leaves the log and the clerks alone.
LEMMA QuietStep ==
  ASSUME NEW O, OpSet(O), ServiceInv(O),
         UNCHANGED <<log, id, pending, born>>, DOMAIN answer' = Client,
         \A p \in proposed' : p.op \in O /\ Used(p.op),
         \A h \in handlers' :
             /\ DOMAIN h = HandlerFields /\ h.op \in O /\ Used(h.op)
             /\ h.ch # NoOp => \E n \in 1..Len(log) : SameName(h.ch, log[n])
  PROVE  ServiceInv(O)'
<1>1. ServiceType(O)'
  BY DEF ServiceInv, ServiceType
<1>2. ASSUME NEW x, Used(x)' PROVE Used(x)
  BY <1>2 DEF Used
<1>3. Names(O)'
  BY <1>2 DEF ServiceInv, Names
<1>4. Clerks' /\ InTurn' /\ Channels'
  BY DEF ServiceInv, Clerks, InTurn, Channels, Logged
<1> QED BY <1>1, <1>3, <1>4 DEF ServiceInv

\* A clerk's request keeps it: the name it gives is a new one.
LEMMA RequestStep ==
  ASSUME NEW O, OpSet(O), ServiceInv(O), NEW c \in Client, NEW op, NEW value,
         Request(c, op, value), Named(op, c, id[c] + 1, value) \in O
  PROVE  ServiceInv(O)'
<1> DEFINE new == Named(op, c, id[c] + 1, value)
<1>1. /\ new \in O /\ new.me = c /\ new.reqId = id[c] + 1
      /\ id' = [id EXCEPT ![c] = @ + 1] /\ pending' = [pending EXCEPT ![c] = new]
      /\ born' = [born EXCEPT ![c] = Len(log)]
      /\ UNCHANGED <<log, proposed, answer, handlers>> /\ pending[c] = NoOp
  BY DEF Request, raftVars, Named
<1> HIDE DEF new
<1>t. /\ log \in Seq(O) /\ id \in [Client -> Nat] /\ pending \in [Client -> O \cup {NoOp}]
      /\ born \in [Client -> Nat] /\ Len(log) \in Nat
  BY DEF ServiceInv, ServiceType
<1>2. ServiceType(O)'
  BY <1>1, <1>t DEF ServiceInv, ServiceType
<1>3. /\ \A d \in Client : pending'[d] = IF d = c THEN new ELSE pending[d]
      /\ \A d \in Client : id'[d] = IF d = c THEN id[c] + 1 ELSE id[d]
      /\ \A d \in Client : born'[d] = IF d = c THEN Len(log) ELSE born[d]
  BY <1>1, <1>t
<1>4. ASSUME NEW x \in O, Used(x)' PROVE Used(x) \/ x = new
  BY <1>1, <1>3, <1>4 DEF Used
<1>5. ASSUME NEW x \in O, Used(x) PROVE x.reqId <= id[x.me] /\ x.me \in Client /\ x.reqId \in Nat
  BY <1>5 DEF ServiceInv, Names, OpSet
<1>6. Names(O)'
  <2>1. ASSUME NEW x \in O, Used(x)' PROVE x.reqId <= id'[x.me]
    <3>1. CASE x = new
      <4>1. id'[c] = id[c] + 1 /\ id[c] \in Nat
        BY <1>3, <1>t
      <4> QED BY <3>1, <4>1, <1>1
    <3>2. CASE Used(x)
      <4>1. x.reqId <= id[x.me] /\ x.me \in Client /\ x.reqId \in Nat
        BY <3>2, <1>5
      <4>2. \A d \in Client : id[d] \in Nat /\ id'[d] \in Nat /\ id[d] <= id'[d]
        BY <1>3, <1>t
      <4>3. PICK i \in Nat, j \in Nat : i = id[x.me] /\ j = id'[x.me] /\ i <= j
        BY <4>1, <4>2
      <4> QED BY <4>1, <4>3
    <3> QED BY <2>1, <3>1, <3>2, <1>4
  <2>2. ASSUME NEW x \in O, Used(x) PROVE ~SameName(x, new)
    BY <2>2, <1>1, <1>5, <1>t DEF SameName
  <2>3. ASSUME NEW x \in O, NEW y \in O, Used(x)', Used(y)', SameName(x, y) PROVE x = y
    <3>1. Used(x) \/ x = new
      BY <2>3, <1>4
    <3>2. Used(y) \/ y = new
      BY <2>3, <1>4
    <3>3. \A z \in O : SameName(new, z) => SameName(z, new)
      BY DEF SameName
    <3> QED BY <2>2, <2>3, <3>1, <3>2, <3>3 DEF ServiceInv, Names
  <2> QED BY <2>1, <2>3 DEF Names
<1>7. Clerks'
  <2>1. ASSUME NEW n \in 1..Len(log) PROVE log[n] # new
    <3>1. log[n] \in O /\ Used(log[n])
      BY <1>t DEF Used
    <3> QED BY <3>1, <1>5, <1>1, <1>t
  <2>2. ASSUME NEW r \in 1..id'[c], r # id'[c] PROVE Logged(c, r)
    <3>1. r \in 1..id[c] /\ pending[c] = NoOp
      BY <2>2, <1>1, <1>3, <1>t
    <3> QED BY <3>1 DEF ServiceInv, Clerks
  <2>3. new # NoOp
    BY <1>1 DEF OpSet
  <2>4. ASSUME NEW d \in Client
        PROVE  /\ pending'[d] # NoOp =>
                    /\ pending'[d].me = d /\ pending'[d].reqId = id'[d]
                    /\ born'[d] <= Len(log)
                    /\ \A n \in 1..Len(log) : log[n] = pending'[d] => n > born'[d]
               /\ \A r \in 1..id'[d] : (r = id'[d] => pending'[d] = NoOp) => Logged(d, r)
    <3>1. CASE d = c
      BY <3>1, <1>1, <1>3, <1>t, <2>1, <2>2, <2>3
    <3>2. CASE d # c
      <4>1. pending'[d] = pending[d] /\ id'[d] = id[d] /\ born'[d] = born[d]
        BY <3>2, <1>3
      <4> QED BY <4>1 DEF ServiceInv, Clerks
    <3> QED BY <3>1, <3>2
  <2> QED BY <2>4, <1>1 DEF Clerks, Logged
<1>8. InTurn' /\ Channels'
  <2>1. InTurn'
    BY <1>1 DEF ServiceInv, InTurn
  <2>2. Channels'
    BY <1>1 DEF ServiceInv, Channels
  <2> QED BY <2>1, <2>2
<1> QED BY <1>2, <1>6, <1>7, <1>8 DEF ServiceInv

\* The next entry: one that was proposed.
LEMMA CommitStep ==
  ASSUME NEW O, OpSet(O), ServiceInv(O), Commit
  PROVE  ServiceInv(O)'
<1>1. PICK p \in proposed : /\ log' = Append(log, p.op)
                            /\ proposed' = {q \in proposed : q.idx > p.idx}
                            /\ UNCHANGED <<id, pending, born, answer, handlers>>
  BY DEF Commit, clerkVars
<1> DEFINE new == p.op
<1>2. new \in O /\ Used(new)
  BY <1>1 DEF ServiceInv, ServiceType, Used
<1> HIDE DEF new
<1>t. /\ log \in Seq(O) /\ id \in [Client -> Nat] /\ pending \in [Client -> O \cup {NoOp}]
      /\ born \in [Client -> Nat] /\ Len(log) \in Nat
  BY DEF ServiceInv, ServiceType
<1>3. /\ log' \in Seq(O) /\ Len(log') = Len(log) + 1 /\ log'[Len(log) + 1] = new
      /\ \A n \in 1..Len(log) : log'[n] = log[n] /\ log[n] \in O
      /\ \A n : n \in 1..Len(log') <=> n \in 1..Len(log) \/ n = Len(log) + 1
  BY <1>1, <1>2, <1>t DEF new
<1>4. ServiceType(O)'
  BY <1>1, <1>3, <1>t DEF ServiceInv, ServiceType
<1>5. ASSUME NEW x, Used(x)' PROVE Used(x)
  BY <1>1, <1>2, <1>3, <1>5 DEF Used
<1>6. Names(O)'
  BY <1>1, <1>5 DEF ServiceInv, Names
<1>7. ASSUME NEW c, NEW r, Logged(c, r) PROVE Logged(c, r)'
  BY <1>7, <1>3 DEF Logged
<1>8. Clerks'
  <2>1. ASSUME NEW c \in Client, pending[c] # NoOp
        PROVE  /\ pending[c].me = c /\ pending[c].reqId = id[c]
               /\ born[c] <= Len(log')
               /\ \A n \in 1..Len(log') : log'[n] = pending[c] => n > born[c]
    <3>1. /\ pending[c].me = c /\ pending[c].reqId = id[c]
          /\ born[c] <= Len(log) /\ born[c] \in Nat
          /\ \A n \in 1..Len(log) : log[n] = pending[c] => n > born[c]
      BY <2>1, <1>t DEF ServiceInv, Clerks
    <3>2. ASSUME NEW n \in 1..Len(log'), log'[n] = pending[c] PROVE n > born[c]
      <4>1. CASE n \in 1..Len(log)
        BY <4>1, <3>1, <3>2, <1>3
      <4>2. CASE n = Len(log) + 1
        BY <4>2, <3>1, <1>t
      <4> QED BY <4>1, <4>2, <1>3
    <3>3. born[c] <= Len(log')
      BY <3>1, <1>3, <1>t
    <3> QED BY <3>1, <3>2, <3>3
  <2>2. ASSUME NEW c \in Client, NEW r \in 1..id[c], r = id[c] => pending[c] = NoOp
        PROVE  Logged(c, r)'
    <3>1. Logged(c, r)
      BY <2>2 DEF ServiceInv, Clerks
    <3> QED BY <3>1, <1>7
  <2> QED BY <2>1, <2>2, <1>1 DEF Clerks
<1>9. InTurn'
  <2>1. ASSUME NEW n \in 1..Len(log'), NEW r \in 1..(log'[n].reqId - 1)
        PROVE  \E m \in 1..(n - 1) : log'[m].me = log'[n].me /\ log'[m].reqId = r
    <3>1. CASE n \in 1..Len(log)
      <4>1. log'[n] = log[n]
        BY <3>1, <1>3
      <4>2. PICK m \in 1..(n - 1) : log[m].me = log[n].me /\ log[m].reqId = r
        BY <2>1, <3>1, <4>1 DEF ServiceInv, InTurn
      <4>3. m \in 1..Len(log)
        BY <3>1, <1>t
      <4> QED BY <4>1, <4>2, <4>3, <1>3
    <3>2. CASE n = Len(log) + 1
      <4>1. log'[n] = new /\ n - 1 = Len(log)
        BY <3>2, <1>3, <1>t
      <4>2. new.me \in Client /\ new.reqId \in Nat /\ new.reqId <= id[new.me] /\ id[new.me] \in Nat
        BY <1>2, <1>t DEF ServiceInv, Names, OpSet
      <4>3. r \in 1..id[new.me] /\ r # id[new.me]
        BY <2>1, <4>1, <4>2
      <4>4. Logged(new.me, r)
        BY <4>2, <4>3 DEF ServiceInv, Clerks
      <4> QED BY <4>1, <4>4, <1>3 DEF Logged
    <3> QED BY <3>1, <3>2, <1>3
  <2> QED BY <2>1 DEF InTurn
<1>10. Channels'
  BY <1>1, <1>3 DEF ServiceInv, Channels
<1> QED BY <1>4, <1>6, <1>8, <1>9, <1>10 DEF ServiceInv

\* A handler's Start keeps it.
LEMMA StartStep ==
  ASSUME NEW O, OpSet(O), ServiceInv(O), NEW c \in Client, NEW s, Start(c, s)
  PROVE  ServiceInv(O)'
<1>1. PICK n, idx :
        /\ pending[c] # NoOp
        /\ proposed' = IF idx > Len(log)
                       THEN proposed \cup {[idx |-> idx, op |-> pending[c]]} ELSE proposed
        /\ handlers' = handlers \cup
              {[handler |-> n, srv |-> s, op |-> pending[c], idx |-> idx,
                stage |-> "started", ch |-> NoOp]}
        /\ UNCHANGED <<log, id, pending, answer, born>>
  BY DEF Start
<1>2. pending[c] \in O /\ Used(pending[c])
  BY <1>1 DEF ServiceInv, ServiceType, Used
<1>3. \A p \in proposed' : p.op \in O /\ Used(p.op)
  BY <1>1, <1>2 DEF ServiceInv, ServiceType, Used
<1> DEFINE h0 == [handler |-> n, srv |-> s, op |-> pending[c], idx |-> idx,
                  stage |-> "started", ch |-> NoOp]
<1>4. h0.op = pending[c] /\ h0.ch = NoOp /\ DOMAIN h0 = HandlerFields
  BY DEF HandlerFields
<1>5. \A h \in handlers' : h \in handlers \/ h = h0
  BY <1>1
<1> HIDE DEF h0
<1>6. ASSUME NEW h \in handlers'
      PROVE  /\ DOMAIN h = HandlerFields /\ h.op \in O /\ Used(h.op)
             /\ h.ch # NoOp => \E m \in 1..Len(log) : SameName(h.ch, log[m])
  <2>1. CASE h \in handlers
    BY <2>1 DEF ServiceInv, ServiceType, Channels, Used
  <2>2. CASE h = h0
    BY <2>2, <1>2, <1>4
  <2> QED BY <2>1, <2>2, <1>5
<1>7. UNCHANGED <<log, id, pending, born>> /\ DOMAIN answer' = Client
  BY <1>1 DEF ServiceInv, ServiceType
<1> QED BY <1>3, <1>6, <1>7, QuietStep

\* The handler's clerk, if it still waits, is told that its operation is done.
Answered(h, value) ==
    /\ h \in handlers /\ h.ch # NoOp /\ SameName(h.op, h.ch)
    /\ pending[h.op.me] = h.op
    /\ handlers' = handlers \ {h}
    /\ pending' = [pending EXCEPT ![h.op.me] = NoOp]
    /\ answer' = [answer EXCEPT ![h.op.me] =
                    [op |-> h.op, value |-> value, born |-> born[h.op.me]]]
    /\ UNCHANGED <<log, proposed, id, born>>

\* A handler's steps: it answers its clerk, or the clerk sees nothing.
LEMMA HandlerSteps ==
  ASSUME NEW O, OpSet(O), ServiceInv(O), NEW h \in handlers, NEW same,
         same => SameName(h.op, h.ch),
         Register(h) \/ Applied(h, same) \/ TimedOut(h)
  PROVE  \/ Applied(h, same) /\ Answered(h, h.ch.value)
         \/ ServiceInv(O)' /\ UNCHANGED <<raftVars, clerkVars>>
<1>1. CASE Register(h)
  <2>1. /\ UNCHANGED <<log, proposed, id, pending, born, answer, raftVars, clerkVars>>
        /\ handlers' = (handlers \ {h}) \cup {[h EXCEPT !.stage = "waiting"]}
    BY <1>1 DEF Register, raftVars, clerkVars
  <2> DEFINE g == [h EXCEPT !.stage = "waiting"]
  <2>2. DOMAIN h = HandlerFields /\ h.op \in O
    BY DEF ServiceInv, ServiceType
  <2>3. g.op = h.op /\ g.ch = h.ch /\ DOMAIN g = HandlerFields
    BY <2>2 DEF HandlerFields
  <2>4. \A k \in handlers' : k \in handlers \/ k = g
    BY <2>1
  <2> HIDE DEF g
  <2>5. ASSUME NEW k \in handlers
        PROVE  /\ DOMAIN k = HandlerFields /\ k.op \in O /\ Used(k.op)
               /\ k.ch # NoOp => \E m \in 1..Len(log) : SameName(k.ch, log[m])
    BY DEF ServiceInv, ServiceType, Channels, Used
  <2>6. ASSUME NEW k \in handlers'
        PROVE  /\ DOMAIN k = HandlerFields /\ k.op \in O /\ Used(k.op)
               /\ k.ch # NoOp => \E m \in 1..Len(log) : SameName(k.ch, log[m])
    BY <2>3, <2>4, <2>5
  <2>7. \A p \in proposed' : p.op \in O /\ Used(p.op)
    BY <2>1 DEF ServiceInv, ServiceType, Used
  <2>8. UNCHANGED <<log, id, pending, born>> /\ DOMAIN answer' = Client
    BY <2>1 DEF ServiceInv, ServiceType
  <2> QED BY <2>1, <2>6, <2>7, <2>8, QuietStep
<1>2. ASSUME UNCHANGED <<log, proposed, id, pending, born, answer>>, handlers' = handlers \ {h}
      PROVE  ServiceInv(O)'
  <2>1. ASSUME NEW k \in handlers'
        PROVE  /\ DOMAIN k = HandlerFields /\ k.op \in O /\ Used(k.op)
               /\ k.ch # NoOp => \E m \in 1..Len(log) : SameName(k.ch, log[m])
    BY <1>2 DEF ServiceInv, ServiceType, Channels, Used
  <2>2. \A p \in proposed' : p.op \in O /\ Used(p.op)
    BY <1>2 DEF ServiceInv, ServiceType, Used
  <2>3. UNCHANGED <<log, id, pending, born>> /\ DOMAIN answer' = Client
    BY <1>2 DEF ServiceInv, ServiceType
  <2> QED BY <2>1, <2>2, <2>3, QuietStep
<1>3. CASE TimedOut(h)
  <2>1. UNCHANGED <<raftVars, clerkVars>> /\ handlers' = handlers \ {h}
    BY <1>3 DEF TimedOut, Reply
  <2> QED BY <1>2, <2>1 DEF raftVars, clerkVars
<1>4. CASE Applied(h, same)
  <2>1. Reply(h, same, h.ch.value) /\ UNCHANGED raftVars /\ h.ch # NoOp
    BY <1>4 DEF Applied
  <2>2. CASE UNCHANGED clerkVars
    BY <1>2, <2>1, <2>2 DEF raftVars, clerkVars, Reply
  <2>3. CASE ~UNCHANGED clerkVars
    BY <1>4, <2>1, <2>3 DEF Reply, Answered, raftVars
  <2> QED BY <2>2, <2>3
<1> QED BY <1>1, <1>3, <1>4

\* A reply keeps it, and what is answered stands in the log.
LEMMA AnsweredStep ==
  ASSUME NEW O, OpSet(O), ServiceInv(O), NEW h, NEW value, Answered(h, value)
  PROVE  /\ ServiceInv(O)'
         /\ h.op \in O /\ h.op.me \in Client
         /\ \E n \in 1..Len(log) : log[n] = h.op /\ SameName(h.ch, log[n])
<1> DEFINE c == h.op.me
<1>1. /\ h \in handlers /\ h.ch # NoOp /\ SameName(h.op, h.ch) /\ pending[c] = h.op
      /\ handlers' = handlers \ {h} /\ pending' = [pending EXCEPT ![c] = NoOp]
      /\ DOMAIN answer' = DOMAIN answer
      /\ UNCHANGED <<log, proposed, id, born>>
  BY DEF Answered
<1>2. h.op \in O /\ c \in Client /\ h.op # NoOp
  BY <1>1 DEF ServiceInv, ServiceType, OpSet
<1>t. /\ log \in Seq(O) /\ id \in [Client -> Nat] /\ pending \in [Client -> O \cup {NoOp}]
      /\ Len(log) \in Nat
  BY DEF ServiceInv, ServiceType
<1>3. PICK n \in 1..Len(log) : SameName(h.ch, log[n])
  BY <1>1 DEF ServiceInv, Channels
<1>4. log[n] = h.op
  <2>1. log[n] \in O /\ Used(log[n]) /\ Used(h.op) /\ SameName(log[n], h.op)
    BY <1>1, <1>3, <1>t DEF Used, SameName
  <2> QED BY <1>2, <2>1 DEF ServiceInv, Names
<1> HIDE DEF c
<1>5. \A d \in Client : pending'[d] = IF d = c THEN NoOp ELSE pending[d]
  BY <1>1, <1>t
<1>6. ServiceType(O)'
  BY <1>1, <1>5, <1>t DEF ServiceInv, ServiceType
<1>7. ASSUME NEW x \in O, Used(x)' PROVE Used(x)
  <2>1. x # NoOp
    BY DEF OpSet
  <2> QED BY <1>1, <1>5, <1>7, <2>1 DEF Used
<1>8. Names(O)'
  BY <1>1, <1>7 DEF ServiceInv, Names
<1>9. Clerks'
  <2>1. Logged(c, id[c])
    <3>1. h.op.reqId = id[c]
      BY <1>1, <1>2 DEF ServiceInv, Clerks, c
    <3> QED BY <1>4, <3>1 DEF Logged, c
  <2>2. ASSUME NEW d \in Client
        PROVE  /\ pending'[d] # NoOp =>
                    /\ pending'[d].me = d /\ pending'[d].reqId = id[d]
                    /\ born[d] <= Len(log)
                    /\ \A m \in 1..Len(log) : log[m] = pending'[d] => m > born[d]
               /\ \A r \in 1..id[d] : (r = id[d] => pending'[d] = NoOp) => Logged(d, r)
    <3>1. CASE d = c
      <4>1. \A r \in 1..id[c] : r = id[c] \/ Logged(c, r)
        BY <1>2 DEF ServiceInv, Clerks, c
      <4> QED BY <2>1, <3>1, <4>1, <1>5
    <3>2. CASE d # c
      <4>1. pending'[d] = pending[d]
        BY <3>2, <1>5
      <4> QED BY <4>1 DEF ServiceInv, Clerks
    <3> QED BY <3>1, <3>2
  <2> QED BY <2>2, <1>1 DEF Clerks, Logged
<1>10. InTurn' /\ Channels'
  <2>1. InTurn'
    BY <1>1 DEF ServiceInv, InTurn
  <2>2. Channels'
    BY <1>1 DEF ServiceInv, Channels
  <2> QED BY <2>1, <2>2
<1> QED BY <1>2, <1>3, <1>4, <1>6, <1>8, <1>9, <1>10 DEF ServiceInv, c

\* What ApplyRoutine sends to a waiting handler keeps it if it is about an entry of the log.
LEMMA NotifyStep ==
  ASSUME NEW O, OpSet(O), ServiceInv(O), NEW s, NEW idx, NEW got, Notify(s, idx, got),
         UNCHANGED <<raftVars, clerkVars>>,
         \E n \in 1..Len(log) : SameName(got, log[n])
  PROVE  ServiceInv(O)'
<1>1. ASSUME NEW k \in handlers
      PROVE  /\ DOMAIN k = HandlerFields /\ k.op \in O /\ Used(k.op)
             /\ k.ch # NoOp => \E m \in 1..Len(log) : SameName(k.ch, log[m])
  BY DEF ServiceInv, ServiceType, Channels, Used
<1>2. ASSUME NEW k \in handlers'
      PROVE  /\ DOMAIN k = HandlerFields /\ k.op \in O /\ Used(k.op)
             /\ k.ch # NoOp => \E m \in 1..Len(log) : SameName(k.ch, log[m])
  <2>1. PICK h \in handlers : k = h \/ k = [h EXCEPT !.ch = got]
    BY DEF Notify
  <2>2. CASE k = h
    BY <1>1, <2>2
  <2>3. CASE k = [h EXCEPT !.ch = got]
    <3>1. DOMAIN h = HandlerFields /\ h.op \in O /\ Used(h.op)
      BY <1>1
    <3>2. DOMAIN k = HandlerFields /\ k.op = h.op /\ k.ch = got
      BY <2>3, <3>1 DEF HandlerFields
    <3> QED BY <3>1, <3>2
  <2> QED BY <2>1, <2>2, <2>3
<1>3. \A p \in proposed' : p.op \in O /\ Used(p.op)
  BY DEF raftVars, ServiceInv, ServiceType, Used
<1>4. UNCHANGED <<log, id, pending, born>> /\ DOMAIN answer' = Client
  BY DEF raftVars, clerkVars, ServiceInv, ServiceType
<1> QED BY <1>2, <1>3, <1>4, QuietStep

\* A crash ends the handlers of a server and keeps it.
LEMMA CrashStep ==
  ASSUME NEW O, OpSet(O), ServiceInv(O), NEW s, CrashService(s)
  PROVE  ServiceInv(O)'
<1>1. UNCHANGED <<raftVars, clerkVars>> /\ handlers' \subseteq handlers
  BY DEF CrashService
<1>2. ASSUME NEW k \in handlers'
      PROVE  /\ DOMAIN k = HandlerFields /\ k.op \in O /\ Used(k.op)
             /\ k.ch # NoOp => \E m \in 1..Len(log) : SameName(k.ch, log[m])
  BY <1>1 DEF ServiceInv, ServiceType, Channels, Used
<1>3. \A p \in proposed' : p.op \in O /\ Used(p.op)
  BY <1>1 DEF raftVars, ServiceInv, ServiceType, Used
<1>4. UNCHANGED <<log, id, pending, born>> /\ DOMAIN answer' = Client
  BY <1>1 DEF raftVars, clerkVars, ServiceInv, ServiceType
<1> QED BY <1>2, <1>3, <1>4, QuietStep

\* So does a step that touches neither log, clerks nor handlers.
LEMMA IdleStep ==
  ASSUME NEW O, ServiceInv(O), UNCHANGED <<raftVars, clerkVars, handlers>>
  PROVE  ServiceInv(O)'
<1>1. UNCHANGED <<log, proposed, id, pending, born, answer, handlers>>
  BY DEF raftVars, clerkVars
<1> QED BY <1>1 DEF ServiceInv, ServiceType, Names, Used, Clerks, Logged, InTurn, Channels

-----------------------------------------------------------------------------
(* A table of the last reqId of every clerk. *)

\* tab is the table of a server that has applied the writes of es.
IsTable(tab, es) ==
    /\ tab \in [Client -> Nat]
    /\ \A x \in Range(es) : x.reqId <= tab[x.me]
    /\ \A c \in Client : tab[c] # 0 => \E x \in Range(es) : x.me = c /\ x.reqId = tab[c]

\* The table of a new server fits an empty list of operations.
LEMMA EmptyTable ==
  IsTable([c \in Client |-> 0], <<>>)
<1>1. DOMAIN <<>> = {}
  OBVIOUS
<1>2. Range(<<>>) = {}
  BY <1>1, Zenon DEF Range
<1> QED BY <1>2 DEF IsTable

\* The members of a list that has grown by one.
LEMMA RangeAppend ==
  ASSUME NEW U, NEW e \in Seq(U), NEW y \in U
  PROVE  \A x : x \in Range(Append(e, y)) <=> x \in Range(e) \/ x = y
<1>1. /\ DOMAIN e = 1..Len(e) /\ Len(e) \in Nat
      /\ DOMAIN Append(e, y) = 1..(Len(e) + 1)
      /\ Append(e, y)[Len(e) + 1] = y
      /\ \A q \in 1..Len(e) : Append(e, y)[q] = e[q]
  OBVIOUS
<1>2. \A q : q \in 1..(Len(e) + 1) <=> q \in 1..Len(e) \/ q = Len(e) + 1
  BY <1>1
<1> QED BY <1>1, <1>2 DEF Range

\* The table tells exactly the writes that are not applied yet.
LEMMA TableFirst ==
  ASSUME NEW O, OpSet(O), ServiceInv(O), NEW read, NEW n \in Nat, n + 1 <= Len(log),
         log[n + 1].type # read,
         NEW tab, IsTable(tab, Effective(n, read))
  PROVE  tab[log[n + 1].me] < log[n + 1].reqId
            <=> log[n + 1] \notin Range(Effective(n, read))
<1> DEFINE op == log[n + 1]
           es == Effective(n, read)
<1>t. log \in Seq(O) /\ Len(log) \in Nat
  BY DEF ServiceInv, ServiceType
<1>1. \A x : x \in Range(es) <=> \E k \in 1..n : log[k] = x /\ log[k].type # read
  BY <1>t, EffectiveRange, EffectiveIs
<1>2. /\ op \in O /\ Used(op) /\ op.me \in Client /\ op.reqId \in Nat /\ op.reqId > 0
      /\ tab[op.me] \in Nat
  <2>1. op \in O /\ Used(op)
    BY <1>t DEF Used
  <2> QED BY <2>1 DEF OpSet, IsTable
<1>3. ASSUME op \in Range(es) PROVE ~(tab[op.me] < op.reqId)
  BY <1>2, <1>3 DEF IsTable
<1>4. ASSUME op \notin Range(es), tab[op.me] >= op.reqId PROVE FALSE
  <2>1. PICK x \in Range(es) : x.me = op.me /\ x.reqId = tab[op.me]
    BY <1>2, <1>4 DEF IsTable
  <2>2. PICK k \in 1..n : log[k] = x /\ log[k].type # read
    BY <1>1, <2>1
  <2>3. k \in 1..Len(log) /\ x \in O /\ Used(x)
    BY <1>t, <2>2 DEF Used
  <2>4. CASE x.reqId = op.reqId
    <3>1. x = op
      BY <1>2, <2>1, <2>3, <2>4 DEF ServiceInv, Names, SameName
    <3> QED BY <1>4, <2>1, <3>1
  <2>5. CASE x.reqId # op.reqId
    <3>1. op.reqId \in 1..(log[k].reqId - 1)
      BY <1>2, <1>4, <2>1, <2>2, <2>5
    <3>2. PICK m \in 1..(k - 1) : log[m].me = log[k].me /\ log[m].reqId = op.reqId
      BY <2>3, <3>1 DEF ServiceInv, InTurn
    <3>3. m \in 1..n /\ m \in 1..Len(log)
      BY <1>t, <2>2, <2>3
    <3>4. log[m] \in O /\ Used(log[m]) /\ SameName(log[m], op)
      BY <1>t, <2>1, <2>2, <3>2, <3>3 DEF Used, SameName
    <3>5. log[m] = op
      BY <1>2, <3>4 DEF ServiceInv, Names
    <3>6. op \in Range(es)
      <4> HIDE DEF op, es
      <4>1. op.type # read
        BY DEF op
      <4> QED BY <1>1, <3>3, <3>5, <4>1
    <3> QED BY <1>4, <3>6
  <2> QED BY <2>4, <2>5
<1> QED BY <1>2, <1>3, <1>4

\* Recording an operation in the table and applying it keeps the two in step.
LEMMA TableStep ==
  ASSUME NEW O, OpSet(O), NEW es \in Seq(O), NEW tab, IsTable(tab, es), NEW op \in O,
         tab[op.me] < op.reqId
  PROVE  IsTable([tab EXCEPT ![op.me] = op.reqId], Append(es, op))
<1> DEFINE new == [tab EXCEPT ![op.me] = op.reqId]
<1>1. op.me \in Client /\ op.reqId \in Nat /\ tab \in [Client -> Nat]
  BY DEF OpSet, IsTable
<1>2. new \in [Client -> Nat] /\ \A c \in Client : new[c] = IF c = op.me THEN op.reqId ELSE tab[c]
  BY <1>1
<1> HIDE DEF new
<1>3. \A x : x \in Range(Append(es, op)) <=> x \in Range(es) \/ x = op
  BY RangeAppend
<1>4. ASSUME NEW x \in Range(Append(es, op)) PROVE x.reqId <= new[x.me]
  <2>1. CASE x = op
    BY <1>1, <1>2, <2>1
  <2>2. CASE x \in Range(es)
    <3>1. x \in O
      BY <2>2 DEF Range
    <3>2. x.me \in Client /\ x.reqId \in Nat /\ x.reqId <= tab[x.me]
      BY <2>2, <3>1 DEF OpSet, IsTable
    <3>3. \A c \in Client : tab[c] \in Nat /\ new[c] \in Nat /\ tab[c] <= new[c]
      BY <1>1, <1>2
    <3>4. PICK i \in Nat, j \in Nat : i = tab[x.me] /\ j = new[x.me] /\ i <= j
      BY <3>2, <3>3
    <3> QED BY <3>2, <3>4
  <2> QED BY <1>3, <2>1, <2>2
<1>5. ASSUME NEW c \in Client, new[c] # 0
      PROVE  \E x \in Range(Append(es, op)) : x.me = c /\ x.reqId = new[c]
  <2>1. CASE c = op.me
    BY <1>2, <1>3, <2>1
  <2>2. CASE c # op.me
    <3>1. new[c] = tab[c]
      BY <1>2, <2>2
    <3> QED BY <1>3, <1>5, <3>1 DEF IsTable
  <2> QED BY <2>1, <2>2
<1> QED BY <1>2, <1>4, <1>5 DEF IsTable, new

\* What a server does with the next entry, in terms of the log.
LEMMA NextEntry ==
  ASSUME NEW O, OpSet(O), ServiceInv(O), NEW read, NEW n \in Nat, n + 1 <= Len(log),
         NEW tab, IsTable(tab, Effective(n, read))
  PROVE  LET op == log[n + 1] IN
         /\ op.type # read /\ tab[op.me] < op.reqId =>
               /\ Effective(n + 1, read) = Append(Effective(n, read), op)
               /\ IsTable([tab EXCEPT ![op.me] = op.reqId], Effective(n + 1, read))
         /\ ~(op.type # read /\ tab[op.me] < op.reqId) =>
               Effective(n + 1, read) = Effective(n, read)
<1> DEFINE op == log[n + 1]
           es == Effective(n, read)
<1>1. log \in Seq(O) /\ Len(log) \in Nat
  BY DEF ServiceInv, ServiceType
<1>2. op \in O
  BY <1>1
<1>3. es \in Seq(O)
  BY <1>1, EffectiveRange, EffectiveIs
<1>4. n + 1 \in Nat /\ Effective(n + 1, read) = With(es, op, read)
  <2>1. EffectiveOf(log, n + 1, read) = With(EffectiveOf(log, n, read), op, read)
    BY EffectiveSteps
  <2> QED BY <2>1, EffectiveIs
<1>5. CASE op.type = read
  BY <1>4, <1>5 DEF With
<1>6. CASE op.type # read /\ op \in Range(es)
  <2>1. ~(tab[op.me] < op.reqId)
    BY <1>6, TableFirst
  <2> QED BY <1>4, <1>6, <2>1 DEF With
<1>7. CASE op.type # read /\ op \notin Range(es)
  <2>1. tab[op.me] < op.reqId
    BY <1>7, TableFirst
  <2>2. Effective(n + 1, read) = Append(es, op)
    BY <1>4, <1>7 DEF With
  <2>3. IsTable([tab EXCEPT ![op.me] = op.reqId], Append(es, op))
    <3> HIDE DEF es, op
    <3>1. IsTable(tab, es)
      BY DEF es
    <3> QED BY <1>2, <1>3, <2>1, <3>1, TableStep
  <2> HIDE DEF op
  <2> QED BY <1>7, <2>1, <2>2, <2>3 DEF op
<1> QED BY <1>5, <1>6, <1>7

-----------------------------------------------------------------------------
(* The clerks of AtomicService. *)

Completed(read) == Effective(Len(log), read)

\* What the clerks see does not change.
LEMMA SameWaiting ==
  ASSUME NEW read, UNCHANGED <<log, clerkVars>>
  PROVE  /\ Completed(read)' = Completed(read)
         /\ \A c \in Client : Waiting(c, read)' = Waiting(c, read) /\ Told(c)' = Told(c)
<1>1. UNCHANGED <<log, id, pending, answer, born>>
  BY DEF clerkVars
<1>2. \A n : Effective(n, read)' = Effective(n, read)
  BY <1>1, EffectiveIs
<1> QED BY <1>1, <1>2, EffectiveIs DEF Completed, Waiting, Told, Range

\* A pending operation, as the atomic service sees it, is not NoOp.
LEMMA WaitingIsOp ==
  ASSUME NEW O, OpSet(O), NEW x \in O, NEW b \in Nat, NEW t \in BOOLEAN
  PROVE  [op |-> x, born |-> b, taken |-> t] # NoOp
<1>1. [op |-> x, born |-> b, taken |-> t] \in [op : O, born : Nat, taken : BOOLEAN]
  OBVIOUS
<1> QED BY <1>1 DEF OpSet

\* The fields of a pending operation when it takes effect.
LEMMA TakenField ==
  ASSUME NEW x, NEW b, NEW t, NEW u, NEW w, w = [op |-> x, born |-> b, taken |-> t]
  PROVE  /\ w.op = x /\ w.taken = t
         /\ [w EXCEPT !.taken = u] = [op |-> x, born |-> b, taken |-> u]
  OBVIOUS

\* What Waiting says of a clerk with a pending operation.
LEMMA WaitingType ==
  ASSUME NEW O, OpSet(O), ServiceInv(O), NEW read, NEW c \in Client, pending[c] # NoOp
  PROVE  /\ Waiting(c, read) = [op    |-> pending[c],
                                born  |-> Len(Effective(born[c], read)),
                                taken |-> pending[c].type # read /\ pending[c] \in Range(log)]
         /\ Waiting(c, read) # NoOp
         /\ pending[c] \in O
<1>1. pending[c] \in O /\ born[c] \in Nat /\ born[c] <= Len(log) /\ log \in Seq(O)
  BY DEF ServiceInv, ServiceType, Clerks
<1>2. Len(Effective(born[c], read)) \in Nat
  <2>1. Effective(born[c], read) \in Seq(O)
    BY <1>1, EffectiveRange, EffectiveIs
  <2> QED BY <2>1
<1> DEFINE t == pending[c].type # read /\ pending[c] \in Range(log)
<1>3. t \in BOOLEAN
  OBVIOUS
<1>4. Waiting(c, read) = [op |-> pending[c], born |-> Len(Effective(born[c], read)), taken |-> t]
  BY DEF Waiting
<1> HIDE DEF t
<1>5. Waiting(c, read) # NoOp
  BY <1>1, <1>2, <1>3, <1>4, WaitingIsOp
<1> QED BY <1>1, <1>4, <1>5 DEF t

\* The members of a list are the values at its indices.
LEMMA InRange ==
  ASSUME NEW U, NEW s \in Seq(U)
  PROVE  \A x : x \in Range(s) <=> \E n \in 1..Len(s) : s[n] = x
  BY DEF Range

\* A clerk's request is Invoke of the atomic service.
LEMMA Invoked ==
  ASSUME NEW O, OpSet(O), ServiceInv(O), NEW read, NEW c \in Client, NEW op, NEW value,
         Request(c, op, value), Named(op, c, id[c] + 1, value) \in O
  PROVE  /\ Completed(read)' = Completed(read)
         /\ Waiting(c, read) = NoOp /\ Waiting(c, read)' # NoOp
         /\ Waiting(c, read)'.born = Len(Completed(read)) /\ ~Waiting(c, read)'.taken
         /\ \A d \in Client \ {c} : Waiting(d, read)' = Waiting(d, read)
         /\ \A d \in Client : Told(d)' = Told(d)
<1> DEFINE new == Named(op, c, id[c] + 1, value)
<1>1. /\ UNCHANGED <<log, answer>> /\ pending[c] = NoOp
      /\ pending' = [pending EXCEPT ![c] = new]
      /\ born' = [born EXCEPT ![c] = Len(log)]
      /\ new.me = c /\ new.reqId = id[c] + 1
  BY DEF Request, raftVars, Named
<1>t. /\ pending \in [Client -> O \cup {NoOp}] /\ born \in [Client -> Nat]
      /\ log \in Seq(O) /\ Len(log) \in Nat /\ id \in [Client -> Nat]
  BY DEF ServiceInv, ServiceType
<1>2. new \in O /\ new # NoOp
  BY DEF OpSet
<1> HIDE DEF new
<1>3. /\ pending'[c] = new /\ born'[c] = Len(log)
      /\ \A d \in Client \ {c} : pending'[d] = pending[d] /\ born'[d] = born[d]
  BY <1>1, <1>t
<1>4. ASSUME NEW n PROVE Effective(n, read)' = Effective(n, read)
  BY <1>1, EffectiveIs
<1>5. Completed(read)' = Completed(read)
  <2>1. Completed(read)' = EffectiveOf(log', Len(log'), read)
    BY EffectiveIs DEF Completed
  <2>2. Completed(read) = EffectiveOf(log, Len(log), read)
    BY EffectiveIs DEF Completed
  <2> QED BY <1>1, <2>1, <2>2
<1>6. new \notin Range(log)
  <2>1. ASSUME NEW n \in 1..Len(log) PROVE log[n] # new
    <3>1. log[n] \in O /\ Used(log[n])
      BY <1>t DEF Used
    <3>2. log[n].reqId <= id[log[n].me]
      BY <3>1 DEF ServiceInv, Names
    <3> QED BY <3>2, <1>1, <1>t
  <2> QED BY <2>1, <1>t, InRange
<1>7. Waiting(c, read)' = [op |-> new, born |-> Len(Completed(read)), taken |-> FALSE]
  <2>1. Waiting(c, read)' = [op |-> pending'[c],
                             born |-> Len(EffectiveOf(log', born'[c], read)),
                             taken |-> pending'[c].type # read /\ pending'[c] \in Range(log')]
    BY <1>2, <1>3, EffectiveIs DEF Waiting
  <2>2. Completed(read) = EffectiveOf(log, Len(log), read)
    BY EffectiveIs DEF Completed
  <2> QED BY <1>1, <1>3, <1>6, <2>1, <2>2
<1>8. Waiting(c, read)' # NoOp
  <2>1. Completed(read) \in Seq(O)
    BY <1>t, EffectiveRange, EffectiveIs DEF Completed
  <2>2. Len(Completed(read)) \in Nat
    BY <2>1
  <2> QED BY <1>2, <1>7, <2>2, WaitingIsOp
<1>9. ASSUME NEW d \in Client \ {c} PROVE Waiting(d, read)' = Waiting(d, read)
  <2>1. EffectiveOf(log', born'[d], read) = EffectiveOf(log, born[d], read)
    BY <1>1, <1>3
  <2>2. Effective(born[d], read)' = Effective(born[d], read)
    BY <2>1, EffectiveIs
  <2> QED BY <1>1, <1>3, <2>2 DEF Waiting, Range
<1> QED BY <1>1, <1>5, <1>7, <1>8, <1>9 DEF Waiting, Told

\* An entry is committed: nothing, or the write of a clerk that waits for it.
LEMMA Taken ==
  ASSUME NEW O, OpSet(O), ServiceInv(O), NEW read, Commit
  PROVE  /\ \A d \in Client : Told(d)' = Told(d)
         /\ \/ /\ Completed(read)' = Completed(read)
               /\ \A d \in Client : Waiting(d, read)' = Waiting(d, read)
            \/ \E c \in Client :
                  /\ Waiting(c, read) # NoOp /\ ~Waiting(c, read).taken
                  /\ Waiting(c, read).op.type # read
                  /\ Completed(read)' = Append(Completed(read), Waiting(c, read).op)
                  /\ Waiting(c, read)' = [Waiting(c, read) EXCEPT !.taken = TRUE]
                  /\ \A d \in Client \ {c} : Waiting(d, read)' = Waiting(d, read)
<1>1. PICK p \in proposed : log' = Append(log, p.op) /\ UNCHANGED <<id, pending, born, answer>>
  BY DEF Commit, clerkVars
<1> DEFINE x == p.op
           es == Completed(read)
           fresh == x.type # read /\ x \notin Range(log)
<1>2. x \in O /\ Used(x) /\ x.me \in Client /\ x.reqId \in Nat /\ x.reqId > 0
  BY <1>1 DEF ServiceInv, ServiceType, Used, OpSet
<1>t. /\ log \in Seq(O) /\ id \in [Client -> Nat] /\ pending \in [Client -> O \cup {NoOp}]
      /\ born \in [Client -> Nat] /\ Len(log) \in Nat
  BY DEF ServiceInv, ServiceType
<1> HIDE DEF x
<1>3. /\ log' \in Seq(O) /\ Len(log') = Len(log) + 1 /\ log'[Len(log) + 1] = x
      /\ \A n \in 1..Len(log) : log'[n] = log[n]
  BY <1>1, <1>2, <1>t DEF x
<1>4. \A y : y \in Range(log') <=> y \in Range(log) \/ y = x
  BY <1>1, <1>2, <1>t, RangeAppend DEF x
<1>5. \A n \in Nat : n <= Len(log) => EffectiveOf(log', n, read) = EffectiveOf(log, n, read)
  <2>1. ASSUME NEW n \in Nat, n <= Len(log) PROVE \A k \in 1..n : log'[k] = log[k]
    BY <1>3, <1>t, <2>1
  <2> QED BY <2>1, EffectiveSame
<1>6. es = EffectiveOf(log, Len(log), read)
  BY EffectiveIs DEF Completed
<1>7. Completed(read)' = With(es, x, read)
  <2>1. Completed(read)' = EffectiveOf(log', Len(log'), read)
    BY EffectiveIs DEF Completed
  <2>2. EffectiveOf(log', Len(log) + 1, read)
          = With(EffectiveOf(log', Len(log), read), log'[Len(log) + 1], read)
    BY <1>t, EffectiveSteps
  <2>3. EffectiveOf(log', Len(log), read) = es
    BY <1>5, <1>6, <1>t
  <2> QED BY <1>3, <2>1, <2>2, <2>3
<1>8. x.type # read => (x \in Range(es) <=> x \in Range(log))
  <2>1. \A y : y \in Range(es) <=> \E k \in 1..Len(log) : log[k] = y /\ log[k].type # read
    BY <1>6, <1>t, EffectiveRange
  <2>2. x \in Range(log) <=> \E k \in 1..Len(log) : log[k] = x
    BY <1>t, InRange
  <2> QED BY <2>1, <2>2
<1> HIDE DEF es
<1>9. \A d \in Client : Told(d)' = Told(d)
  BY <1>1 DEF Told
<1>10. ASSUME NEW d \in Client, pending[d] # NoOp
       PROVE  Waiting(d, read)' = [op    |-> pending[d],
                                   born  |-> Len(Effective(born[d], read)),
                                   taken |-> pending[d].type # read /\ pending[d] \in Range(log')]
  <2>1. born[d] <= Len(log) /\ born[d] \in Nat
    BY <1>10, <1>t DEF ServiceInv, Clerks
  <2>2. EffectiveOf(log', born[d], read) = EffectiveOf(log, born[d], read)
    BY <1>5, <2>1
  <2>3. Waiting(d, read)' = [op |-> pending[d],
                             born |-> Len(EffectiveOf(log', born[d], read)),
                             taken |-> pending[d].type # read /\ pending[d] \in Range(log')]
    BY <1>1, <1>10, EffectiveIs DEF Waiting
  <2> QED BY <2>2, <2>3, EffectiveIs
<1>11. ASSUME NEW d \in Client, ~fresh \/ pending[d] # x
       PROVE  Waiting(d, read)' = Waiting(d, read)
  <2>1. CASE pending[d] = NoOp
    BY <1>1, <2>1 DEF Waiting
  <2>2. CASE pending[d] # NoOp
    <3>1. Waiting(d, read) = [op    |-> pending[d],
                              born  |-> Len(Effective(born[d], read)),
                              taken |-> pending[d].type # read /\ pending[d] \in Range(log)]
      BY <2>2, WaitingType
    <3>2. (pending[d].type # read /\ pending[d] \in Range(log'))
             <=> (pending[d].type # read /\ pending[d] \in Range(log))
      BY <1>4, <1>11
    <3> QED BY <1>10, <2>2, <3>1, <3>2
  <2> QED BY <2>1, <2>2
<1>12. CASE ~fresh
  <2>1. Completed(read)' = es
    BY <1>7, <1>8, <1>12 DEF With
  <2> QED BY <1>9, <1>11, <1>12, <2>1 DEF es
<1>13. CASE fresh
  <2> DEFINE c == x.me
  <2>1. pending[c] # NoOp /\ pending[c] = x
    <3>1. x.reqId <= id[c] /\ c \in Client
      BY <1>2 DEF ServiceInv, Names
    <3>2. ~Logged(c, x.reqId)
      <4>1. SUFFICES ASSUME NEW n \in 1..Len(log), log[n].me = c, log[n].reqId = x.reqId
                     PROVE  FALSE
        BY DEF Logged
      <4>2. log[n] \in O /\ Used(log[n]) /\ SameName(log[n], x)
        BY <1>t, <4>1 DEF Used, SameName
      <4>3. log[n] = x
        BY <1>2, <4>2 DEF ServiceInv, Names
      <4> QED BY <1>13, <1>t, <4>3, InRange
    <3>3. x.reqId \in 1..id[c]
      BY <3>1, <1>2, <1>t
    <3>4. x.reqId = id[c] /\ pending[c] # NoOp
      BY <3>1, <3>2, <3>3 DEF ServiceInv, Clerks
    <3>5. pending[c] \in O /\ Used(pending[c]) /\ SameName(pending[c], x)
      BY <3>1, <3>4, <1>t DEF Used, SameName, ServiceInv, Clerks
    <3> QED BY <1>2, <3>4, <3>5 DEF ServiceInv, Names
  <2>2. ASSUME NEW d \in Client \ {c} PROVE pending[d] # x
    <3>1. x # NoOp
      BY <2>1
    <3> QED BY <3>1, <2>2 DEF ServiceInv, Clerks
  <2>3. \A d \in Client \ {c} : Waiting(d, read)' = Waiting(d, read)
    BY <1>11, <2>2
  <2>4. c \in Client /\ Waiting(c, read) = [op |-> x, born |-> Len(Effective(born[c], read)),
                                            taken |-> FALSE]
    <3>1. (x.type # read /\ x \in Range(log)) = FALSE
      BY <1>13
    <3>2. Waiting(c, read) = [op |-> x, born |-> Len(Effective(born[c], read)),
                              taken |-> x.type # read /\ x \in Range(log)]
      BY <1>2, <2>1, WaitingType
    <3> QED BY <1>2, <3>1, <3>2, Zenon
  <2>5. Waiting(c, read)' = [op |-> x, born |-> Len(Effective(born[c], read)), taken |-> TRUE]
    BY <1>2, <1>4, <1>10, <1>13, <2>1
  <2>6. Waiting(c, read) # NoOp
    BY <1>2, <2>1, WaitingType
  <2>7. Completed(read)' = Append(es, x)
    BY <1>7, <1>8, <1>13 DEF With
  <2>8. Waiting(c, read)' = [Waiting(c, read) EXCEPT !.taken = TRUE]
    <3>1. PICK t, u : t = FALSE /\ u = TRUE
      OBVIOUS
    <3> DEFINE w == Waiting(c, read)
               b == Len(Effective(born[c], read))
    <3>2. w = [op |-> x, born |-> b, taken |-> t] /\ w' = [op |-> x, born |-> b, taken |-> u]
      BY <2>4, <2>5, <3>1, Zenon
    <3> HIDE DEF w, b
    <3>3. w' = [w EXCEPT !.taken = u]
      BY <3>2, TakenField
    <3> QED BY <3>1, <3>3, Zenon DEF w
  <2>9. Waiting(c, read).op = x /\ ~Waiting(c, read).taken
    <3>1. PICK t : t = FALSE
      OBVIOUS
    <3> DEFINE w == Waiting(c, read)
               b == Len(Effective(born[c], read))
    <3>2. w = [op |-> x, born |-> b, taken |-> t]
      BY <2>4, <3>1, Zenon
    <3> HIDE DEF w, b
    <3>3. w.op = x /\ w.taken = t
      BY <3>2
    <3> QED BY <3>1, <3>3, Zenon DEF w
  <2> HIDE DEF c
  <2> QED BY <1>9, <1>13, <2>3, <2>4, <2>6, <2>7, <2>8, <2>9 DEF es
<1> QED BY <1>12, <1>13

\* A handler answers: its clerk's operation is in the log.
LEMMA Returned ==
  ASSUME NEW O, OpSet(O), ServiceInv(O), NEW read, NEW h, NEW value, Answered(h, value)
  PROVE  LET c == h.op.me IN
         /\ c \in Client /\ Waiting(c, read) # NoOp /\ Waiting(c, read).op = h.op
         /\ Waiting(c, read)' = NoOp
         /\ h.op.type # read => Waiting(c, read).taken
         /\ Completed(read)' = Completed(read)
         /\ \A d \in Client \ {c} : Waiting(d, read)' = Waiting(d, read) /\ Told(d)' = Told(d)
         /\ Told(c)' = value
<1> DEFINE c == h.op.me
<1>1. /\ c \in Client /\ h.op \in O /\ \E n \in 1..Len(log) : log[n] = h.op
  BY AnsweredStep
<1>2. /\ pending[c] = h.op /\ pending' = [pending EXCEPT ![c] = NoOp]
      /\ answer' = [answer EXCEPT ![c] = [op |-> h.op, value |-> value, born |-> born[c]]]
      /\ UNCHANGED <<log, id, born>>
  BY DEF Answered
<1>t. /\ log \in Seq(O) /\ pending \in [Client -> O \cup {NoOp}] /\ DOMAIN answer = Client
  BY DEF ServiceInv, ServiceType
<1>3. h.op # NoOp
  BY <1>1 DEF OpSet
<1>4. h.op \in Range(log)
  BY <1>1, <1>t, InRange
<1>5. /\ Waiting(c, read) # NoOp
      /\ Waiting(c, read) = [op |-> h.op, born |-> Len(Effective(born[c], read)),
                             taken |-> h.op.type # read /\ h.op \in Range(log)]
  BY <1>1, <1>2, <1>3, WaitingType
<1> HIDE DEF c
<1>6. /\ pending'[c] = NoOp /\ answer'[c].value = value
      /\ \A d \in Client \ {c} : pending'[d] = pending[d] /\ answer'[d] = answer[d]
  BY <1>1, <1>2, <1>t
<1>7. Waiting(c, read)' = NoOp /\ Told(c)' = value
  BY <1>6 DEF Waiting, Told
<1>8. ASSUME NEW d \in Client \ {c}
      PROVE  Waiting(d, read)' = Waiting(d, read) /\ Told(d)' = Told(d)
  <2>1. EffectiveOf(log', born'[d], read) = EffectiveOf(log, born[d], read)
    BY <1>2
  <2>2. Effective(born[d], read)' = Effective(born[d], read)
    BY <2>1, EffectiveIs
  <2> QED BY <1>2, <1>6, <2>2 DEF Waiting, Told, Range
<1>9. Completed(read)' = Completed(read)
  <2>1. Completed(read)' = EffectiveOf(log', Len(log'), read)
    BY EffectiveIs DEF Completed
  <2>2. Completed(read) = EffectiveOf(log, Len(log), read)
    BY EffectiveIs DEF Completed
  <2> QED BY <1>2, <2>1, <2>2
<1>10. Waiting(c, read).op = h.op /\ (h.op.type # read => Waiting(c, read).taken)
  <2>1. PICK t : t = (h.op.type # read /\ h.op \in Range(log))
    OBVIOUS
  <2> DEFINE w == Waiting(c, read)
             b == Len(Effective(born[c], read))
  <2>2. w = [op |-> h.op, born |-> b, taken |-> t]
    BY <1>5, <2>1, Zenon
  <2> HIDE DEF w, b
  <2>3. w.op = h.op /\ w.taken = t
    BY <2>2
  <2> QED BY <1>4, <2>1, <2>3, Zenon DEF w
<1> QED BY <1>1, <1>5, <1>7, <1>8, <1>9, <1>10 DEF c

\* What a read finds after an index since it began is a state since it began.
LEMMA SeenAt ==
  ASSUME NEW O, OpSet(O), ServiceInv(O), NEW read, NEW c \in Client, pending[c] # NoOp,
         NEW n \in Nat, born[c] <= n, n <= Len(log)
  PROVE  /\ Len(Effective(n, read)) \in Waiting(c, read).born..Len(Completed(read))
         /\ SubSeq(Completed(read), 1, Len(Effective(n, read))) = Effective(n, read)
<1> DEFINE E(k) == EffectiveOf(log, k, read)
<1>1. log \in Seq(O) /\ born[c] \in Nat /\ Len(log) \in Nat
  BY DEF ServiceInv, ServiceType
<1>2. /\ Effective(n, read) = E(n) /\ Completed(read) = E(Len(log))
      /\ Waiting(c, read).born = Len(E(born[c]))
  BY EffectiveIs, WaitingType DEF Completed
<1>3. E(n) \in Seq(O) /\ E(Len(log)) \in Seq(O)
  BY <1>1, EffectiveRange
<1>4. E(born[c]) \in Seq(O)
  BY <1>1, EffectiveRange
<1>5. /\ Len(E(n)) <= Len(E(Len(log)))
      /\ SubSeq(E(Len(log)), 1, Len(E(n))) = E(n)
  BY <1>1, EffectivePrefix
<1>6. Len(E(born[c])) <= Len(E(n))
  BY <1>1, EffectivePrefix
<1> HIDE DEF E
<1>7. Len(E(n)) \in Nat /\ Len(E(Len(log))) \in Nat /\ Len(E(born[c])) \in Nat
  BY <1>3, <1>4
<1> QED BY <1>2, <1>5, <1>6, <1>7

=============================================================================
