--------------------------- MODULE RaftLogProofs ---------------------------
(***************************************************************************)
(* The logs of the peers match, for every set of servers and every bound,  *)
(* in every mode of the network, the scheduler and the disk.               *)
(*                                                                         *)
(* The argument is about pieces of log: what a peer has in rf.log, what an *)
(* AppendEntries call carries and what an InstallSnapshot call names.      *)
(* Every step makes pieces out of pieces, by cutting one or by joining two *)
(* at an index where they have the same term; only a leader extends one,   *)
(* and with an index that no piece has in the leader's term.               *)
(*                                                                         *)
(* The second half is about the fast backup of a refused AppendEntries,    *)
(* with the same pieces: the entries of a term stand together, at the same *)
(* first index in all of them, and so a follower's hint never points       *)
(* beyond the index that was refused.                                      *)
(***************************************************************************)
EXTENDS RaftProofs

\* Consecutive entries, after an index whose term is known.
Piece == [base : Nat, term : Nat, entries : Seq(LogEntry)]

Top(X) == X.base + Len(X.entries)

\* X tells the term of index n, and unless n is its base the entry.
Knows(X, n) == X.base <= n /\ n <= Top(X)
TermIn(X, n) == IF n > X.base THEN X.entries[n - X.base].term ELSE X.term
EntryIn(X, n) == X.entries[n - X.base]

\* Two pieces with one term at one index are the same up to it.
Agree(X, Y) ==
    \A n, m \in Nat :
        /\ m <= n
        /\ Knows(X, n) /\ Knows(Y, n) /\ Knows(X, m) /\ Knows(Y, m)
        /\ TermIn(X, n) = TermIn(Y, n)
        => /\ TermIn(X, m) = TermIn(Y, m)
           /\ m > X.base /\ m > Y.base => EntryIn(X, m) = EntryIn(Y, m)

LogOf(i) ==
    [base |-> lastIncludedIndex[i], term |-> lastIncludedTerm[i], entries |-> log[i]]

PieceOf(c) ==
    IF c.kind = "append"
    THEN [base |-> c.prevLogIndex, term |-> c.prevLogTerm, entries |-> c.entries]
    ELSE [base |-> c.lastIncludedIndex, term |-> c.lastIncludedTerm, entries |-> <<>>]

Requested(X) ==
    \E i, j \in Server : \E k \in DOMAIN calls[i][j] :
        IsRequest(calls[i][j][k]) /\ X = PieceOf(calls[i][j][k])

IsPiece(X) == (\E i \in Server : X = LogOf(i)) \/ Requested(X)

PiecesAgree == \A X, Y : IsPiece(X) /\ IsPiece(Y) => Agree(X, Y)

\* Every term in a log is one in which somebody was elected.
TermsElected ==
    \A X : IsPiece(X) =>
        \A n \in Nat : n # 0 /\ Knows(X, n) =>
            \E s \in Server : <<TermIn(X, n), s>> \in elected

\* Nothing of a leader's term is anywhere beyond the end of its log.
LeaderAhead ==
    \A i \in Server : serverState[i] = "leader" =>
        \A X : IsPiece(X) =>
            \A n \in Nat : Knows(X, n) /\ TermIn(X, n) = currentTerm[i]
                             => n <= lastLogIndex(i)

\* A peer is elected once in a term, and leads because it was.
ElectedOnce ==
    /\ \A e \in elected :
          /\ e[1] <= currentTerm[e[2]]
          /\ e[1] = currentTerm[e[2]] => serverState[e[2]] # "candidate"
    /\ \A i \in Server : serverState[i] = "leader" => <<currentTerm[i], i>> \in elected

LogInv == PiecesAgree /\ TermsElected /\ LeaderAhead /\ ElectedOnce

-----------------------------------------------------------------------------
(* Pieces. *)

\* Z says of n what X says, and knows nothing that X does not.
SameAt(Z, X, n) ==
    /\ Knows(X, n)
    /\ TermIn(Z, n) = TermIn(X, n)
    /\ n > Z.base => n > X.base /\ EntryIn(Z, n) = EntryIn(X, n)

CutFrom(Z, X) == \A n \in Nat : Knows(Z, n) => SameAt(Z, X, n)

\* Z is X up to the base of Y, where both have the same term, and then Y.
JoinOf(Z, X, Y) ==
    /\ Y.base \in Nat /\ Knows(Y, Y.base)
    /\ Knows(X, Y.base) /\ TermIn(X, Y.base) = TermIn(Y, Y.base)
    /\ \A n \in Nat : Knows(Z, n) /\ n <= Y.base => SameAt(Z, X, n)
    /\ \A n \in Nat : Knows(Z, n) /\ n > Y.base => SameAt(Z, Y, n)

\* Agreement of two pieces is symmetric,
LEMMA AgreeSymmetric ==
  ASSUME NEW X, NEW Y, Agree(X, Y)
  PROVE  Agree(Y, X)
  BY DEF Agree

\* and every piece agrees with itself.
LEMMA AgreeReflexive ==
  ASSUME NEW X
  PROVE  Agree(X, X)
  BY DEF Agree

\* What agrees with a piece agrees with a part of it.
LEMMA CutAgrees ==
  ASSUME NEW X, NEW Z, NEW W, CutFrom(Z, X), Agree(X, W)
  PROVE  Agree(Z, W)
<1> SUFFICES ASSUME NEW n \in Nat, NEW m \in Nat, m <= n,
                    Knows(Z, n), Knows(W, n), Knows(Z, m), Knows(W, m),
                    TermIn(Z, n) = TermIn(W, n)
             PROVE  /\ TermIn(Z, m) = TermIn(W, m)
                    /\ m > Z.base /\ m > W.base => EntryIn(Z, m) = EntryIn(W, m)
  BY DEF Agree
<1>1. SameAt(Z, X, n) /\ SameAt(Z, X, m)
  BY DEF CutFrom
<1>2. /\ TermIn(X, m) = TermIn(W, m)
      /\ m > X.base /\ m > W.base => EntryIn(X, m) = EntryIn(W, m)
  BY <1>1 DEF SameAt, Agree
<1> QED BY <1>1, <1>2 DEF SameAt

\* A cut of a cut is a cut.
LEMMA CutTwice ==
  ASSUME NEW X, NEW Y, NEW Z, CutFrom(Z, Y), CutFrom(Y, X)
  PROVE  CutFrom(Z, X)
<1>1. ASSUME NEW n \in Nat, Knows(Z, n) PROVE SameAt(Z, X, n)
  <2>1. SameAt(Z, Y, n)
    BY <1>1 DEF CutFrom
  <2>2. SameAt(Y, X, n)
    BY <2>1 DEF CutFrom, SameAt
  <2> QED BY <2>1, <2>2 DEF SameAt
<1> QED BY <1>1 DEF CutFrom

\* What agrees with two pieces agrees with what is joined of them: the
\* consistency check of AppendEntries is all that is needed.
LEMMA JoinAgrees ==
  ASSUME NEW X, NEW Y, NEW Z, NEW W, JoinOf(Z, X, Y), Agree(X, W), Agree(Y, W),
         W.base \in Nat, Top(W) \in Nat
  PROVE  Agree(Z, W)
<1> SUFFICES ASSUME NEW n \in Nat, NEW m \in Nat, m <= n,
                    Knows(Z, n), Knows(W, n), Knows(Z, m), Knows(W, m),
                    TermIn(Z, n) = TermIn(W, n)
             PROVE  /\ TermIn(Z, m) = TermIn(W, m)
                    /\ m > Z.base /\ m > W.base => EntryIn(Z, m) = EntryIn(W, m)
  BY DEF Agree
<1>0. Y.base \in Nat
  BY DEF JoinOf
<1>1. CASE n <= Y.base
  <2>1. SameAt(Z, X, n) /\ SameAt(Z, X, m)
    <3>1. m <= Y.base
      BY <1>0, <1>1
    <3> QED BY <1>1, <3>1 DEF JoinOf
  <2>2. /\ TermIn(X, m) = TermIn(W, m)
        /\ m > X.base /\ m > W.base => EntryIn(X, m) = EntryIn(W, m)
    BY <2>1 DEF SameAt, Agree
  <2> QED BY <2>1, <2>2 DEF SameAt
<1>2. CASE m > Y.base
  <2>1. SameAt(Z, Y, n) /\ SameAt(Z, Y, m)
    <3>1. n > Y.base
      BY <1>0, <1>2
    <3> QED BY <1>2, <3>1 DEF JoinOf
  <2>2. /\ TermIn(Y, m) = TermIn(W, m)
        /\ m > Y.base /\ m > W.base => EntryIn(Y, m) = EntryIn(W, m)
    BY <2>1 DEF SameAt, Agree
  <2> QED BY <2>1, <2>2 DEF SameAt
<1>3. CASE n > Y.base /\ m <= Y.base
  <2> DEFINE p == Y.base
  <2>1. SameAt(Z, Y, n) /\ SameAt(Z, X, m)
    BY <1>3 DEF JoinOf
  <2>2. Knows(W, p)
    <3>1. W.base <= p
      BY <1>0, <1>3 DEF Knows
    <3>2. p <= Top(W)
      BY <1>0, <1>3 DEF Knows
    <3> QED BY <3>1, <3>2 DEF Knows
  <2>3. Knows(Y, p) /\ Knows(X, p) /\ TermIn(X, p) = TermIn(Y, p)
    BY DEF JoinOf
  <2>4. p <= n /\ m <= p /\ p \in Nat
    BY <1>0, <1>3
  <2>5. TermIn(Y, n) = TermIn(W, n) /\ Knows(Y, n)
    BY <2>1 DEF SameAt
  <2> HIDE DEF p
  <2>6. TermIn(Y, p) = TermIn(W, p)
    BY <2>2, <2>3, <2>4, <2>5 DEF Agree
  <2>7. Knows(X, m) /\ TermIn(X, p) = TermIn(W, p)
    BY <2>1, <2>3, <2>6 DEF SameAt
  <2>8. /\ TermIn(X, m) = TermIn(W, m)
        /\ m > X.base /\ m > W.base => EntryIn(X, m) = EntryIn(W, m)
    BY <2>2, <2>3, <2>4, <2>7 DEF Agree
  <2> QED BY <2>1, <2>8 DEF SameAt
<1> QED BY <1>0, <1>1, <1>2, <1>3

\* The end of a sequence.
LEMMA SuffixAt ==
  ASSUME NEW S, NEW s \in Seq(S), NEW a \in Nat, a <= Len(s)
  PROVE  /\ Len(SubSeq(s, a + 1, Len(s))) = Len(s) - a
         /\ \A q \in 1..(Len(s) - a) : SubSeq(s, a + 1, Len(s))[q] = s[a + q]
<1>1. Len(s) \in Nat
  OBVIOUS
<1>2. Len(SubSeq(s, a + 1, Len(s))) = Len(s) - a
  BY <1>1
<1>3. ASSUME NEW q \in 1..(Len(s) - a)
      PROVE  SubSeq(s, a + 1, Len(s))[q] = s[a + q]
  <2>1. SubSeq(s, a + 1, Len(s))[q] = s[a + 1 + q - 1]
    BY <1>1
  <2>2. a + 1 + q - 1 = a + q
    OBVIOUS
  <2> QED BY <2>1, <2>2
<1> QED BY <1>2, <1>3

\* The second part of a concatenation.
LEMMA ConcatAt ==
  ASSUME NEW S, NEW s \in Seq(S), NEW t \in Seq(S)
  PROVE  /\ Len(s \o t) = Len(s) + Len(t)
         /\ \A q \in 1..Len(s) : (s \o t)[q] = s[q]
         /\ \A q \in 1..Len(t) : (s \o t)[Len(s) + q] = t[q]
<1>1. Len(s) \in Nat /\ Len(t) \in Nat
  OBVIOUS
<1>2. Len(s \o t) = Len(s) + Len(t) /\ \A q \in 1..Len(s) : (s \o t)[q] = s[q]
  OBVIOUS
<1>3. ASSUME NEW q \in 1..Len(t) PROVE (s \o t)[Len(s) + q] = t[q]
  <2>1. Len(s) + q \in 1..(Len(s) + Len(t)) /\ ~(Len(s) + q <= Len(s))
    BY <1>1
  <2>2. (s \o t)[Len(s) + q] = t[Len(s) + q - Len(s)]
    BY <2>1
  <2>3. Len(s) + q - Len(s) = q
    BY <1>1
  <2> QED BY <2>2, <2>3
<1> QED BY <1>2, <1>3

\* The last entries of a piece are cut from it.
LEMMA SuffixCut ==
  ASSUME NEW X \in Piece, NEW b \in Nat, Knows(X, b), NEW Z,
         Z = [base |-> b, term |-> TermIn(X, b),
              entries |-> SubSeq(X.entries, b - X.base + 1, Len(X.entries))]
  PROVE  CutFrom(Z, X)
<1>1. X.base \in Nat /\ X.entries \in Seq(LogEntry) /\ Len(X.entries) \in Nat
  BY DEF Piece
<1>2. X.base <= b /\ b <= X.base + Len(X.entries)
  BY DEF Knows, Top
<1>3. /\ Z.base = b /\ Z.term = TermIn(X, b)
      /\ Z.entries = SubSeq(X.entries, b - X.base + 1, Len(X.entries))
  OBVIOUS
<1>4. /\ Len(Z.entries) = Len(X.entries) - (b - X.base)
      /\ \A q \in 1..Len(Z.entries) : Z.entries[q] = X.entries[b - X.base + q]
  <2> DEFINE xs == X.entries
  <2>1. PICK a \in Nat : a = b - X.base /\ a <= Len(xs)
    BY <1>1, <1>2
  <2>2. xs \in Seq(LogEntry) /\ Z.entries = SubSeq(xs, a + 1, Len(xs))
    BY <1>1, <1>3, <2>1
  <2> HIDE DEF xs
  <2>3. /\ Len(SubSeq(xs, a + 1, Len(xs))) = Len(xs) - a
        /\ \A q \in 1..(Len(xs) - a) : SubSeq(xs, a + 1, Len(xs))[q] = xs[a + q]
    BY <2>1, <2>2, SuffixAt
  <2>4. Len(Z.entries) = Len(xs) - a /\ \A q \in 1..Len(Z.entries) : Z.entries[q] = xs[a + q]
    BY <2>2, <2>3
  <2> QED BY <2>1, <2>4 DEF xs
<1>6. ASSUME NEW n \in Nat, Knows(Z, n) PROVE SameAt(Z, X, n)
  <2>1. b <= n /\ n <= X.base + Len(X.entries)
    BY <1>1, <1>3, <1>4, <1>6 DEF Knows, Top
  <2>2. Knows(X, n)
    BY <1>1, <1>2, <2>1 DEF Knows, Top
  <2>3. CASE n = b
    BY <1>3, <2>2, <2>3 DEF SameAt, TermIn
  <2>4. CASE n > b
    <3>1. n - b \in 1..Len(Z.entries) /\ n > X.base
      <4>1. n > X.base /\ n - b \in Nat /\ n - b > 0
        BY <1>1, <1>2, <2>4
      <4>2. n - b <= Len(X.entries) - (b - X.base) /\ Len(X.entries) - (b - X.base) \in Int
        BY <1>1, <2>1
      <4>3. PICK len \in Int : len = Len(X.entries) - (b - X.base)
        BY <4>2
      <4>4. Len(Z.entries) = len /\ n - b <= len
        BY <1>4, <4>2, <4>3
      <4>5. PICK d \in Nat : d = n - b
        BY <4>1
      <4>6. d \in 1..len
        BY <4>1, <4>4, <4>5
      <4> QED BY <4>1, <4>4, <4>5, <4>6
    <3>2. Z.entries[n - b] = X.entries[b - X.base + (n - b)]
      BY <1>4, <3>1
    <3>3. b - X.base + (n - b) = n - X.base
      BY <1>1
    <3> QED BY <1>3, <2>2, <2>4, <3>1, <3>2, <3>3 DEF SameAt, TermIn, EntryIn
  <2> QED BY <2>1, <2>3, <2>4
<1> QED BY <1>6 DEF CutFrom

\* A piece is cut from itself.
LEMMA WholeCut ==
  ASSUME NEW X
  PROVE  CutFrom(X, X)
  BY DEF CutFrom, SameAt

\* So is its base alone.
LEMMA BaseCut ==
  ASSUME NEW X \in Piece, NEW Z,
         Z = [base |-> X.base, term |-> X.term, entries |-> <<>>]
  PROVE  CutFrom(Z, X)
<1>1. X.base \in Nat /\ Len(X.entries) \in Nat
  BY DEF Piece
<1>2. Z.base = X.base /\ Z.term = X.term /\ Len(Z.entries) = 0
  OBVIOUS
<1>3. ASSUME NEW n \in Nat, Knows(Z, n) PROVE SameAt(Z, X, n)
  <2>1. n = X.base
    BY <1>1, <1>2, <1>3 DEF Knows, Top
  <2> QED BY <1>1, <1>2, <2>1 DEF SameAt, Knows, Top, TermIn
<1> QED BY <1>3 DEF CutFrom

\* What AppendEntries makes of a log and a call that pass its check.
LEMMA JoinPieces ==
  ASSUME NEW X \in Piece, NEW Y \in Piece, Knows(X, Y.base), TermIn(X, Y.base) = Y.term,
         NEW Z,
         Z = [base |-> X.base, term |-> X.term,
              entries |-> SubSeq(X.entries, 1, Y.base - X.base) \o Y.entries]
  PROVE  JoinOf(Z, X, Y)
<1> DEFINE cut == Y.base - X.base
           es  == SubSeq(X.entries, 1, cut)
<1>1. /\ X.base \in Nat /\ X.entries \in Seq(LogEntry) /\ Len(X.entries) \in Nat
      /\ Y.base \in Nat /\ Y.entries \in Seq(LogEntry) /\ Len(Y.entries) \in Nat
  BY DEF Piece
<1>2. X.base <= Y.base /\ Y.base <= X.base + Len(X.entries)
  BY DEF Knows, Top
<1>3. Z.base = X.base /\ Z.term = X.term /\ Z.entries = es \o Y.entries
  OBVIOUS
<1>4. cut \in Nat /\ cut <= Len(X.entries)
  BY <1>1, <1>2
<1>5. /\ es \in Seq(LogEntry) /\ Len(es) = cut
      /\ \A q \in 1..cut : es[q] = X.entries[q]
  BY <1>1, <1>4
<1> HIDE DEF es
<1>6. /\ Len(Z.entries) = cut + Len(Y.entries)
      /\ \A q \in 1..cut : Z.entries[q] = X.entries[q]
      /\ \A q \in 1..Len(Y.entries) : Z.entries[cut + q] = Y.entries[q]
  <2> DEFINE ys == Y.entries
  <2>1. es \in Seq(LogEntry) /\ ys \in Seq(LogEntry)
    BY <1>1, <1>5
  <2> HIDE DEF ys, cut
  <2>2. /\ Len(es \o ys) = Len(es) + Len(ys)
        /\ \A q \in 1..Len(es) : (es \o ys)[q] = es[q]
        /\ \A q \in 1..Len(ys) : (es \o ys)[Len(es) + q] = ys[q]
    BY <2>1, ConcatAt
  <2>3. Z.entries = es \o ys
    BY <1>3 DEF ys
  <2>4. /\ Len(Z.entries) = cut + Len(ys)
        /\ \A q \in 1..cut : Z.entries[q] = X.entries[q]
        /\ \A q \in 1..Len(ys) : Z.entries[cut + q] = ys[q]
    BY <1>5, <2>2, <2>3
  <2> QED BY <2>4 DEF ys
<1>7. ASSUME NEW n \in Nat, Knows(Z, n), n <= Y.base PROVE SameAt(Z, X, n)
  <2>1. X.base <= n /\ Knows(X, n)
    BY <1>1, <1>2, <1>3, <1>7 DEF Knows, Top
  <2>2. CASE n = X.base
    BY <1>3, <2>1, <2>2 DEF SameAt, TermIn
  <2>3. CASE n > X.base
    <3>1. n - X.base \in 1..cut
      BY <1>1, <1>7, <2>3
    <3> QED BY <1>3, <1>6, <2>1, <2>3, <3>1 DEF SameAt, TermIn, EntryIn
  <2> QED BY <1>1, <2>1, <2>2, <2>3
<1>8. ASSUME NEW n \in Nat, Knows(Z, n), n > Y.base PROVE SameAt(Z, Y, n)
  <2>1. n <= Y.base + Len(Y.entries)
    BY <1>1, <1>3, <1>6, <1>8 DEF Knows, Top
  <2>2. Knows(Y, n) /\ n > X.base
    BY <1>1, <1>2, <1>8, <2>1 DEF Knows, Top
  <2>3. n - Y.base \in 1..Len(Y.entries) /\ n - X.base = cut + (n - Y.base)
    BY <1>1, <1>8, <2>1
  <2>4. Z.entries[n - X.base] = Y.entries[n - Y.base]
    BY <1>6, <2>3
  <2> QED BY <1>3, <1>8, <2>2, <2>4 DEF SameAt, TermIn, EntryIn
<1>9. Knows(Y, Y.base) /\ TermIn(Y, Y.base) = Y.term
  BY <1>1 DEF Knows, Top, TermIn
<1> QED BY <1>1, <1>7, <1>8, <1>9 DEF JoinOf

\* X and one entry more.
Longer(X, e) ==
    [base |-> X.base, term |-> X.term, entries |-> Append(X.entries, e)]

\* What the piece a leader's Start makes knows: the new entry, and what it knew before.
LEMMA LongerKnows ==
  ASSUME NEW X \in Piece, NEW e \in LogEntry
  PROVE  /\ Longer(X, e) \in Piece
         /\ Longer(X, e).base = X.base
         /\ Top(Longer(X, e)) = Top(X) + 1
         /\ \A n \in Nat : Knows(Longer(X, e), n) =>
               \/ n = Top(X) + 1 /\ TermIn(Longer(X, e), n) = e.term
               \/ SameAt(Longer(X, e), X, n) /\ n <= Top(X)
<1> DEFINE Z == Longer(X, e)
<1>1. X.base \in Nat /\ X.term \in Nat /\ X.entries \in Seq(LogEntry) /\ Len(X.entries) \in Nat
  BY DEF Piece
<1>2. /\ Z.base = X.base /\ Z.term = X.term /\ Z.entries = Append(X.entries, e)
      /\ Append(X.entries, e) \in Seq(LogEntry)
  BY <1>1 DEF Longer
<1>3. /\ Len(Z.entries) = Len(X.entries) + 1
      /\ Z.entries[Len(X.entries) + 1] = e
      /\ \A q \in 1..Len(X.entries) : Z.entries[q] = X.entries[q]
  BY <1>1, <1>2
<1>4. Z \in Piece
  BY <1>1, <1>2 DEF Longer, Piece
<1>5. Top(X) \in Nat /\ Top(Z) = Top(X) + 1
  BY <1>1, <1>2, <1>3 DEF Top
<1> HIDE DEF Z
<1>6. ASSUME NEW n \in Nat, Knows(Z, n)
      PROVE  \/ n = Top(X) + 1 /\ TermIn(Z, n) = e.term
             \/ SameAt(Z, X, n) /\ n <= Top(X)
  <2>1. X.base <= n /\ n <= Top(X) + 1
    BY <1>2, <1>5, <1>6 DEF Knows
  <2>2. CASE n = Top(X) + 1
    <3>1. n = X.base + Len(X.entries) + 1
      BY <2>2 DEF Top
    <3>2. n - X.base = Len(X.entries) + 1 /\ n > X.base
      <4>1. PICK b \in Nat, l \in Nat : b = X.base /\ l = Len(X.entries)
        BY <1>1
      <4>2. n = b + l + 1
        BY <3>1, <4>1
      <4>3. n - b = l + 1 /\ n > b
        BY <4>2
      <4> QED BY <4>1, <4>3
    <3> QED BY <1>2, <1>3, <2>2, <3>2 DEF TermIn
  <2>3. CASE n <= Top(X) /\ n > X.base
    <3>1. n - X.base \in 1..Len(X.entries)
      BY <1>1, <2>3 DEF Top
    <3>2. TermIn(Z, n) = TermIn(X, n) /\ EntryIn(Z, n) = EntryIn(X, n)
      BY <1>2, <1>3, <2>3, <3>1 DEF TermIn, EntryIn
    <3> QED BY <2>1, <2>3, <3>2 DEF SameAt, Knows
  <2>4. CASE n <= Top(X) /\ n = X.base
    BY <1>2, <2>4, <1>1 DEF TermIn, SameAt, Knows
  <2> QED BY <1>1, <1>5, <2>1, <2>2, <2>3, <2>4
<1> QED BY <1>2, <1>4, <1>5, <1>6 DEF Z

\* What agrees with a piece and has nothing of the term t beyond its end agrees
\* with the piece and one more entry of that term.
LEMMA LongerAgrees ==
  ASSUME NEW X \in Piece, NEW e \in LogEntry, NEW W, Agree(X, W),
         \A n \in Nat : Knows(W, n) /\ TermIn(W, n) = e.term => n <= Top(X)
  PROVE  Agree(Longer(X, e), W)
<1> DEFINE Z == Longer(X, e)
<1> SUFFICES ASSUME NEW n \in Nat, NEW m \in Nat, m <= n,
                    Knows(Z, n), Knows(W, n), Knows(Z, m), Knows(W, m),
                    TermIn(Z, n) = TermIn(W, n)
             PROVE  /\ TermIn(Z, m) = TermIn(W, m)
                    /\ m > Z.base /\ m > W.base => EntryIn(Z, m) = EntryIn(W, m)
  BY DEF Agree
<1>1. Top(X) \in Nat
  BY DEF Piece, Top
<1>2. SameAt(Z, X, n) /\ n <= Top(X)
  <2>1. n # Top(X) + 1 \/ TermIn(Z, n) # e.term
    BY <1>1
  <2> QED BY <2>1, LongerKnows
<1>3. SameAt(Z, X, m)
  <2>1. m # Top(X) + 1
    BY <1>1, <1>2
  <2> QED BY <2>1, LongerKnows
<1>4. /\ TermIn(X, m) = TermIn(W, m)
      /\ m > X.base /\ m > W.base => EntryIn(X, m) = EntryIn(W, m)
  <2> HIDE DEF Z
  <2> QED BY <1>2, <1>3 DEF SameAt, Agree
<1> HIDE DEF Z
<1> QED BY <1>3, <1>4 DEF SameAt

-----------------------------------------------------------------------------
(* What a step does to the pieces. *)

\* The pieces that exist are pieces.
LEMMA LogPiece ==
  ASSUME TypeOK, NEW i \in Server
  PROVE  /\ LogOf(i) \in Piece /\ IsPiece(LogOf(i))
         /\ LogOf(i).base = lastIncludedIndex[i] /\ LogOf(i).term = lastIncludedTerm[i]
         /\ LogOf(i).entries = log[i] /\ Top(LogOf(i)) = lastLogIndex(i)
<1>1. /\ log[i] \in Seq(LogEntry) /\ lastIncludedIndex[i] \in Nat
      /\ lastIncludedTerm[i] \in Nat
  BY DEF TypeOK
<1>2. LogOf(i) \in Piece
  BY <1>1 DEF LogOf, Piece
<1>3. IsPiece(LogOf(i))
  BY DEF IsPiece
<1> QED BY <1>2, <1>3 DEF LogOf, Top, lastLogIndex

\* The entries of an AppendEntries or InstallSnapshot request are a piece.
LEMMA CallPiece ==
  ASSUME TypeOK, NEW i \in Server, NEW j \in Server, NEW k \in DOMAIN calls[i][j],
         IsRequest(calls[i][j][k])
  PROVE  PieceOf(calls[i][j][k]) \in Piece /\ IsPiece(PieceOf(calls[i][j][k]))
<1> DEFINE c == calls[i][j][k]
<1>1. calls \in Links
  BY TypeParts
<1>2. /\ c.kind = "append" => c \in AppendRequest
      /\ c.kind = "install" => c \in InstallRequest
  BY <1>1, CallKinds
<1>3. c.kind \in {"append", "install"}
  BY DEF IsRequest
<1>4. IsPiece(PieceOf(c))
  BY DEF IsPiece, Requested
<1> HIDE DEF c
<1>5. CASE c.kind = "append"
  <2>1. c.prevLogIndex \in Nat /\ c.prevLogTerm \in Nat /\ c.entries \in Seq(LogEntry)
    BY <1>2, <1>5 DEF AppendRequest
  <2>2. PieceOf(c) \in Piece
    BY <1>5, <2>1 DEF PieceOf, Piece
  <2> QED BY <1>4, <2>2 DEF c
<1>6. CASE c.kind = "install"
  <2>1. c.lastIncludedIndex \in Nat /\ c.lastIncludedTerm \in Nat /\ <<>> \in Seq(LogEntry)
    BY <1>2, <1>6 DEF InstallRequest
  <2>2. PieceOf(c) \in Piece
    BY <1>6, <2>1 DEF PieceOf, Piece
  <2> QED BY <1>4, <2>2 DEF c
<1> QED BY <1>3, <1>5, <1>6

\* Every piece of a state has the type of a piece.
LEMMA PieceTypes ==
  ASSUME TypeOK, NEW X, IsPiece(X)
  PROVE  X \in Piece /\ X.base \in Nat /\ Top(X) \in Nat
<1>1. X \in Piece
  BY LogPiece, CallPiece DEF IsPiece, Requested
<1> QED BY <1>1 DEF Piece, Top

\* Cut from a piece that exists, or from the new one E.
FromOld(Z, E) == \E X : (IsPiece(X) \/ X = E) /\ CutFrom(Z, X)

LogsFrom(E) == \A i \in Server : FromOld(LogOf(i)', E)

\* The call c was on the link from x to y before the step.
WasCalled(x, y, c) == \E m \in DOMAIN calls[x][y] : calls[x][y][m] = c

\* The requests in flight were in flight before.
OldCalls ==
    \A i, j \in Server : \A k \in DOMAIN calls'[i][j] :
        IsRequest(calls'[i][j][k]) =>
            \E m \in DOMAIN calls[i][j] : calls[i][j][m] = calls'[i][j][k]

\* Or they carry what is cut from a piece.
CallsFrom(E) ==
    \A i, j \in Server : \A k \in DOMAIN calls'[i][j] :
        IsRequest(calls'[i][j][k]) =>
            \/ \E m \in DOMAIN calls[i][j] : calls[i][j][m] = calls'[i][j][k]
            \/ FromOld(PieceOf(calls'[i][j][k]), E)

MadeWith(E) == \A Z : IsPiece(Z)' => FromOld(Z, E)

\* A piece that was there before the step comes from an old one.
LEMMA PieceFromOld ==
  ASSUME NEW X, IsPiece(X), NEW E
  PROVE  FromOld(X, E)
  BY WholeCut DEF FromOld

\* A step's pieces come from old ones when its logs, disks and calls do.
LEMMA MadeOfParts ==
  ASSUME NEW E, LogsFrom(E), OldCalls \/ CallsFrom(E)
  PROVE  MadeWith(E)
<1> SUFFICES ASSUME NEW Z, IsPiece(Z)' PROVE FromOld(Z, E)
  BY DEF MadeWith
<1>1. ASSUME NEW i \in Server, Z = LogOf(i)' PROVE FromOld(Z, E)
  BY <1>1 DEF LogsFrom
<1>2. ASSUME NEW i \in Server, NEW j \in Server, NEW k \in DOMAIN calls'[i][j],
             IsRequest(calls'[i][j][k]), Z = PieceOf(calls'[i][j][k])
      PROVE  FromOld(Z, E)
  <2>1. CASE \E m \in DOMAIN calls[i][j] : calls[i][j][m] = calls'[i][j][k]
    <3>1. PICK m \in DOMAIN calls[i][j] : calls[i][j][m] = calls'[i][j][k]
      BY <2>1
    <3>2. IsPiece(Z)
      BY <1>2, <3>1 DEF IsPiece, Requested
    <3> QED BY <3>2, PieceFromOld
  <2> QED BY <1>2, <2>1 DEF OldCalls, CallsFrom
<1> QED BY <1>1, <1>2 DEF IsPiece, Requested

\* A log that does not change.
LEMMA SameLogs ==
  ASSUME UNCHANGED logVars, NEW E
  PROVE  LogsFrom(E)
<1>1. ASSUME NEW i \in Server PROVE FromOld(LogOf(i)', E)
  <2>1. LogOf(i)' = LogOf(i)
    BY DEF LogOf, logVars
  <2>2. IsPiece(LogOf(i))
    BY DEF IsPiece
  <2> QED BY <2>1, <2>2, PieceFromOld
<1> QED BY <1>1 DEF LogsFrom

\* One log changes, to what is cut from a piece.
LEMMA OneLog ==
  ASSUME TypeOK, NEW j \in Server, NEW E, FromOld(LogOf(j)', E),
         NEW b, NEW t, NEW es,
         lastIncludedIndex' = [lastIncludedIndex EXCEPT ![j] = b],
         lastIncludedTerm' = [lastIncludedTerm EXCEPT ![j] = t],
         log' = [log EXCEPT ![j] = es]
  PROVE  LogsFrom(E)
<1>1. ASSUME NEW i \in Server, i # j PROVE FromOld(LogOf(i)', E)
  <2>1. LogOf(i)' = LogOf(i)
    BY <1>1 DEF LogOf, TypeOK
  <2>2. IsPiece(LogOf(i))
    BY DEF IsPiece
  <2> QED BY <2>1, <2>2, PieceFromOld
<1> QED BY <1>1 DEF LogsFrom

\* Hanging up leaves no call that was not there.
LEMMA HangupKept ==
  ASSUME calls \in Links, NEW i \in Server, NEW j \in Server,
         NEW k \in DOMAIN calls[i][j], Hangup(i, j, k)
  PROVE  \A x, y \in Server : \A q \in DOMAIN calls'[x][y] : WasCalled(x, y, calls'[x][y][q])
<1> DEFINE s == calls[i][j]
<1>1. s \in Seq(Call) /\ k \in 1..Len(s) /\ DOMAIN s = 1..Len(s) /\ Len(s) \in Nat
  BY DEF Links
<1>2. calls' = [calls EXCEPT ![i][j] = RemoveAt(s, k)]
  BY DEF Hangup
<1>3. calls'[i][j] = RemoveAt(s, k)
  BY <1>2 DEF Links
<1>4. \A x, y \in Server : ~(x = i /\ y = j) => calls'[x][y] = calls[x][y]
  BY <1>2 DEF Links
<1>5. ASSUME NEW q \in DOMAIN RemoveAt(s, k)
      PROVE  \E m \in DOMAIN s : s[m] = RemoveAt(s, k)[q]
  <2> DEFINE u == SubSeq(s, 1, k - 1)
             v == SubSeq(s, k + 1, Len(s))
  <2> HIDE DEF s
  <2>0. RemoveAt(s, k) = u \o v
    BY DEF RemoveAt
  <2>1. /\ u \in Seq(Call) /\ Len(u) = k - 1
        /\ \A p \in 1..(k-1) : u[p] = s[p]
    BY <1>1
  <2>2. /\ v \in Seq(Call) /\ Len(v) = Len(s) - k
        /\ \A p \in 1..(Len(s) - k) : v[p] = s[k + p]
    <3>1. k \in Nat /\ k <= Len(s)
      BY <1>1
    <3>2. v \in Seq(Call)
      BY <1>1
    <3> QED BY <1>1, <3>1, <3>2, SuffixAt
  <2> HIDE DEF u, v
  <2>3. /\ Len(u \o v) = Len(u) + Len(v)
        /\ \A p \in 1..Len(u) : (u \o v)[p] = u[p]
        /\ \A p \in 1..Len(v) : (u \o v)[Len(u) + p] = v[p]
    <3>1. u \in Seq(Call) /\ v \in Seq(Call)
      BY <2>1, <2>2
    <3> QED BY <3>1, ConcatAt
  <2>4. q \in 1..(Len(u) + Len(v))
    BY <2>0, <2>1, <2>2, <2>3
  <2>5. CASE q <= k - 1
    <3>1. q \in 1..(k - 1) /\ q \in 1..Len(s)
      BY <1>1, <2>4, <2>5
    <3> QED BY <1>1, <2>0, <2>1, <2>3, <3>1
  <2>6. CASE q >= k
    <3>1. PICK p \in 1..(Len(s) - k) : q = (k - 1) + p
      <4>1. q - (k - 1) \in 1..(Len(s) - k) /\ q = (k - 1) + (q - (k - 1))
        BY <1>1, <2>1, <2>2, <2>4, <2>6
      <4> QED BY <4>1
    <3>2. k + p \in 1..Len(s)
      BY <1>1, <3>1
    <3>3. (u \o v)[q] = s[k + p]
      BY <2>1, <2>2, <2>3, <3>1
    <3> QED BY <1>1, <2>0, <3>2, <3>3
  <2> QED BY <1>1, <2>1, <2>2, <2>4, <2>5, <2>6
<1>6. ASSUME NEW x \in Server, NEW y \in Server, NEW q \in DOMAIN calls'[x][y]
      PROVE  \E m \in DOMAIN calls[x][y] : calls[x][y][m] = calls'[x][y][q]
  <2>1. CASE x = i /\ y = j
    BY <1>3, <1>5, <2>1
  <2> QED BY <1>4, <2>1
<1> QED BY <1>6 DEF WasCalled

\* In particular no request.
LEMMA HangupOld ==
  ASSUME calls \in Links, NEW i \in Server, NEW j \in Server,
         NEW k \in DOMAIN calls[i][j], Hangup(i, j, k)
  PROVE  OldCalls
  BY HangupKept DEF OldCalls, WasCalled

\* A reply takes the place of its request, if the caller still wants it.
LEMMA AnswerKept ==
  ASSUME calls \in Links, NEW i \in Server, NEW j \in Server,
         NEW k \in DOMAIN calls[i][j], NEW r, Answer(i, j, k, r)
  PROVE  \A x, y \in Server : \A q \in DOMAIN calls'[x][y] :
            \/ WasCalled(x, y, calls'[x][y][q])
            \/ x = i /\ y = j /\ calls'[x][y][q] = r /\ Leading(i, r)
<1>1. CASE Hangup(i, j, k)
  BY <1>1, HangupKept
<1>2. CASE Leading(i, r) /\ calls' = [calls EXCEPT ![i][j][k] = r]
  <2>1. calls[i][j] \in Seq(Call)
    BY DEF Links
  <2>2. calls'[i][j] = [calls[i][j] EXCEPT ![k] = r]
    BY <1>2 DEF Links
  <2>3. \A x, y \in Server : ~(x = i /\ y = j) => calls'[x][y] = calls[x][y]
    BY <1>2 DEF Links
  <2>4. ASSUME NEW q \in DOMAIN calls'[i][j]
        PROVE  WasCalled(i, j, calls'[i][j][q]) \/ calls'[i][j][q] = r
    <3>1. q \in DOMAIN calls[i][j]
      BY <2>1, <2>2, <2>4
    <3>2. q # k => calls'[i][j][q] = calls[i][j][q]
      BY <2>1, <2>2, <3>1
    <3>3. q = k => calls'[i][j][q] = r
      BY <2>1, <2>2, <3>1
    <3> QED BY <3>1, <3>2, <3>3 DEF WasCalled
  <2>5. ASSUME NEW x \in Server, NEW y \in Server, ~(x = i /\ y = j), NEW q \in DOMAIN calls'[x][y]
        PROVE  WasCalled(x, y, calls'[x][y][q])
    BY <2>3, <2>5 DEF WasCalled
  <2> QED BY <1>2, <2>4, <2>5
<1> QED BY <1>1, <1>2 DEF Answer

\* It makes no request.
LEMMA AnswerOld ==
  ASSUME calls \in Links, NEW i \in Server, NEW j \in Server,
         NEW k \in DOMAIN calls[i][j], NEW r, ~IsRequest(r), Answer(i, j, k, r)
  PROVE  OldCalls
  BY AnswerKept DEF OldCalls, WasCalled

\* The requests that the loop of Start() and ticker() adds.
LEMMA ReplicateKept ==
  ASSUME calls \in Links, NEW i \in Server, NEW lg, Replicate(i, lg)
  PROVE  \A x, y \in Server : \A k \in DOMAIN calls'[x][y] :
            \/ WasCalled(x, y, calls'[x][y][k])
            \/ x = i /\ y \in Peers(i) \ Behind(i) /\ calls'[x][y][k] = AppendArgs(i, y, lg)
<1>1. PICK reached \in SUBSET (Peers(i) \ Behind(i)) :
        calls' = [calls EXCEPT ![i] =
              [p \in Server |-> IF p \in reached
                                THEN Append(calls[i][p], AppendArgs(i, p, lg))
                                ELSE calls[i][p]]]
  BY DEF Replicate, Kept
<1>2. /\ \A x, y \in Server : x # i => calls'[x][y] = calls[x][y]
      /\ \A y \in Server : calls'[i][y] = IF y \in reached
                                          THEN Append(calls[i][y], AppendArgs(i, y, lg))
                                          ELSE calls[i][y]
  BY <1>1 DEF Links
<1>3. ASSUME NEW x \in Server, NEW y \in Server, NEW k \in DOMAIN calls'[x][y]
      PROVE  \/ WasCalled(x, y, calls'[x][y][k])
             \/ x = i /\ y \in reached /\ calls'[x][y][k] = AppendArgs(i, y, lg)
  <2>1. CASE calls'[x][y] = calls[x][y]
    BY <2>1 DEF WasCalled
  <2>2. CASE x = i /\ y \in reached
    <3> DEFINE s == calls[i][y]
               a == AppendArgs(i, y, lg)
    <3>1. s \in Seq(Call) /\ calls'[x][y] = Append(s, a)
      BY <1>2, <2>2 DEF Links
    <3> HIDE DEF s, a
    <3>2. /\ DOMAIN Append(s, a) = 1..(Len(s) + 1) /\ DOMAIN s = 1..Len(s) /\ Len(s) \in Nat
          /\ Append(s, a)[Len(s) + 1] = a
          /\ \A q \in 1..Len(s) : Append(s, a)[q] = s[q]
      BY <3>1
    <3>3. k \in 1..Len(s) \/ k = Len(s) + 1
      BY <3>1, <3>2
    <3>4. CASE k = Len(s) + 1
      BY <2>2, <3>1, <3>2, <3>4 DEF a
    <3>5. CASE k \in 1..Len(s)
      <4>1. calls'[x][y][k] = s[k] /\ k \in DOMAIN s
        BY <3>1, <3>2, <3>5
      <4> QED BY <2>2, <4>1 DEF s, WasCalled
    <3> QED BY <3>3, <3>4, <3>5
  <2> QED BY <1>2, <2>1, <2>2
<1> QED BY <1>3

\* The calls of Start() and ticker() carry the end of the log they run with.
LEMMA ReplicateFrom ==
  ASSUME TypeOK, NEW i \in Server, NEW lg \in Seq(LogEntry), Replicate(i, lg), NEW E,
         FromOld([base |-> lastIncludedIndex[i], term |-> lastIncludedTerm[i],
                  entries |-> lg], E)
  PROVE  CallsFrom(E)
<1> DEFINE L == [base |-> lastIncludedIndex[i], term |-> lastIncludedTerm[i], entries |-> lg]
<1>0. /\ calls \in Links /\ lastIncludedIndex[i] \in Nat /\ lastIncludedTerm[i] \in Nat
      /\ Len(lg) \in Nat
  <2>1. calls \in Links
    BY TypeParts
  <2> QED BY <2>1 DEF TypeOK
<1>1. InSlice(i, lg)
  BY DEF Replicate
<1>2. PICK X : (IsPiece(X) \/ X = E) /\ CutFrom(L, X)
  BY DEF FromOld
<1>3. ASSUME NEW p \in Peers(i) \ Behind(i) PROVE FromOld(PieceOf(AppendArgs(i, p, lg)), E)
  <2>1. PICK next \in Nat : next = nextIndex[i][p]
    BY DEF Peers, TypeOK
  <2>2. next > lastIncludedIndex[i] /\ next <= lastIncludedIndex[i] + Len(lg) + 1
    BY <1>0, <1>1, <2>1 DEF InSlice, Behind
  <2>3. PICK b \in Nat : b = next - 1
    BY <1>0, <2>2
  <2>4. lastIncludedIndex[i] <= b /\ b <= lastIncludedIndex[i] + Len(lg) /\ next = b + 1
    BY <1>0, <2>2, <2>3
  <2>5. L \in Piece /\ Knows(L, b)
    BY <1>0, <2>4 DEF Piece, Knows, Top
  <2>6. PieceOf(AppendArgs(i, p, lg)) =
           [base |-> b, term |-> TermAt(i, lg, b),
            entries |-> SubSeq(lg, next - lastIncludedIndex[i], Len(lg))]
    BY <2>1, <2>3 DEF PieceOf, AppendArgs
  <2>7. TermAt(i, lg, b) = TermIn(L, b)
    BY DEF TermAt, TermIn
  <2>8. next - lastIncludedIndex[i] = b - L.base + 1 /\ L.entries = lg
    BY <1>0, <2>4
  <2>9. PieceOf(AppendArgs(i, p, lg)) =
           [base |-> b, term |-> TermIn(L, b),
            entries |-> SubSeq(L.entries, b - L.base + 1, Len(L.entries))]
    BY <2>6, <2>7, <2>8
  <2> HIDE DEF L
  <2>10. CutFrom(PieceOf(AppendArgs(i, p, lg)), L)
    BY <2>5, <2>9, SuffixCut
  <2>11. CutFrom(PieceOf(AppendArgs(i, p, lg)), X)
    BY <1>2, <2>10, CutTwice
  <2> QED BY <1>2, <2>11 DEF FromOld
<1> QED BY <1>0, <1>3, ReplicateKept DEF CallsFrom, WasCalled

\* A step that leaves the calls alone makes no new ones.
LEMMA SameCalls ==
  ASSUME UNCHANGED calls
  PROVE  OldCalls
  BY DEF OldCalls

-----------------------------------------------------------------------------
(* What a step does to the leaders. *)

\* Nobody becomes leader, and no leader loses entries and goes on leading.
LeadersKept ==
    \A i \in Server : serverState'[i] = "leader" =>
        /\ serverState[i] = "leader" /\ currentTerm'[i] = currentTerm[i]
        /\ lastLogIndex(i)' >= lastLogIndex(i)

OthersStay(j) ==
    \A i \in Server : i # j =>
        /\ serverState'[i] = serverState[i] /\ currentTerm'[i] = currentTerm[i]
        /\ log'[i] = log[i] /\ lastIncludedIndex'[i] = lastIncludedIndex[i]

\* A step of one peer keeps the leaders when that peer stops leading or only appends,
LEMMA OneLeaves ==
  ASSUME TypeOK, NEW j \in Server, OthersStay(j),
         \/ serverState'[j] # "leader"
         \/ /\ serverState'[j] = serverState[j] /\ currentTerm'[j] = currentTerm[j]
            /\ lastLogIndex(j)' >= lastLogIndex(j)
  PROVE  LeadersKept
<1>1. ASSUME NEW i \in Server, i # j PROVE lastLogIndex(i)' = lastLogIndex(i)
  BY <1>1 DEF OthersStay, lastLogIndex
<1>2. \A i \in Server : lastLogIndex(i) >= lastLogIndex(i)
  <2>1. \A i \in Server : lastLogIndex(i) \in Nat
    BY TypeParts, LastLogType
  <2> QED BY <2>1
<1> QED BY <1>1, <1>2 DEF LeadersKept, OthersStay

\* as does one that changes no state, term or log,
LEMMA NobodyLeaves ==
  ASSUME TypeOK, UNCHANGED <<serverState, currentTerm, logVars>>
  PROVE  LeadersKept
<1>1. ASSUME NEW i \in Server PROVE lastLogIndex(i)' >= lastLogIndex(i)
  <2>1. lastLogIndex(i) \in Nat
    BY TypeParts, LastLogType
  <2>2. lastLogIndex(i)' = lastLogIndex(i)
    BY DEF lastLogIndex, logVars
  <2> QED BY <2>1, <2>2
<1> QED BY <1>1 DEF LeadersKept

\* A peer that adopts a term, or restarts, is a follower.
LEMMA AdopterLeaves ==
  ASSUME TypeOK, NEW j \in Server, NEW t, AdoptTerm(j, t),
         \A i \in Server : i # j =>
            log'[i] = log[i] /\ lastIncludedIndex'[i] = lastIncludedIndex[i]
  PROVE  LeadersKept
<1>1. OthersStay(j) /\ serverState'[j] # "leader"
  BY DEF AdoptTerm, OthersStay, TypeOK
<1> QED BY <1>1, OneLeaves

\* and a restart, after which the peer is a follower.
LEMMA RestartedLeaves ==
  ASSUME TypeOK, NEW j \in Server, NEW ps, Make(j, ps)
  PROVE  LeadersKept
<1>1. OthersStay(j) /\ serverState'[j] # "leader"
  BY DEF Make, OthersStay, TypeOK
<1> QED BY <1>1, OneLeaves

\* A restart from a current disk leaves the log as it was.
LEMMA RestartLogs ==
  ASSUME TypeOK, PersistedCurrent, NEW j \in Server, Make(j, persisted[j])
  PROVE  UNCHANGED logVars
<1>1. /\ persisted[j].log = log[j] /\ persisted[j].lastIncludedIndex = lastIncludedIndex[j]
      /\ persisted[j].lastIncludedTerm = lastIncludedTerm[j]
  <2>1. persisted[j] = RaftState(j)
    BY DEF PersistedCurrent
  <2> QED BY <2>1 DEF RaftState
<1>2. /\ log' = [log EXCEPT ![j] = log[j]]
      /\ lastIncludedIndex' = [lastIncludedIndex EXCEPT ![j] = lastIncludedIndex[j]]
      /\ lastIncludedTerm' = [lastIncludedTerm EXCEPT ![j] = lastIncludedTerm[j]]
  BY <1>1 DEF Make
<1> QED BY <1>2 DEF TypeOK, logVars

\* A step that makes nothing new and no leader.
Ordinary == LeadersKept /\ \E E : IsPiece(E) /\ MadeWith(E)

\* How a step is shown to be ordinary: its pieces come from one piece that was there.
LEMMA OrdinaryIf ==
  ASSUME NEW E, IsPiece(E), LogsFrom(E), OldCalls \/ CallsFrom(E), LeadersKept
  PROVE  Ordinary
  BY MadeOfParts DEF Ordinary

\* A step that changes no log and makes no request is ordinary.
LEMMA OrdinarySameLogs ==
  ASSUME UNCHANGED logVars, OldCalls, LeadersKept, NEW i \in Server
  PROVE  Ordinary
<1>1. IsPiece(LogOf(i))
  BY DEF IsPiece
<1>2. LogsFrom(LogOf(i))
  BY SameLogs
<1> QED BY <1>1, <1>2, OrdinaryIf

-----------------------------------------------------------------------------
(* The steps, one by one. *)

\* A step of a vote call is ordinary unless it counts a vote.
LEMMA VoteStepOrdinary ==
  ASSUME TypeOK, NEW c \in voteCalls, VoteStep(c)
  PROVE  VoteCounted(c) \/ Ordinary
<1>0. c.src \in Server /\ c.dst \in Server /\ c.term \in Nat
  BY TypeParts, VoteCallKinds
<1>1. CASE RequestVoteStale(c) \/ VoteIgnored(c)
  <2>1. UNCHANGED <<serverState, currentTerm, logVars, calls>>
    BY <1>1 DEF RequestVoteStale, VoteIgnored, termVars
  <2>2. LeadersKept
    BY <2>1, NobodyLeaves
  <2>3. OldCalls /\ UNCHANGED logVars
    BY <2>1, SameCalls
  <2> QED BY <1>0, <2>2, <2>3, OrdinarySameLogs
<1>2. CASE RequestVote(c)
  <2>1. UNCHANGED <<logVars, calls>>
    BY <1>2 DEF RequestVote
  <2>2. PICK j \in Server, t \in Nat : j = c.dst /\ t = c.term
    BY <1>0
  <2>3. /\ t >= currentTerm[j]
        /\ currentTerm' = [currentTerm EXCEPT ![j] = t]
        /\ serverState' = [serverState EXCEPT ![j] =
                             IF t > currentTerm[j] THEN "follower" ELSE serverState[j]]
    BY <1>2, <2>2 DEF RequestVote
  <2>4. OthersStay(j)
    BY <2>1, <2>3 DEF OthersStay, TypeOK, logVars
  <2>5. currentTerm[j] \in Nat /\ lastLogIndex(j) \in Nat
    BY TypeParts, LastLogType DEF PeerTypeOK
  <2>6. lastLogIndex(j)' = lastLogIndex(j)
    BY <2>1 DEF lastLogIndex, logVars
  <2>7. CASE t > currentTerm[j]
    <3>1. serverState'[j] # "leader"
      BY <2>3, <2>7 DEF TypeOK
    <3>2. LeadersKept
      BY <2>4, <3>1, OneLeaves
    <3> QED BY <2>1, <3>2, SameCalls, OrdinarySameLogs
  <2>8. CASE t = currentTerm[j]
    <3>1. serverState'[j] = serverState[j] /\ currentTerm'[j] = currentTerm[j]
      BY <2>3, <2>5, <2>8 DEF TypeOK
    <3>2. lastLogIndex(j)' >= lastLogIndex(j)
      BY <2>5, <2>6
    <3>3. LeadersKept
      BY <2>4, <3>1, <3>2, OneLeaves
    <3> QED BY <2>1, <3>3, SameCalls, OrdinarySameLogs
  <2> QED BY <2>3, <2>5, <2>7, <2>8
<1>3. CASE VoteStepDown(c)
  <2>1. AdoptTerm(c.src, c.replyTerm) /\ UNCHANGED <<logVars, calls>>
    BY <1>3 DEF VoteStepDown
  <2>2. LeadersKept
    BY <1>0, <2>1, AdopterLeaves DEF logVars
  <2> QED BY <1>0, <2>1, <2>2, SameCalls, OrdinarySameLogs
<1> QED BY <1>1, <1>2, <1>3 DEF VoteStep

\* The steps of a peer other than Start().
LEMMA ServerStepOrdinary ==
  ASSUME TypeOK, PersistedCurrent, NEW i \in Server, ServerStep(i)
  PROVE  (\E cmd \in Command : Start(i, cmd) \/ CrashInStart(i, cmd)) \/ Ordinary
<1>0. /\ PeerTypeOK /\ calls \in Links
      /\ LogOf(i) \in Piece /\ IsPiece(LogOf(i)) /\ lastLogIndex(i) \in Nat
      /\ log[i] \in Seq(LogEntry) /\ lastIncludedIndex[i] \in Nat /\ lastApplied[i] \in Nat
  <2>1. PeerTypeOK /\ calls \in Links
    BY TypeParts
  <2> QED BY <2>1, LogPiece, LastLogType DEF PeerTypeOK
<1>1. CASE doElection(i)
  <2>1. /\ UNCHANGED <<logVars, calls>>
        /\ currentTerm' = [currentTerm EXCEPT ![i] = @ + 1]
        /\ serverState' = [serverState EXCEPT ![i] = "candidate"]
    BY <1>1 DEF doElection
  <2>2. OthersStay(i) /\ serverState'[i] # "leader"
    BY <2>1 DEF OthersStay, TypeOK, logVars
  <2>3. LeadersKept
    BY <2>2, OneLeaves
  <2> QED BY <2>1, <2>3, SameCalls, OrdinarySameLogs
<1>2. CASE TickerObserve(i) \/ BackgroundApplyRoutine(i)
  <2>1. UNCHANGED <<serverState, currentTerm, logVars, calls>>
    BY <1>2 DEF TickerObserve, BackgroundApplyRoutine, termVars
  <2>2. LeadersKept
    BY <2>1, NobodyLeaves
  <2> QED BY <2>1, <2>2, SameCalls, OrdinarySameLogs
<1>3. CASE TickerSend(i)
  <2>1. UNCHANGED <<serverState, currentTerm, logVars>> /\ Replicate(i, log[i])
    BY <1>3 DEF TickerSend, termVars
  <2>2. FromOld(LogOf(i), LogOf(i))
    BY <1>0, PieceFromOld
  <2>3. CallsFrom(LogOf(i))
    BY <1>0, <2>1, <2>2, ReplicateFrom DEF LogOf
  <2>4. LogsFrom(LogOf(i))
    BY <2>1, SameLogs
  <2>5. LeadersKept
    BY <2>1, NobodyLeaves
  <2> QED BY <1>0, <2>3, <2>4, <2>5, OrdinaryIf
<1>4. CASE Crash(i)
  <2>1. Make(i, persisted[i]) /\ UNCHANGED calls
    BY <1>4 DEF Crash
  <2>2. UNCHANGED logVars /\ LeadersKept
    BY <2>1, RestartLogs, RestartedLeaves
  <2> QED BY <2>1, <2>2, SameCalls, OrdinarySameLogs
<1>5. ASSUME NEW n \in (lastIncludedIndex[i] + 1) .. lastApplied[i], CrashInSnapshot(i, n)
      PROVE  Ordinary
  <2>1. Make(i, persisted[i]) /\ UNCHANGED calls
    BY <1>5 DEF CrashInSnapshot
  <2>2. UNCHANGED logVars /\ LeadersKept
    BY <2>1, RestartLogs, RestartedLeaves
  <2> QED BY <2>1, <2>2, SameCalls, OrdinarySameLogs
<1>6. ASSUME NEW n \in (lastIncludedIndex[i] + 1) .. lastApplied[i], Snapshot(i, n)
      PROVE  Ordinary
  <2>0. n \in Nat /\ n > lastIncludedIndex[i] /\ n <= lastLogIndex(i)
    BY <1>0, <1>6 DEF Snapshot, MayCompact
  <2>1. PICK cut \in Nat : cut = n - lastIncludedIndex[i]
    BY <1>0, <2>0
  <2>2. /\ lastIncludedIndex' = [lastIncludedIndex EXCEPT ![i] = n]
        /\ lastIncludedTerm' = [lastIncludedTerm EXCEPT ![i] = log[i][cut].term]
        /\ log' = [log EXCEPT ![i] = SubSeq(log[i], cut + 1, Len(log[i]))]
        /\ UNCHANGED <<serverState, currentTerm, calls>>
    BY <1>6, <2>1 DEF Snapshot, termVars
  <2>3. /\ lastIncludedIndex'[i] = n /\ lastIncludedTerm'[i] = log[i][cut].term
        /\ log'[i] = SubSeq(log[i], cut + 1, Len(log[i]))
    BY <2>2 DEF TypeOK
  <2>4. /\ LogOf(i).base = lastIncludedIndex[i] /\ LogOf(i).entries = log[i]
        /\ Top(LogOf(i)) = lastLogIndex(i)
    BY LogPiece
  <2>5. Knows(LogOf(i), n) /\ TermIn(LogOf(i), n) = log[i][cut].term
    BY <1>0, <2>0, <2>1, <2>4 DEF Knows, TermIn
  <2>6. LogOf(i)' = [base |-> n, term |-> TermIn(LogOf(i), n),
                     entries |-> SubSeq(LogOf(i).entries, n - LogOf(i).base + 1,
                                        Len(LogOf(i).entries))]
    <3>1. LogOf(i)' = [base |-> n, term |-> log[i][cut].term,
                       entries |-> SubSeq(log[i], cut + 1, Len(log[i]))]
      BY <2>3 DEF LogOf
    <3> QED BY <2>1, <2>4, <2>5, <3>1
  <2>7. CutFrom(LogOf(i)', LogOf(i))
    BY <1>0, <2>0, <2>5, <2>6, SuffixCut
  <2>8. FromOld(LogOf(i)', LogOf(i))
    BY <1>0, <2>7 DEF FromOld
  <2>9. LogsFrom(LogOf(i))
    BY <2>2, <2>8, OneLog
  <2>10. OthersStay(i)
    BY <2>2 DEF OthersStay, TypeOK
  <2>11. lastLogIndex(i)' >= lastLogIndex(i)
    <3>1. cut <= Len(log[i]) /\ Len(log[i]) \in Nat
      BY <1>0, <2>0, <2>1 DEF lastLogIndex
    <3>2. Len(SubSeq(log[i], cut + 1, Len(log[i]))) = Len(log[i]) - cut
      BY <1>0, <3>1, SuffixAt
    <3>3. lastLogIndex(i)' = n + (Len(log[i]) - cut)
      BY <2>3, <3>2 DEF lastLogIndex
    <3> QED BY <1>0, <2>0, <2>1, <3>1, <3>3 DEF lastLogIndex
  <2>12. LeadersKept
    BY <2>2, <2>10, <2>11, OneLeaves
  <2> QED BY <1>0, <2>2, <2>9, <2>12, SameCalls, OrdinaryIf
<1>7. ASSUME NEW p \in Peers(i), SendInstallSnapshot(i, p) PROVE Ordinary
  <2>1. UNCHANGED <<serverState, currentTerm, logVars>>
    BY <1>7 DEF SendInstallSnapshot, termVars
  <2>2. LeadersKept
    BY <2>1, NobodyLeaves
  <2>3. CASE UNCHANGED calls
    BY <2>1, <2>2, <2>3, SameCalls, OrdinarySameLogs
  <2>4. CASE ~UNCHANGED calls
    <3> DEFINE c == [kind |-> "install", term |-> currentTerm[i],
                     lastIncludedIndex |-> lastIncludedIndex[i],
                     lastIncludedTerm |-> lastIncludedTerm[i],
                     data |-> snapshot[i]]
    <3>1. calls' = [calls EXCEPT ![i][p] = Append(@, c)]
      BY <1>7, <2>4 DEF SendInstallSnapshot
    <3>2. PieceOf(c) = [base |-> LogOf(i).base, term |-> LogOf(i).term, entries |-> <<>>]
      BY LogPiece DEF PieceOf
    <3> HIDE DEF c
    <3>3. CutFrom(PieceOf(c), LogOf(i))
      BY <1>0, <3>2, BaseCut
    <3>4. FromOld(PieceOf(c), LogOf(i))
      BY <1>0, <3>3 DEF FromOld
    <3>5. CallsFrom(LogOf(i))
      <4>0. p \in Server
        BY DEF Peers
      <4>1. /\ \A x, y \in Server : ~(x = i /\ y = p) => calls'[x][y] = calls[x][y]
            /\ calls'[i][p] = Append(calls[i][p], c)
            /\ calls[i][p] \in Seq(Call)
        BY <1>0, <3>1, <4>0 DEF Links
      <4>2. ASSUME NEW k \in DOMAIN calls'[i][p]
            PROVE  \/ \E m \in DOMAIN calls[i][p] : calls[i][p][m] = calls'[i][p][k]
                   \/ calls'[i][p][k] = c
        BY <4>1
      <4> QED BY <3>4, <4>1, <4>2 DEF CallsFrom
    <3>6. LogsFrom(LogOf(i))
      BY <2>1, SameLogs
    <3> QED BY <1>0, <2>2, <3>5, <3>6, OrdinaryIf
  <2> QED BY <2>3, <2>4
<1> QED BY <1>1, <1>2, <1>3, <1>4, <1>5, <1>6, <1>7 DEF ServerStep

\* A peer takes what an InstallSnapshot call names for its log.
LEMMA TakenOver ==
  ASSUME TypeOK, NEW i \in Server, NEW j \in Server, NEW k \in DOMAIN calls[i][j],
         Installs(i, j, k),
         lastIncludedIndex' = [lastIncludedIndex EXCEPT
                                 ![j] = calls[i][j][k].lastIncludedIndex],
         lastIncludedTerm' = [lastIncludedTerm EXCEPT
                                 ![j] = calls[i][j][k].lastIncludedTerm],
         log' = [log EXCEPT ![j] = <<>>]
  PROVE  \E E : IsPiece(E) /\ LogsFrom(E)
<1> DEFINE a == calls[i][j][k]
<1>1. IsRequest(a) /\ a.kind = "install"
  BY DEF Installs, Deliverable
<1>2. IsPiece(PieceOf(a))
  BY <1>1, CallPiece
<1>3. LogOf(j)' = PieceOf(a)
  <2>1. /\ lastIncludedIndex'[j] = a.lastIncludedIndex
        /\ lastIncludedTerm'[j] = a.lastIncludedTerm /\ log'[j] = <<>>
    BY DEF TypeOK
  <2> QED BY <1>1, <2>1 DEF LogOf, PieceOf
<1>4. FromOld(LogOf(j)', PieceOf(a))
  BY <1>2, <1>3, PieceFromOld
<1>5. LogsFrom(PieceOf(a))
  BY <1>4, OneLog
<1> QED BY <1>2, <1>5

\* The steps on a call other than a successful AppendEntries.
LEMMA CallStepOrdinary ==
  ASSUME TypeOK, NEW i \in Server, NEW j \in Server, NEW k \in DOMAIN calls[i][j],
         CallStep(i, j, k)
  PROVE  AppendEntries(i, j, k) \/ Ordinary
<1> DEFINE a == calls[i][j][k]
<1>0. calls \in Links
  BY TypeParts
<1>1. CASE \/ AppendSucceeded(i, j, k) \/ AppendRefused(i, j, k)
           \/ InstallSucceeded(i, j, k) \/ ReplyIgnored(i, j, k)
  <2>1. UNCHANGED <<serverState, currentTerm, logVars>> /\ Hangup(i, j, k)
    BY <1>1 DEF AppendSucceeded, AppendRefused, InstallSucceeded, ReplyIgnored, termVars
  <2>2. OldCalls /\ LeadersKept
    BY <1>0, <2>1, HangupOld, NobodyLeaves
  <2> QED BY <2>1, <2>2, OrdinarySameLogs
<1>2. CASE ReplyStepDown(i, j, k)
  <2>1. UNCHANGED logVars /\ Hangup(i, j, k) /\ AdoptTerm(i, a.replyTerm)
    BY <1>2 DEF ReplyStepDown
  <2>2. LeadersKept
    BY <2>1, AdopterLeaves DEF logVars
  <2>3. OldCalls
    BY <1>0, <2>1, HangupOld
  <2> QED BY <2>1, <2>2, <2>3, OrdinarySameLogs
<1>3. CASE AppendEntriesStale(i, j, k)
  <2> DEFINE r == AppendReply(a, currentTerm[j], FALSE, 0, 0, 0)
  <2>1. UNCHANGED <<serverState, currentTerm, logVars>> /\ Answer(i, j, k, r)
    BY <1>3 DEF AppendEntriesStale, termVars
  <2>2. ~IsRequest(r)
    BY DEF AppendReply, IsRequest
  <2> HIDE DEF r
  <2>3. OldCalls /\ LeadersKept
    BY <1>0, <2>1, <2>2, AnswerOld, NobodyLeaves
  <2> QED BY <2>1, <2>3, OrdinarySameLogs
<1>4. CASE AppendEntriesMismatch(i, j, k)
  <2>1. UNCHANGED logVars /\ AdoptTerm(j, a.term)
    BY <1>4 DEF AppendEntriesMismatch
  <2>2. \E x, y, z : Answer(i, j, k, AppendReply(a, currentTerm[j], FALSE, x, y, z))
    BY <1>4 DEF AppendEntriesMismatch
  <2>3. PICK x, y, z : Answer(i, j, k, AppendReply(a, currentTerm[j], FALSE, x, y, z))
    BY <2>2
  <2>4. ~IsRequest(AppendReply(a, currentTerm[j], FALSE, x, y, z))
    BY DEF AppendReply, IsRequest
  <2>5. OldCalls
    BY <1>0, <2>3, <2>4, AnswerOld
  <2>6. LeadersKept
    BY <2>1, AdopterLeaves DEF logVars
  <2> QED BY <2>1, <2>5, <2>6, OrdinarySameLogs
<1>5. CASE InstallSnapshotEarly(i, j, k)
  <2> DEFINE r == InstallReply(a, currentTerm[j])
  <2>1. /\ UNCHANGED logVars /\ Answer(i, j, k, r)
        /\ UNCHANGED termVars \/ AdoptTerm(j, a.term)
    BY <1>5 DEF InstallSnapshotEarly
  <2>2. ~IsRequest(r)
    BY DEF InstallReply, IsRequest
  <2> HIDE DEF r
  <2>3. OldCalls
    BY <1>0, <2>1, <2>2, AnswerOld
  <2>4. CASE UNCHANGED termVars
    <3>1. LeadersKept
      BY <2>1, <2>4, NobodyLeaves DEF termVars
    <3> QED BY <2>1, <2>3, <3>1, OrdinarySameLogs
  <2>5. CASE AdoptTerm(j, a.term)
    <3>1. LeadersKept
      BY <2>1, <2>5, AdopterLeaves DEF logVars
    <3> QED BY <2>1, <2>3, <3>1, OrdinarySameLogs
  <2> QED BY <2>1, <2>4, <2>5
<1>6. CASE InstallSnapshot(i, j, k)
  <2> DEFINE r == InstallReply(a, a.term)
  <2>1. /\ Installs(i, j, k) /\ AdoptTerm(j, a.term) /\ Answer(i, j, k, r)
        /\ lastIncludedIndex' = [lastIncludedIndex EXCEPT ![j] = a.lastIncludedIndex]
        /\ lastIncludedTerm' = [lastIncludedTerm EXCEPT ![j] = a.lastIncludedTerm]
        /\ log' = [log EXCEPT ![j] = <<>>]
    BY <1>6 DEF InstallSnapshot
  <2>2. ~IsRequest(r)
    BY DEF InstallReply, IsRequest
  <2> HIDE DEF r
  <2>3. OldCalls
    BY <1>0, <2>1, <2>2, AnswerOld
  <2>4. \A p \in Server : p # j =>
           log'[p] = log[p] /\ lastIncludedIndex'[p] = lastIncludedIndex[p]
    BY <2>1 DEF TypeOK
  <2>5. LeadersKept
    BY <2>1, <2>4, AdopterLeaves
  <2>6. PICK E : IsPiece(E) /\ LogsFrom(E)
    BY <2>1, TakenOver
  <2> QED BY <2>3, <2>5, <2>6, OrdinaryIf
<1>7. CASE CrashInInstall(i, j, k)
  <2> DEFINE ps == [votedFor |-> IF a.term > currentTerm[j] THEN NoVote ELSE votedFor[j],
                    currentTerm |-> a.term, log |-> <<>>,
                    lastIncludedIndex |-> a.lastIncludedIndex,
                    lastIncludedTerm |-> a.lastIncludedTerm]
  <2>1. Installs(i, j, k) /\ Make(j, ps) /\ Hangup(i, j, k)
    BY <1>7 DEF CrashInInstall
  <2>2. /\ ps.log = <<>> /\ ps.lastIncludedIndex = a.lastIncludedIndex
        /\ ps.lastIncludedTerm = a.lastIncludedTerm
    OBVIOUS
  <2> HIDE DEF ps
  <2>3. /\ lastIncludedIndex' = [lastIncludedIndex EXCEPT ![j] = a.lastIncludedIndex]
        /\ lastIncludedTerm' = [lastIncludedTerm EXCEPT ![j] = a.lastIncludedTerm]
        /\ log' = [log EXCEPT ![j] = <<>>]
    BY <2>1, <2>2 DEF Make
  <2>4. OldCalls /\ LeadersKept
    BY <1>0, <2>1, HangupOld, RestartedLeaves
  <2>5. PICK E : IsPiece(E) /\ LogsFrom(E)
    BY <2>1, <2>3, TakenOver
  <2> QED BY <2>4, <2>5, OrdinaryIf
<1> QED BY <1>1, <1>2, <1>3, <1>4, <1>5, <1>6, <1>7 DEF CallStep

-----------------------------------------------------------------------------
(* What is made out of pieces that agree agrees. *)

\* If what a step makes agrees with all that was there, all pieces agree after it.
LEMMA MadeAgree ==
  ASSUME PiecesAgree, NEW E, MadeWith(E), \A W : IsPiece(W) => Agree(E, W)
  PROVE  PiecesAgree'
<1> SUFFICES ASSUME NEW X, NEW Y, IsPiece(X)', IsPiece(Y)' PROVE Agree(X, Y)
  BY DEF PiecesAgree
<1>1. PICK U : (IsPiece(U) \/ U = E) /\ CutFrom(X, U)
  BY DEF MadeWith, FromOld
<1>2. PICK V : (IsPiece(V) \/ V = E) /\ CutFrom(Y, V)
  BY DEF MadeWith, FromOld
<1>3. Agree(U, V)
  <2>1. CASE IsPiece(U) /\ IsPiece(V)
    BY <2>1 DEF PiecesAgree
  <2>2. CASE U = E /\ IsPiece(V)
    BY <2>2
  <2>3. CASE IsPiece(U) /\ V = E
    BY <2>3, AgreeSymmetric
  <2>4. CASE U = E /\ V = E
    BY <2>4, AgreeReflexive
  <2> QED BY <1>1, <1>2, <2>1, <2>2, <2>3, <2>4
<1>4. Agree(X, V)
  BY <1>1, <1>3, CutAgrees
<1>5. Agree(V, X)
  BY <1>4, AgreeSymmetric
<1>6. Agree(Y, X)
  BY <1>2, <1>5, CutAgrees
<1> QED BY <1>6, AgreeSymmetric

\* The terms of entries stay terms of elected leaders if those of the new piece are.
LEMMA MadeElected ==
  ASSUME TermsElected, elected \subseteq elected', NEW E, MadeWith(E),
         \A n \in Nat : n # 0 /\ Knows(E, n) =>
            \E s \in Server : <<TermIn(E, n), s>> \in elected'
  PROVE  TermsElected'
<1> SUFFICES ASSUME NEW X, IsPiece(X)', NEW n \in Nat, n # 0, Knows(X, n)
             PROVE  \E s \in Server : <<TermIn(X, n), s>> \in elected'
  BY DEF TermsElected
<1>1. PICK U : (IsPiece(U) \/ U = E) /\ CutFrom(X, U)
  BY DEF MadeWith, FromOld
<1>2. Knows(U, n) /\ TermIn(X, n) = TermIn(U, n)
  BY <1>1 DEF CutFrom, SameAt
<1>3. CASE IsPiece(U)
  <2>1. PICK s \in Server : <<TermIn(U, n), s>> \in elected
    BY <1>2, <1>3 DEF TermsElected
  <2> QED BY <1>2, <2>1
<1> QED BY <1>1, <1>2, <1>3

\* Nothing of the term t lies beyond the index m in X.
Within(X, t, m) == \A n \in Nat : Knows(X, n) /\ TermIn(X, n) = t => n <= m

\* Leaders stay ahead of their term's entries if they are of the new piece's.
LEMMA MadeAhead ==
  ASSUME NEW E, MadeWith(E),
         \A i \in Server : serverState'[i] = "leader" =>
            \A X : IsPiece(X) \/ X = E => Within(X, currentTerm'[i], lastLogIndex(i)')
  PROVE  LeaderAhead'
<1> SUFFICES ASSUME NEW i \in Server, serverState'[i] = "leader", NEW X, IsPiece(X)',
                    NEW n \in Nat, Knows(X, n), TermIn(X, n) = currentTerm'[i]
             PROVE  n <= lastLogIndex(i)'
  BY DEF LeaderAhead
<1>1. PICK U : (IsPiece(U) \/ U = E) /\ CutFrom(X, U)
  BY DEF MadeWith, FromOld
<1>2. Knows(U, n) /\ TermIn(X, n) = TermIn(U, n)
  BY <1>1 DEF CutFrom, SameAt
<1>3. Within(U, currentTerm'[i], lastLogIndex(i)')
  BY <1>1
<1> QED BY <1>2, <1>3 DEF Within

\* A leader that stays one is as far ahead of the old pieces as before.
LEMMA KeptAhead ==
  ASSUME TypeOK, TypeOK', LeaderAhead, LeadersKept, NEW i \in Server,
         serverState'[i] = "leader", NEW X, IsPiece(X)
  PROVE  Within(X, currentTerm'[i], lastLogIndex(i)')
<1>1. /\ serverState[i] = "leader" /\ currentTerm'[i] = currentTerm[i]
      /\ lastLogIndex(i)' >= lastLogIndex(i)
  BY DEF LeadersKept
<1>2. lastLogIndex(i) \in Nat
  BY TypeParts, LastLogType
<1>3. lastLogIndex(i)' \in Nat
  <2>1. log'[i] \in Seq(LogEntry) /\ lastIncludedIndex'[i] \in Nat
    BY DEF TypeOK
  <2> QED BY <2>1 DEF lastLogIndex
<1>4. ASSUME NEW n \in Nat, Knows(X, n), TermIn(X, n) = currentTerm'[i]
      PROVE  n <= lastLogIndex(i)'
  <2>1. n <= lastLogIndex(i)
    BY <1>1, <1>4 DEF LeaderAhead
  <2> QED BY <1>1, <1>2, <1>3, <2>1
<1> QED BY <1>4 DEF Within

\* An ordinary step keeps the parts of the invariant about logs.
LEMMA OrdinaryKeeps ==
  ASSUME TypeOK, TypeOK', PiecesAgree, TermsElected, LeaderAhead, Ordinary,
         elected \subseteq elected'
  PROVE  PiecesAgree' /\ TermsElected' /\ LeaderAhead'
<1>1. PICK E : IsPiece(E) /\ MadeWith(E)
  BY DEF Ordinary
<1>2. PiecesAgree'
  <2>1. \A W : IsPiece(W) => Agree(E, W)
    BY <1>1 DEF PiecesAgree
  <2> QED BY <1>1, <2>1, MadeAgree
<1>3. TermsElected'
  <2>1. ASSUME NEW n \in Nat, n # 0, Knows(E, n)
        PROVE  \E s \in Server : <<TermIn(E, n), s>> \in elected'
    <3>1. PICK s \in Server : <<TermIn(E, n), s>> \in elected
      BY <1>1, <2>1 DEF TermsElected
    <3> QED BY <3>1
  <2> QED BY <1>1, <2>1, MadeElected
<1>4. LeaderAhead'
  <2>1. LeadersKept
    BY DEF Ordinary
  <2>2. ASSUME NEW i \in Server, serverState'[i] = "leader", NEW X, IsPiece(X) \/ X = E
        PROVE  Within(X, currentTerm'[i], lastLogIndex(i)')
    BY <1>1, <2>1, <2>2, KeptAhead
  <2> QED BY <1>1, <2>2, MadeAhead
<1> QED BY <1>2, <1>3, <1>4

\* AppendEntries: the new log is the old one up to prevLogIndex and then the
\* entries of the call, and both have prevLogTerm at prevLogIndex.
LEMMA AppendJoins ==
  ASSUME TypeOK, NEW i \in Server, NEW j \in Server, NEW k \in DOMAIN calls[i][j],
         AppendEntries(i, j, k)
  PROVE  /\ MadeWith(LogOf(j)')
         /\ \E X, Y : /\ IsPiece(X) /\ IsPiece(Y) /\ Y.base \in Nat
                      /\ JoinOf(LogOf(j)', X, Y)
<1> DEFINE a == calls[i][j][k]
           X == LogOf(j)
           Y == PieceOf(a)
           E == LogOf(j)'
<1>0. calls \in Links
  BY TypeParts
<1>1. /\ IsRequest(a) /\ a.kind = "append" /\ PrevMatches(j, a)
      /\ AdoptTerm(j, a.term)
      /\ log' = [log EXCEPT ![j] = SubSeq(log[j], 1, a.prevLogIndex - lastIncludedIndex[j])
                                     \o a.entries]
      /\ Answer(i, j, k, AppendReply(a, a.term, TRUE, 0, 0, 0))
      /\ UNCHANGED <<lastIncludedIndex, lastIncludedTerm>>
  BY DEF AppendEntries, Deliverable
<1>2. /\ X \in Piece /\ IsPiece(X) /\ X.base = lastIncludedIndex[j]
      /\ X.term = lastIncludedTerm[j] /\ X.entries = log[j] /\ Top(X) = lastLogIndex(j)
  BY LogPiece
<1>3. Y \in Piece /\ IsPiece(Y)
  BY <1>1, CallPiece
<1>4. Y.base = a.prevLogIndex /\ Y.term = a.prevLogTerm /\ Y.entries = a.entries
  BY <1>1 DEF PieceOf
<1>5. JoinOf(E, X, Y)
  <2>1. E = [base |-> X.base, term |-> X.term,
             entries |-> SubSeq(X.entries, 1, Y.base - X.base) \o Y.entries]
    <3>1. /\ lastIncludedIndex'[j] = lastIncludedIndex[j]
          /\ lastIncludedTerm'[j] = lastIncludedTerm[j]
          /\ log'[j] = SubSeq(log[j], 1, a.prevLogIndex - lastIncludedIndex[j]) \o a.entries
      BY <1>1 DEF TypeOK
    <3>2. E = [base |-> lastIncludedIndex[j], term |-> lastIncludedTerm[j],
               entries |-> SubSeq(log[j], 1, a.prevLogIndex - lastIncludedIndex[j]) \o a.entries]
      BY <3>1 DEF LogOf
    <3> HIDE DEF E, X, Y, a
    <3> QED BY <1>2, <1>4, <3>2
  <2>2. Knows(X, Y.base) /\ TermIn(X, Y.base) = Y.term
    <3>1. /\ a.prevLogIndex \in lastIncludedIndex[j] .. lastLogIndex(j)
          /\ TermAt(j, log[j], a.prevLogIndex) = a.prevLogTerm
      BY <1>1 DEF PrevMatches
    <3>2. lastIncludedIndex[j] \in Nat /\ lastLogIndex(j) \in Nat
      BY TypeParts, LastLogType DEF PeerTypeOK
    <3> HIDE DEF X, Y, a
    <3>3. lastIncludedIndex[j] <= a.prevLogIndex /\ a.prevLogIndex <= lastLogIndex(j)
      BY <3>1, <3>2
    <3> QED BY <1>2, <1>4, <3>1, <3>3 DEF Knows, TermIn, TermAt
  <2> HIDE DEF E, X, Y
  <2> QED BY <1>2, <1>3, <2>1, <2>2, JoinPieces
<1>6. MadeWith(E)
  <2>1. FromOld(LogOf(j)', E)
    BY WholeCut DEF FromOld
  <2>2. /\ lastIncludedIndex' = [lastIncludedIndex EXCEPT ![j] = lastIncludedIndex[j]]
        /\ lastIncludedTerm' = [lastIncludedTerm EXCEPT ![j] = lastIncludedTerm[j]]
    BY <1>1 DEF TypeOK
  <2> HIDE DEF E
  <2>3. LogsFrom(E)
    BY <1>1, <2>1, <2>2, OneLog
  <2>4. ~IsRequest(AppendReply(a, a.term, TRUE, 0, 0, 0))
    BY DEF AppendReply, IsRequest
  <2>5. OldCalls
    BY <1>0, <1>1, <2>4, AnswerOld
  <2> QED BY <2>3, <2>5, MadeOfParts
<1>7. Y.base \in Nat
  BY <1>3 DEF Piece
<1> HIDE DEF E, X, Y
<1> QED BY <1>2, <1>3, <1>5, <1>6, <1>7 DEF E

\* What is joined of pieces that agree agrees.
LEMMA AppendEntriesKeeps ==
  ASSUME TypeOK, TypeOK', PiecesAgree, TermsElected, LeaderAhead,
         NEW i \in Server, NEW j \in Server, NEW k \in DOMAIN calls[i][j],
         AppendEntries(i, j, k), elected \subseteq elected'
  PROVE  PiecesAgree' /\ TermsElected' /\ LeaderAhead'
<1> DEFINE E == LogOf(j)'
<1>1. LeadersKept
  <2>1. /\ AdoptTerm(j, calls[i][j][k].term) /\ UNCHANGED lastIncludedIndex
        /\ \A p \in Server : p # j => log'[p] = log[p]
    BY DEF AppendEntries, TypeOK
  <2> QED BY <2>1, AdopterLeaves
<1> HIDE DEF E
<1>2. MadeWith(E)
  BY AppendJoins DEF E
<1>3. PICK X, Y : IsPiece(X) /\ IsPiece(Y) /\ Y.base \in Nat /\ JoinOf(E, X, Y)
  BY AppendJoins DEF E
<1>4. \A n \in Nat : Knows(E, n) => \E U : IsPiece(U) /\ SameAt(E, U, n)
  BY <1>3 DEF JoinOf
<1>5. PiecesAgree'
  <2>1. ASSUME NEW W, IsPiece(W) PROVE Agree(E, W)
    <3>1. W.base \in Nat /\ Top(W) \in Nat
      BY <2>1, PieceTypes
    <3>2. Agree(X, W) /\ Agree(Y, W)
      BY <1>3, <2>1 DEF PiecesAgree
    <3> QED BY <1>3, <3>1, <3>2, JoinAgrees
  <2> QED BY <1>2, <2>1, MadeAgree
<1>6. TermsElected'
  <2>1. ASSUME NEW n \in Nat, n # 0, Knows(E, n)
        PROVE  \E s \in Server : <<TermIn(E, n), s>> \in elected'
    <3>1. PICK U : IsPiece(U) /\ Knows(U, n) /\ TermIn(E, n) = TermIn(U, n)
      BY <1>4, <2>1 DEF SameAt
    <3>2. PICK s \in Server : <<TermIn(U, n), s>> \in elected
      BY <2>1, <3>1 DEF TermsElected
    <3> QED BY <3>1, <3>2
  <2> QED BY <1>2, <2>1, MadeElected
<1>7. LeaderAhead'
  <2>1. ASSUME NEW p \in Server, serverState'[p] = "leader", NEW W, IsPiece(W) \/ W = E
        PROVE  Within(W, currentTerm'[p], lastLogIndex(p)')
    <3>1. CASE IsPiece(W)
      BY <1>1, <2>1, <3>1, KeptAhead
    <3>2. CASE W = E
      <4>1. ASSUME NEW n \in Nat, Knows(E, n), TermIn(E, n) = currentTerm'[p]
            PROVE  n <= lastLogIndex(p)'
        <5>1. PICK U : IsPiece(U) /\ Knows(U, n) /\ TermIn(E, n) = TermIn(U, n)
          BY <1>4, <4>1 DEF SameAt
        <5>2. Within(U, currentTerm'[p], lastLogIndex(p)')
          BY <1>1, <2>1, <5>1, KeptAhead
        <5> QED BY <4>1, <5>1, <5>2 DEF Within
      <4> QED BY <3>2, <4>1 DEF Within
    <3> QED BY <2>1, <3>1, <3>2
  <2> QED BY <1>2, <2>1, MadeAhead
<1> QED BY <1>5, <1>6, <1>7

\* Start(), whether it ends or a crash cuts it off before its save: the log
\* and the calls are made of the leader's log and one more entry of its term.
LEMMA StartMakes ==
  ASSUME TypeOK, PersistedCurrent, NEW i \in Server, NEW cmd \in Command,
         Start(i, cmd) \/ CrashInStart(i, cmd),
         NEW E, E = Longer(LogOf(i), NewEntry(i, cmd))
  PROVE  /\ MadeWith(E) /\ LeadersKept
         /\ \/ LogOf(i)' = E /\ lastLogIndex(i)' = Top(LogOf(i)) + 1
            \/ serverState'[i] # "leader"
<1> DEFINE e == NewEntry(i, cmd)
           lg == Append(log[i], e)
           X == LogOf(i)
<1>0. /\ serverState[i] = "leader" /\ Replicate(i, lg)
      /\ currentTerm[i] \in Nat /\ log[i] \in Seq(LogEntry)
  BY DEF Start, CrashInStart, TypeOK
<1>1. e \in LogEntry /\ e.term = currentTerm[i]
  BY <1>0 DEF NewEntry, LogEntry
<1>2. /\ X \in Piece /\ IsPiece(X) /\ X.base = lastIncludedIndex[i]
      /\ X.term = lastIncludedTerm[i] /\ X.entries = log[i] /\ Top(X) = lastLogIndex(i)
      /\ Top(X) \in Nat
  BY LogPiece, PieceTypes
<1>3. E = [base |-> lastIncludedIndex[i], term |-> lastIncludedTerm[i], entries |-> lg]
  BY <1>2 DEF Longer
<1> HIDE DEF e, X
<1>4. lg \in Seq(LogEntry)
  BY <1>0, <1>1
<1> HIDE DEF lg
<1>5. FromOld(E, E)
  BY WholeCut DEF FromOld
<1>6. CallsFrom(E)
  BY <1>0, <1>3, <1>4, <1>5, ReplicateFrom
<1>7. /\ LogsFrom(E) /\ LeadersKept
      /\ \/ LogOf(i)' = E /\ lastLogIndex(i)' = Top(X) + 1
         \/ serverState'[i] # "leader"
  <2>1. CASE Start(i, cmd)
    <3>1. log' = [log EXCEPT ![i] = lg] /\ UNCHANGED <<lastIncludedIndex, lastIncludedTerm, termVars>>
      BY <2>1 DEF Start, lg, e
    <3>2. log'[i] = lg /\ lastIncludedIndex'[i] = lastIncludedIndex[i] 
             /\ lastIncludedTerm'[i] = lastIncludedTerm[i]
      BY <3>1 DEF TypeOK
    <3>3. LogOf(i)' = E
      BY <1>3, <3>2 DEF LogOf
    <3>4. /\ lastIncludedIndex' = [lastIncludedIndex EXCEPT ![i] = lastIncludedIndex[i]]
          /\ lastIncludedTerm' = [lastIncludedTerm EXCEPT ![i] = lastIncludedTerm[i]]
      BY <3>1 DEF TypeOK
    <3>5. LogsFrom(E)
      BY <1>5, <3>1, <3>3, <3>4, OneLog
    <3>6. lastLogIndex(i)' = Top(X) + 1
      <4>1. Len(lg) = Len(log[i]) + 1 /\ Len(log[i]) \in Nat /\ lastIncludedIndex[i] \in Nat
        BY <1>0 DEF lg, TypeOK
      <4> QED BY <1>2, <3>2, <4>1 DEF lastLogIndex
    <3>7. LeadersKept
      <4>1. OthersStay(i) /\ serverState'[i] = serverState[i] /\ currentTerm'[i] = currentTerm[i]
        BY <3>1 DEF OthersStay, termVars, TypeOK
      <4>2. lastLogIndex(i)' >= lastLogIndex(i)
        BY <1>2, <3>6
      <4> QED BY <4>1, <4>2, OneLeaves
    <3> QED BY <3>3, <3>5, <3>6, <3>7
  <2>2. CASE CrashInStart(i, cmd)
    <3>1. Make(i, persisted[i])
      BY <2>2 DEF CrashInStart
    <3>2. UNCHANGED logVars /\ LeadersKept
      BY <3>1, RestartLogs, RestartedLeaves
    <3>3. serverState'[i] # "leader"
      BY <3>1 DEF Make, TypeOK
    <3> QED BY <3>2, <3>3, SameLogs
  <2> QED BY <2>1, <2>2
<1>8. MadeWith(E)
  BY <1>6, <1>7, MadeOfParts
<1> QED BY <1>7, <1>8 DEF X

\* No piece has the leader's term at the new index, and no other leader is of
\* the term.
LEMMA StartKeeps ==
  ASSUME TypeOK, TypeOK', PersistedCurrent, LogInv, ElectionSafety,
         NEW i \in Server, NEW cmd \in Command, Start(i, cmd) \/ CrashInStart(i, cmd),
         elected \subseteq elected'
  PROVE  PiecesAgree' /\ TermsElected' /\ LeaderAhead'
<1> DEFINE e == NewEntry(i, cmd)
           X == LogOf(i)
           E == Longer(X, e)
<1>0. serverState[i] = "leader" /\ currentTerm[i] \in Nat
  BY DEF Start, CrashInStart, TypeOK
<1>1. e \in LogEntry /\ e.term = currentTerm[i]
  BY <1>0 DEF NewEntry, LogEntry
<1>2. /\ X \in Piece /\ IsPiece(X) /\ Top(X) = lastLogIndex(i) /\ Top(X) \in Nat
  BY LogPiece, PieceTypes
<1>3. /\ MadeWith(E) /\ LeadersKept
      /\ lastLogIndex(i)' = Top(X) + 1 \/ serverState'[i] # "leader"
  BY StartMakes
<1> HIDE DEF e, X, E
<1>4. /\ E \in Piece
      /\ \A n \in Nat : Knows(E, n) =>
            \/ n = Top(X) + 1 /\ TermIn(E, n) = e.term
            \/ SameAt(E, X, n) /\ n <= Top(X)
  BY <1>1, <1>2, LongerKnows DEF E
<1>5. ASSUME NEW W, IsPiece(W) PROVE Agree(E, W)
  <2>1. Agree(X, W)
    BY <1>2, <1>5 DEF LogInv, PiecesAgree
  <2>2. \A n \in Nat : Knows(W, n) /\ TermIn(W, n) = e.term => n <= Top(X)
    BY <1>0, <1>1, <1>2, <1>5 DEF LogInv, LeaderAhead
  <2> QED BY <1>1, <1>2, <2>1, <2>2, LongerAgrees DEF E
<1>6. ASSUME NEW n \in Nat, n # 0, Knows(E, n)
      PROVE  \E s \in Server : <<TermIn(E, n), s>> \in elected'
  <2>1. CASE TermIn(E, n) = e.term
    <3>1. <<currentTerm[i], i>> \in elected
      BY <1>0 DEF LogInv, ElectedOnce
    <3> QED BY <1>1, <2>1, <3>1
  <2>2. CASE SameAt(E, X, n)
    <3>1. PICK s \in Server : <<TermIn(X, n), s>> \in elected
      BY <1>2, <1>6, <2>2 DEF SameAt, LogInv, TermsElected
    <3> QED BY <2>2, <3>1 DEF SameAt
  <2> QED BY <1>4, <1>6, <2>1, <2>2
<1>7. ASSUME NEW p \in Server, serverState'[p] = "leader", NEW W, IsPiece(W) \/ W = E
       PROVE  Within(W, currentTerm'[p], lastLogIndex(p)')
  <2>1. CASE IsPiece(W)
    BY <1>3, <1>7, <2>1, KeptAhead DEF LogInv
  <2>2. CASE W = E
    <3>0. Within(X, currentTerm'[p], lastLogIndex(p)')
      BY <1>2, <1>3, <1>7, KeptAhead DEF LogInv
    <3>1. ASSUME NEW n \in Nat, Knows(E, n), TermIn(E, n) = currentTerm'[p]
          PROVE  n <= lastLogIndex(p)'
      <4>1. CASE SameAt(E, X, n)
        BY <3>0, <3>1, <4>1 DEF SameAt, Within
      <4>2. CASE n = Top(X) + 1 /\ TermIn(E, n) = e.term
        <5>1. serverState[p] = "leader" /\ currentTerm'[p] = currentTerm[p]
          BY <1>3, <1>7 DEF LeadersKept
        <5>2. currentTerm[p] = currentTerm[i]
          BY <1>1, <3>1, <4>2, <5>1
        <5>3. <<currentTerm[p], p>> \in elected /\ <<currentTerm[i], i>> \in elected
          BY <1>0, <5>1 DEF LogInv, ElectedOnce
        <5>4. p = i
          <6>1. <<currentTerm[p], p>> = <<currentTerm[i], i>>
            BY <5>2, <5>3 DEF ElectionSafety
          <6> QED BY <6>1
        <5>5. lastLogIndex(i)' = Top(X) + 1
          BY <1>3, <1>7, <5>4
        <5> QED BY <1>2, <4>2, <5>4, <5>5
      <4> QED BY <1>4, <3>1, <4>1, <4>2
    <3> QED BY <2>2, <3>1 DEF Within
  <2> QED BY <1>7, <2>1, <2>2
<1>8. PiecesAgree'
  BY <1>5, <1>3, MadeAgree DEF LogInv
<1>9. TermsElected'
  BY <1>6, <1>3, MadeElected DEF LogInv
<1>10. LeaderAhead'
  BY <1>3, <1>7, MadeAhead
<1> QED BY <1>8, <1>9, <1>10

\* No piece has the term of a candidate that wins: nobody was elected in it.
LEMMA NewTermUnused ==
  ASSUME LogInv, ElectionSafety', NEW i \in Server, serverState[i] = "candidate",
         elected' = elected \cup {<<currentTerm[i], i>>}, NEW X, IsPiece(X)
  PROVE  \A n \in Nat : 0 < n /\ Knows(X, n) => TermIn(X, n) # currentTerm[i]
<1> SUFFICES ASSUME NEW n \in Nat, 0 < n, Knows(X, n), TermIn(X, n) = currentTerm[i]
             PROVE  FALSE
  OBVIOUS
<1>1. PICK s \in Server : <<currentTerm[i], s>> \in elected
  BY DEF LogInv, TermsElected
<1>2. <<currentTerm[i], s>> = <<currentTerm[i], i>>
  BY <1>1 DEF ElectionSafety
<1>3. s = i
  BY <1>2
<1>4. <<currentTerm[i], i>> \in elected
  BY <1>1, <1>3
<1>5. \A f \in elected : f[1] = currentTerm[f[2]] => serverState[f[2]] # "candidate"
  BY DEF LogInv, ElectedOnce
<1> QED BY <1>4, <1>5

\* A vote that makes a leader keeps the agreement of the pieces.
LEMMA VoteCountedKeeps ==
  ASSUME TypeOK, TypeOK', LogInv, ElectionSafety', NEW c \in voteCalls, VoteCounted(c)
  PROVE  PiecesAgree' /\ TermsElected' /\ LeaderAhead'
<1>0. PICK i \in Server : i = c.src
  BY TypeParts, VoteCallKinds
<1>1. /\ serverState[i] = "candidate"
      /\ UNCHANGED <<currentTerm, logVars, calls>>
      /\ \/ /\ serverState' = [serverState EXCEPT ![i] = "leader"]
            /\ elected' = elected \cup {<<currentTerm[i], i>>}
         \/ UNCHANGED <<serverState, elected>>
  BY <1>0 DEF VoteCounted, Voting
<1>2. \A X : IsPiece(X)' <=> IsPiece(X)
  BY <1>1 DEF IsPiece, Requested, LogOf, logVars
<1>3. PiecesAgree' /\ TermsElected'
  BY <1>1, <1>2 DEF LogInv, PiecesAgree, TermsElected
<1>4. ASSUME NEW p \in Server, serverState'[p] = "leader", NEW X, IsPiece(X)',
             NEW n \in Nat, Knows(X, n), TermIn(X, n) = currentTerm'[p]
      PROVE  n <= lastLogIndex(p)'
  <2>1. lastLogIndex(p)' = lastLogIndex(p) /\ currentTerm'[p] = currentTerm[p]
    BY <1>1 DEF lastLogIndex, logVars
  <2>2. CASE serverState[p] = "leader"
    BY <1>2, <1>4, <2>1, <2>2 DEF LogInv, LeaderAhead
  <2>3. CASE serverState[p] # "leader"
    <3>1. p = i /\ elected' = elected \cup {<<currentTerm[i], i>>}
      BY <1>1, <1>4, <2>3 DEF TypeOK
    <3>2. n = 0
      <4>1. 0 < n => TermIn(X, n) # currentTerm[i]
        BY <1>1, <1>2, <1>4, <3>1, NewTermUnused
      <4> QED BY <1>4, <2>1, <3>1, <4>1
    <3>3. lastLogIndex(p) \in Nat
      BY TypeParts, LastLogType
    <3> QED BY <2>1, <3>2, <3>3
  <2> QED BY <2>2, <2>3
<1>5. LeaderAhead'
  BY <1>4 DEF LeaderAhead
<1> QED BY <1>3, <1>5

-----------------------------------------------------------------------------
(* A peer is elected once in a term. *)

NoNewLeader ==
    \A i \in Server : serverState'[i] = "leader" =>
        serverState[i] = "leader" /\ currentTerm'[i] = currentTerm[i]

\* Terms grow, and who is candidate in a term is so from its beginning.
NoLateCandidate ==
    /\ UNCHANGED elected
    /\ \A i \in Server :
        /\ currentTerm'[i] >= currentTerm[i]
        /\ serverState'[i] = "candidate" /\ currentTerm'[i] = currentTerm[i]
              => serverState[i] = "candidate"

\* A step without a new leader or a late candidate keeps ElectedOnce.
LEMMA ElectedOnceKept ==
  ASSUME TypeOK, TypeOK', ElectedOnce, NoNewLeader, NoLateCandidate
  PROVE  ElectedOnce'
<1>0. UNCHANGED elected
  BY DEF NoLateCandidate
<1>1. \A i \in Server : currentTerm[i] \in Nat /\ currentTerm'[i] \in Nat
  BY DEF TypeOK
<1>2. ASSUME NEW e \in elected
      PROVE  /\ e[1] <= currentTerm'[e[2]]
             /\ e[1] = currentTerm'[e[2]] => serverState'[e[2]] # "candidate"
  <2>1. PICK t \in Nat, s \in Server : t = e[1] /\ s = e[2]
    BY DEF TypeOK
  <2>2. t <= currentTerm[s] /\ (t = currentTerm[s] => serverState[s] # "candidate")
    BY <2>1 DEF ElectedOnce
  <2>3. t <= currentTerm'[s] /\ (t = currentTerm'[s] => currentTerm'[s] = currentTerm[s])
    BY <1>1, <2>2 DEF NoLateCandidate
  <2> QED BY <2>1, <2>2, <2>3 DEF NoLateCandidate
<1>3. ASSUME NEW i \in Server, serverState'[i] = "leader"
      PROVE  <<currentTerm'[i], i>> \in elected
  BY <1>3 DEF ElectedOnce, NoNewLeader
<1> QED BY <1>0, <1>2, <1>3 DEF ElectedOnce


\* A step that changes no state or term makes no late candidate.
LEMMA QuietCandidates ==
  ASSUME TypeOK, Quiet
  PROVE  NoLateCandidate
  BY DEF Quiet, NoLateCandidate

\* A step makes no late candidate unless it counts a vote.
LEMMA CandidateStep ==
  ASSUME TypeOK, PersistedCurrent, Next
  PROVE  NoLateCandidate \/ \E c \in voteCalls : VoteCounted(c)
<1>0. HistoryTypeOK /\ \A i \in Server : currentTerm[i] \in Nat
  BY TypeParts DEF TypeOK
<1>1. ASSUME NEW i \in Server, ServerStep(i) PROVE NoLateCandidate
  <2>1. CASE doElection(i)
    <3>1. /\ UNCHANGED elected
          /\ currentTerm' = [currentTerm EXCEPT ![i] = currentTerm[i] + 1]
          /\ serverState' = [serverState EXCEPT ![i] = "candidate"]
      BY <2>1 DEF doElection
    <3>2. ASSUME NEW p \in Server
          PROVE  /\ currentTerm'[p] >= currentTerm[p]
                 /\ currentTerm'[p] = currentTerm[p] => serverState'[p] = serverState[p]
      <4>1. CASE p = i
        <5>1. currentTerm'[p] = currentTerm[p] + 1
          BY <3>1, <4>1 DEF TypeOK
        <5> QED BY <1>0, <5>1
      <4>2. CASE p # i
        <5>1. currentTerm'[p] = currentTerm[p] /\ serverState'[p] = serverState[p]
          BY <3>1, <4>2 DEF TypeOK
        <5> QED BY <1>0, <5>1
      <4> QED BY <4>1, <4>2
    <3> QED BY <3>1, <3>2 DEF NoLateCandidate
  <2> QED BY <1>1, <2>1, ServerQuiet, QuietCandidates
<1>2. ASSUME NEW c \in voteCalls, VoteStep(c) PROVE NoLateCandidate \/ VoteCounted(c)
  <2>1. PICK i \in Server, j \in Server, t \in Nat : i = c.src /\ j = c.dst /\ t = c.term
    BY <1>0, VoteCallKinds
  <2>2. CASE RequestVoteStale(c) \/ VoteIgnored(c)
    <3>1. UNCHANGED <<elected, currentTerm, serverState>>
      BY <2>2 DEF RequestVoteStale, VoteIgnored, termVars, voteHist
    <3>2. \A p \in Server : currentTerm[p] >= currentTerm[p]
      BY <1>0
    <3> QED BY <3>1, <3>2 DEF NoLateCandidate
  <2>3. CASE RequestVote(c)
    <3>1. /\ UNCHANGED elected /\ t >= currentTerm[j]
          /\ currentTerm' = [currentTerm EXCEPT ![j] = t]
          /\ serverState' = [serverState EXCEPT ![j] =
                               IF t > currentTerm[j] THEN "follower" ELSE serverState[j]]
      BY <2>1, <2>3 DEF RequestVote
    <3>2. ASSUME NEW p \in Server
          PROVE  /\ currentTerm'[p] >= currentTerm[p]
                 /\ serverState'[p] = "candidate" => serverState[p] = "candidate"
      <4>1. CASE p = j
        <5>1. currentTerm'[p] = t /\ serverState'[p] \in {"follower", serverState[p]}
          BY <3>1, <4>1 DEF TypeOK
        <5> QED BY <3>1, <4>1, <5>1
      <4>2. CASE p # j
        <5>1. currentTerm'[p] = currentTerm[p] /\ serverState'[p] = serverState[p]
          BY <3>1, <4>2 DEF TypeOK
        <5> QED BY <1>0, <5>1
      <4> QED BY <4>1, <4>2
    <3> QED BY <3>1, <3>2 DEF NoLateCandidate
  <2>4. CASE VoteStepDown(c)
    <3>1. PICK u \in Nat : u = c.replyTerm
      BY <1>0, <2>4, VoteCallKinds DEF VoteStepDown
    <3>2. /\ u > currentTerm[i] /\ AdoptTerm(i, u) /\ UNCHANGED voteHist
          /\ voteCalls' \subseteq voteCalls
      BY <2>1, <2>4, <3>1 DEF VoteStepDown
    <3>3. u >= currentTerm[i]
      BY <1>0, <3>2
    <3> QED BY <3>2, <3>3, AdoptQuiet, QuietCandidates
  <2> QED BY <1>2, <2>2, <2>3, <2>4 DEF VoteStep
<1>3. ASSUME NEW i \in Server, NEW j \in Server, NEW k \in DOMAIN calls[i][j],
             CallStep(i, j, k)
      PROVE  NoLateCandidate
  BY <1>3, CallQuiet, QuietCandidates
<1> QED BY <1>1, <1>2, <1>3 DEF Next

\* The election that a vote decides.
LEMMA VoteCountedOnce ==
  ASSUME TypeOK, TypeOK', ElectedOnce, NEW c \in voteCalls, VoteCounted(c)
  PROVE  ElectedOnce'
<1>0. PICK i \in Server : i = c.src
  BY TypeParts, VoteCallKinds
<1>1. /\ serverState[i] = "candidate" /\ UNCHANGED currentTerm
      /\ \/ /\ serverState' = [serverState EXCEPT ![i] = "leader"]
            /\ elected' = elected \cup {<<currentTerm[i], i>>}
         \/ UNCHANGED <<serverState, elected>>
  BY <1>0 DEF VoteCounted, Voting
<1>2. CASE UNCHANGED <<serverState, elected>>
  BY <1>1, <1>2 DEF ElectedOnce
<1>3. CASE /\ serverState' = [serverState EXCEPT ![i] = "leader"]
           /\ elected' = elected \cup {<<currentTerm[i], i>>}
  <2>1. serverState'[i] = "leader" /\ \A p \in Server : p # i => serverState'[p] = serverState[p]
    BY <1>3 DEF TypeOK
  <2>2. ASSUME NEW e \in elected'
        PROVE  /\ e[1] <= currentTerm'[e[2]]
               /\ e[1] = currentTerm'[e[2]] => serverState'[e[2]] # "candidate"
    <3>1. CASE e = <<currentTerm[i], i>>
      <4>1. currentTerm[i] <= currentTerm[i]
        BY DEF TypeOK
      <4> QED BY <1>1, <2>1, <3>1, <4>1
    <3>2. CASE e \in elected
      <4>1. PICK t \in Nat, s \in Server : t = e[1] /\ s = e[2]
        BY <3>2 DEF TypeOK
      <4>2. t <= currentTerm[s] /\ (t = currentTerm[s] => serverState[s] # "candidate")
        BY <3>2, <4>1 DEF ElectedOnce
      <4> QED BY <1>1, <2>1, <4>1, <4>2
    <3> QED BY <1>3, <3>1, <3>2
  <2>3. ASSUME NEW p \in Server, serverState'[p] = "leader"
        PROVE  <<currentTerm'[p], p>> \in elected'
    BY <1>1, <1>3, <2>1, <2>3 DEF ElectedOnce
  <2> QED BY <2>2, <2>3 DEF ElectedOnce
<1> QED BY <1>1, <1>2, <1>3

-----------------------------------------------------------------------------
(* The invariant. *)

\* Every action keeps the invariant of logs: one case for each.
LEMMA LogInvStep ==
  ASSUME TypeOK, TypeOK', PersistedCurrent, ElectionSafety, ElectionSafety', LogInv, Next
  PROVE  LogInv'
<1>0. PiecesAgree /\ TermsElected /\ LeaderAhead /\ ElectedOnce
  BY DEF LogInv
<1>1. ASSUME NEW c \in voteCalls, VoteCounted(c) PROVE LogInv'
  BY <1>0, <1>1, VoteCountedKeeps, VoteCountedOnce DEF LogInv
<1>2. CASE NoLateCandidate
  <2>1. elected \subseteq elected'
    BY <1>2 DEF NoLateCandidate
  <2>2. ASSUME Ordinary PROVE LogInv'
    <3>1. NoNewLeader
      BY <2>2 DEF Ordinary, LeadersKept, NoNewLeader
    <3> QED BY <1>0, <1>2, <2>1, <2>2, <3>1, OrdinaryKeeps, ElectedOnceKept DEF LogInv
  <2>3. ASSUME NEW i \in Server, NEW cmd \in Command, Start(i, cmd) \/ CrashInStart(i, cmd)
        PROVE  LogInv'
    <3>1. PiecesAgree' /\ TermsElected' /\ LeaderAhead'
      BY <2>1, <2>3, StartKeeps
    <3>2. NoNewLeader
      <4>1. CASE Start(i, cmd)
        BY <4>1 DEF Start, termVars, NoNewLeader
      <4>2. CASE CrashInStart(i, cmd)
        <5>1. LeadersKept
          BY <4>2, RestartedLeaves DEF CrashInStart
        <5> QED BY <5>1 DEF LeadersKept, NoNewLeader
      <4> QED BY <2>3, <4>1, <4>2
    <3> QED BY <1>0, <1>2, <3>1, <3>2, ElectedOnceKept DEF LogInv
  <2>4. ASSUME NEW i \in Server, NEW j \in Server, NEW k \in DOMAIN calls[i][j],
               AppendEntries(i, j, k)
        PROVE  LogInv'
    <3>1. PiecesAgree' /\ TermsElected' /\ LeaderAhead'
      BY <1>0, <2>1, <2>4, AppendEntriesKeeps
    <3>2. NoNewLeader
      BY <2>4 DEF AppendEntries, AdoptTerm, NoNewLeader, TypeOK
    <3> QED BY <1>0, <1>2, <3>1, <3>2, ElectedOnceKept DEF LogInv
  <2>5. ASSUME NEW i \in Server, ServerStep(i) PROVE LogInv'
    BY <2>2, <2>3, <2>5, ServerStepOrdinary
  <2>6. ASSUME NEW c \in voteCalls, VoteStep(c) PROVE LogInv'
    BY <1>1, <2>2, <2>6, VoteStepOrdinary
  <2>7. ASSUME NEW i \in Server, NEW j \in Server, NEW k \in DOMAIN calls[i][j],
               CallStep(i, j, k)
        PROVE  LogInv'
    BY <2>2, <2>4, <2>7, CallStepOrdinary
  <2> QED BY <2>5, <2>6, <2>7 DEF Next
<1> QED BY <1>1, <1>2, CandidateStep

\* So does a step that changes nothing.
LEMMA LogInvStutter ==
  ASSUME LogInv, UNCHANGED vars
  PROVE  LogInv'
<1>1. \A X : IsPiece(X)' <=> IsPiece(X)
  BY DEF IsPiece, Requested, LogOf, vars, logVars
<1>2. UNCHANGED <<elected, serverState, currentTerm, log, lastIncludedIndex>>
  BY DEF vars, termVars, logVars, voteHist
<1>3. PiecesAgree' /\ TermsElected'
  BY <1>1, <1>2 DEF LogInv, PiecesAgree, TermsElected
<1>4. LeaderAhead'
  BY <1>1, <1>2 DEF LogInv, LeaderAhead, lastLogIndex
<1>5. ElectedOnce'
  BY <1>2 DEF LogInv, ElectedOnce
<1> QED BY <1>3, <1>4, <1>5 DEF LogInv

\* At the start every log is empty after index 0, and nobody has called.
LEMMA InitLog ==
  ASSUME Init
  PROVE  LogInv
<1> DEFINE Z == [base |-> 0, term |-> 0, entries |-> <<>>]
<1>1. ASSUME NEW X, IsPiece(X) PROVE X = Z
  <2>1. ASSUME NEW i \in Server PROVE LogOf(i) = Z
    BY DEF Init, LogOf
  <2>2. ~Requested(X)
    <3>1. \A i, j \in Server : calls[i][j] = <<>>
      BY DEF Init
    <3> QED BY <3>1 DEF Requested
  <2> QED BY <1>1, <2>1, <2>2 DEF IsPiece
<1>2. \A n \in Nat : Knows(Z, n) => n = 0
  BY DEF Knows, Top
<1>3. Agree(Z, Z)
  BY AgreeReflexive
<1> HIDE DEF Z
<1>4. PiecesAgree /\ TermsElected
  <2>1. PiecesAgree
    BY <1>1, <1>3 DEF PiecesAgree
  <2>2. TermsElected
    BY <1>1, <1>2 DEF TermsElected
  <2> QED BY <2>1, <2>2
<1>5. LeaderAhead /\ ElectedOnce
  BY DEF Init, LeaderAhead, ElectedOnce
<1> QED BY <1>4, <1>5 DEF LogInv

\* Pieces that agree are logs that match.
LEMMA AgreeingLogsMatch ==
  ASSUME TypeOK, PiecesAgree
  PROVE  LogMatching
<1> SUFFICES ASSUME NEW i \in Server, NEW j \in Server,
                    NEW n \in (Known(i) \cap Known(j)) \ {0},
                    TermAt(i, log[i], n) = TermAt(j, log[j], n),
                    NEW m \in Held(i) \cap Held(j), m <= n
             PROVE  EntryAt(i, m) = EntryAt(j, m)
  BY DEF LogMatching
<1>1. ASSUME NEW p \in Server
      PROVE  /\ IsPiece(LogOf(p)) /\ LogOf(p).base = lastIncludedIndex[p]
             /\ LogOf(p).term = lastIncludedTerm[p] /\ LogOf(p).entries = log[p]
             /\ Top(LogOf(p)) = lastLogIndex(p)
             /\ lastIncludedIndex[p] \in Nat /\ lastLogIndex(p) \in Nat
  BY LogPiece, TypeParts, LastLogType DEF PeerTypeOK
<1>2. n \in Nat /\ m \in Nat
  BY <1>1 DEF Known, Held
<1>3. ASSUME NEW p \in {i, j}
      PROVE  /\ Knows(LogOf(p), n) /\ Knows(LogOf(p), m) /\ m > LogOf(p).base
             /\ TermIn(LogOf(p), n) = TermAt(p, log[p], n)
             /\ EntryIn(LogOf(p), m) = EntryAt(p, m)
  <2>1. /\ lastIncludedIndex[p] <= n /\ n <= lastLogIndex(p)
        /\ lastIncludedIndex[p] < m /\ m <= lastLogIndex(p)
    BY <1>1, <1>3 DEF Known, Held
  <2>2. lastIncludedIndex[p] <= m /\ m > lastIncludedIndex[p]
    BY <1>1, <1>2, <1>3, <2>1
  <2> QED BY <1>1, <1>3, <2>1, <2>2 DEF Knows, TermIn, TermAt, EntryIn, EntryAt
<1>4. Agree(LogOf(i), LogOf(j))
  BY <1>1 DEF PiecesAgree
<1>5. EntryIn(LogOf(i), m) = EntryIn(LogOf(j), m)
  BY <1>2, <1>3, <1>4 DEF Agree
<1> QED BY <1>3, <1>5

-----------------------------------------------------------------------------
\* Logs and requests agree, in every mode (LogInv, the inductive invariant).
THEOREM LogInvariant == Spec => []LogInv
<1>1. Init => LogInv
  BY InitLog
<1>2. /\ TypeOK /\ TypeOK' /\ PersistedCurrent /\ ElectionSafety /\ ElectionSafety'
      /\ LogInv /\ [Next]_vars
      => LogInv'
  BY LogInvStep, LogInvStutter
<1> QED BY <1>1, <1>2, TypeCorrect, DiskCurrent, OneLeaderPerTerm, PTL DEF Spec

\* Two peers that know an index with the same term hold the same entries up to
\* it, for every set of peers and in every mode: the consistency check of the
\* AppendEntries handler keeps the logs matching although requests overtake one
\* another, a descheduled ticker() sends after it has lost its term, logs are
\* compacted and installed, and crashes cut Start() and the handlers off
\* between a send and a save.
THEOREM LogsMatch == Spec => []LogMatching
<1>1. TypeOK /\ LogInv => LogMatching
  BY AgreeingLogsMatch DEF LogInv
<1> QED BY <1>1, TypeCorrect, LogInvariant, PTL

-----------------------------------------------------------------------------
(* Runs of one term.  The entries of a term stand at consecutive indices,  *)
(* and the index of the first is the same wherever they are.               *)

\* Where Y has a term that X has at n, Y has it from n on.
Runs(X, Y) ==
    \A n, x, m \in Nat :
        /\ 0 < n /\ n <= x /\ x <= m
        /\ Knows(X, n) /\ Knows(Y, x) /\ Knows(Y, m)
        /\ TermIn(X, n) = TermIn(Y, m)
        => TermIn(Y, x) = TermIn(Y, m)

TermRuns == \A X, Y : IsPiece(X) /\ IsPiece(Y) => Runs(X, Y)

\* Where X has the term t at n, L has it from n to its end.
RunsToEnd(X, t, L) ==
    \A n, x \in Nat :
        /\ 0 < n /\ n <= x
        /\ Knows(X, n) /\ Knows(L, x) /\ TermIn(X, n) = t
        => TermIn(L, x) = t

LeaderRuns ==
    \A i \in Server : serverState[i] = "leader" =>
        \A X : IsPiece(X) => RunsToEnd(X, currentTerm[i], LogOf(i))

\* What is said of the runs of two pieces holds of what is cut from them.
LEMMA RunsCut ==
  ASSUME NEW X, NEW Y, NEW Z, NEW W, Runs(X, Y), CutFrom(Z, X), CutFrom(W, Y)
  PROVE  Runs(Z, W)
<1> SUFFICES ASSUME NEW n \in Nat, NEW x \in Nat, NEW m \in Nat, 0 < n, n <= x, x <= m,
                    Knows(Z, n), Knows(W, x), Knows(W, m), TermIn(Z, n) = TermIn(W, m)
             PROVE  TermIn(W, x) = TermIn(W, m)
  BY DEF Runs
<1>1. Knows(X, n) /\ TermIn(Z, n) = TermIn(X, n)
  BY DEF CutFrom, SameAt
<1>2. Knows(Y, x) /\ TermIn(W, x) = TermIn(Y, x) /\ Knows(Y, m) /\ TermIn(W, m) = TermIn(Y, m)
  BY DEF CutFrom, SameAt
<1>3. TermIn(Y, x) = TermIn(Y, m)
  BY <1>1, <1>2 DEF Runs
<1> QED BY <1>2, <1>3

\* A run that ends in a join of two pieces goes back through the index where
\* they are joined.
LEMMA RunsJoin ==
  ASSUME NEW X, NEW Y, NEW Z, NEW W, JoinOf(Z, X, Y), Runs(W, X), Runs(W, Y)
  PROVE  Runs(W, Z)
<1> SUFFICES ASSUME NEW n \in Nat, NEW x \in Nat, NEW m \in Nat, 0 < n, n <= x, x <= m,
                    Knows(W, n), Knows(Z, x), Knows(Z, m), TermIn(W, n) = TermIn(Z, m)
             PROVE  TermIn(Z, x) = TermIn(Z, m)
  BY DEF Runs
<1>0. PICK p \in Nat : p = Y.base
  BY DEF JoinOf
<1>1. CASE m <= p
  <2>1. SameAt(Z, X, x) /\ SameAt(Z, X, m)
    BY <1>0, <1>1 DEF JoinOf
  <2>2. TermIn(X, x) = TermIn(X, m)
    BY <2>1 DEF SameAt, Runs
  <2> QED BY <2>1, <2>2 DEF SameAt
<1>2. CASE x > p
  <2>1. SameAt(Z, Y, x) /\ SameAt(Z, Y, m)
    BY <1>0, <1>2 DEF JoinOf
  <2>2. TermIn(Y, x) = TermIn(Y, m)
    BY <2>1 DEF SameAt, Runs
  <2> QED BY <2>1, <2>2 DEF SameAt
<1>3. CASE x <= p /\ m > p
  <2>1. SameAt(Z, X, x) /\ SameAt(Z, Y, m)
    BY <1>0, <1>3 DEF JoinOf
  <2>2. Knows(Y, p) /\ Knows(X, p) /\ TermIn(X, p) = TermIn(Y, p)
    BY <1>0 DEF JoinOf
  <2>3. n <= p /\ p <= m /\ Knows(Y, m) /\ TermIn(W, n) = TermIn(Y, m)
    BY <1>3, <2>1 DEF SameAt
  <2>4. TermIn(Y, p) = TermIn(Y, m)
    BY <2>2, <2>3 DEF Runs
  <2>5. Knows(X, x) /\ TermIn(W, n) = TermIn(X, p)
    BY <2>1, <2>2, <2>3, <2>4 DEF SameAt
  <2>6. TermIn(X, x) = TermIn(X, p)
    BY <1>3, <2>2, <2>5 DEF Runs
  <2> QED BY <2>1, <2>2, <2>4, <2>6 DEF SameAt
<1> QED BY <1>1, <1>2, <1>3

\* A run that starts in a join starts in one of its parts.
LEMMA RunsFromJoin ==
  ASSUME NEW X, NEW Y, NEW Z, NEW W, JoinOf(Z, X, Y), Y.base \in Nat, Runs(X, W), Runs(Y, W)
  PROVE  Runs(Z, W)
<1> SUFFICES ASSUME NEW n \in Nat, NEW x \in Nat, NEW m \in Nat, 0 < n, n <= x, x <= m,
                    Knows(Z, n), Knows(W, x), Knows(W, m), TermIn(Z, n) = TermIn(W, m)
             PROVE  TermIn(W, x) = TermIn(W, m)
  BY DEF Runs
<1>1. SameAt(Z, X, n) \/ SameAt(Z, Y, n)
  BY DEF JoinOf
<1>2. CASE SameAt(Z, X, n)
  <2>1. Knows(X, n) /\ TermIn(X, n) = TermIn(W, m)
    BY <1>2 DEF SameAt
  <2> QED BY <2>1 DEF Runs
<1>3. CASE SameAt(Z, Y, n)
  <2>1. Knows(Y, n) /\ TermIn(Y, n) = TermIn(W, m)
    BY <1>3 DEF SameAt
  <2> QED BY <2>1 DEF Runs
<1> QED BY <1>1, <1>2, <1>3

\* The runs of a step's pieces are right if those of the new piece are.
LEMMA MadeRuns ==
  ASSUME TermRuns, NEW E, MadeWith(E), \A W : IsPiece(W) => Runs(E, W) /\ Runs(W, E), Runs(E, E)
  PROVE  TermRuns'
<1> SUFFICES ASSUME NEW X, NEW Y, IsPiece(X)', IsPiece(Y)' PROVE Runs(X, Y)
  BY DEF TermRuns
<1>1. PICK U : (IsPiece(U) \/ U = E) /\ CutFrom(X, U)
  BY DEF MadeWith, FromOld
<1>2. PICK V : (IsPiece(V) \/ V = E) /\ CutFrom(Y, V)
  BY DEF MadeWith, FromOld
<1>3. Runs(U, V)
  <2>1. CASE IsPiece(U) /\ IsPiece(V)
    BY <2>1 DEF TermRuns
  <2> QED BY <1>1, <1>2, <2>1
<1> QED BY <1>1, <1>2, <1>3, RunsCut

\* Leaders have their term's entries to the end of their log if they have the
\* new piece's.
LEMMA MadeToEnd ==
  ASSUME NEW E, MadeWith(E),
         \A i \in Server : serverState'[i] = "leader" =>
            \A X : IsPiece(X) \/ X = E => RunsToEnd(X, currentTerm'[i], LogOf(i)')
  PROVE  LeaderRuns'
<1> SUFFICES ASSUME NEW i \in Server, serverState'[i] = "leader", NEW X, IsPiece(X)'
             PROVE  RunsToEnd(X, currentTerm'[i], LogOf(i)')
  BY DEF LeaderRuns
<1> DEFINE L == LogOf(i)'
           t == currentTerm'[i]
<1>1. PICK U : (IsPiece(U) \/ U = E) /\ CutFrom(X, U)
  BY DEF MadeWith, FromOld
<1>2. RunsToEnd(U, t, L)
  BY <1>1
<1> HIDE DEF L, t
<1>3. ASSUME NEW n \in Nat, NEW x \in Nat, 0 < n, n <= x, Knows(X, n), Knows(L, x), TermIn(X, n) = t
      PROVE  TermIn(L, x) = t
  <2>1. Knows(U, n) /\ TermIn(U, n) = t
    BY <1>1, <1>3 DEF CutFrom, SameAt
  <2> QED BY <1>2, <1>3, <2>1 DEF RunsToEnd
<1>4. RunsToEnd(X, t, L)
  BY <1>3 DEF RunsToEnd
<1> QED BY <1>4 DEF L, t

\* Leaders that stay keep their logs, and nobody becomes one.
LeadersSame ==
    \A i \in Server : serverState'[i] = "leader" =>
        /\ serverState[i] = "leader" /\ currentTerm'[i] = currentTerm[i]
        /\ LogOf(i)' = LogOf(i)

\* Every index of E is one of a piece.
Composed(E) == \A n \in Nat : Knows(E, n) => \E U : IsPiece(U) /\ SameAt(E, U, n)

\* A step that leaves the leaders' logs alone keeps their runs.
LEMMA SameToEnd ==
  ASSUME LeaderRuns, LeadersSame, NEW E, MadeWith(E), Composed(E)
  PROVE  LeaderRuns'
<1>1. ASSUME NEW i \in Server, serverState'[i] = "leader", NEW X, IsPiece(X) \/ X = E
      PROVE  RunsToEnd(X, currentTerm'[i], LogOf(i)')
  <2> DEFINE L == LogOf(i)
             t == currentTerm[i]
  <2>1. LogOf(i)' = L /\ currentTerm'[i] = t
    BY <1>1 DEF LeadersSame
  <2>2. \A U : IsPiece(U) => RunsToEnd(U, t, L)
    BY <1>1 DEF LeadersSame, LeaderRuns
  <2> HIDE DEF L, t
  <2>3. CASE X = E
    <3>1. ASSUME NEW n \in Nat, NEW x \in Nat, 0 < n, n <= x, Knows(E, n), Knows(L, x),
                 TermIn(E, n) = t
          PROVE  TermIn(L, x) = t
      <4>1. PICK U : IsPiece(U) /\ SameAt(E, U, n)
        BY <3>1 DEF Composed
      <4>2. RunsToEnd(U, t, L) /\ Knows(U, n) /\ TermIn(U, n) = t
        BY <2>2, <3>1, <4>1 DEF SameAt
      <4> QED BY <3>1, <4>2 DEF RunsToEnd
    <3>2. RunsToEnd(E, t, L)
      BY <3>1 DEF RunsToEnd
    <3> QED BY <2>1, <2>3, <3>2
  <2> QED BY <1>1, <2>1, <2>2, <2>3
<1> QED BY <1>1, MadeToEnd

\* An ordinary step keeps the runs,
LEMMA OrdinaryRuns ==
  ASSUME TermRuns, LeaderRuns, Ordinary, LeadersSame
  PROVE  TermRuns' /\ LeaderRuns'
<1>1. PICK E : IsPiece(E) /\ MadeWith(E)
  BY DEF Ordinary
<1>2. TermRuns'
  <2>1. Runs(E, E) /\ \A W : IsPiece(W) => Runs(E, W) /\ Runs(W, E)
    BY <1>1 DEF TermRuns
  <2> QED BY <1>1, <2>1, MadeRuns
<1>3. Composed(E)
  <2>1. CutFrom(E, E)
    BY WholeCut
  <2> QED BY <1>1, <2>1 DEF Composed, CutFrom
<1> QED BY <1>1, <1>2, <1>3, SameToEnd

\* as does AppendEntries, which joins two pieces.
LEMMA AppendRuns ==
  ASSUME TypeOK, TermRuns, LeaderRuns, LeadersSame,
         NEW i \in Server, NEW j \in Server, NEW k \in DOMAIN calls[i][j], AppendEntries(i, j, k)
  PROVE  TermRuns' /\ LeaderRuns'
<1> DEFINE E == LogOf(j)'
<1>1. MadeWith(E)
  BY AppendJoins
<1>2. PICK X, Y : IsPiece(X) /\ IsPiece(Y) /\ Y.base \in Nat /\ JoinOf(E, X, Y)
  BY AppendJoins
<1> HIDE DEF E
<1>3. ASSUME NEW W, IsPiece(W) PROVE Runs(E, W) /\ Runs(W, E)
  <2>1. Runs(X, W) /\ Runs(Y, W) /\ Runs(W, X) /\ Runs(W, Y)
    BY <1>2, <1>3 DEF TermRuns
  <2> QED BY <1>2, <2>1, RunsJoin, RunsFromJoin
<1>4. Runs(E, E)
  <2>1. Runs(E, X) /\ Runs(E, Y)
    BY <1>2, <1>3
  <2> QED BY <1>2, <2>1, RunsJoin
<1>5. TermRuns'
  BY <1>1, <1>3, <1>4, MadeRuns
<1>6. Composed(E)
  <2>1. ASSUME NEW n \in Nat, Knows(E, n) PROVE SameAt(E, X, n) \/ SameAt(E, Y, n)
    BY <1>2, <2>1 DEF JoinOf
  <2> QED BY <1>2, <2>1 DEF Composed
<1> QED BY <1>1, <1>5, <1>6, SameToEnd

\* Two leaders have two terms.
LEMMA LeadersDiffer ==
  ASSUME ElectedOnce, ElectionSafety, NEW i \in Server, NEW p \in Server,
         serverState[i] = "leader", serverState[p] = "leader", currentTerm[p] = currentTerm[i]
  PROVE  p = i
<1>1. <<currentTerm[p], p>> \in elected /\ <<currentTerm[i], i>> \in elected
  BY DEF ElectedOnce
<1>2. <<currentTerm[p], p>> = <<currentTerm[i], i>>
  BY <1>1 DEF ElectionSafety
<1> QED BY <1>2

\* One more entry of the leader's term ends a run that reaches the end of its log.
LEMMA LongerRuns ==
  ASSUME TypeOK, LogInv, TermRuns, LeaderRuns, NEW i \in Server, serverState[i] = "leader",
         NEW e \in LogEntry, e.term = currentTerm[i], NEW E, E = Longer(LogOf(i), e)
  PROVE  /\ \A W : IsPiece(W) => Runs(E, W) /\ Runs(W, E) /\ RunsToEnd(W, e.term, E)
         /\ Runs(E, E) /\ RunsToEnd(E, e.term, E)
<1> DEFINE X == LogOf(i)
<1>1. X \in Piece /\ IsPiece(X) /\ Top(X) = lastLogIndex(i) /\ Top(X) \in Nat
  BY LogPiece, PieceTypes
<1>2. \A n \in Nat : Knows(E, n) =>
         \/ n = Top(X) + 1 /\ TermIn(E, n) = e.term
         \/ SameAt(E, X, n) /\ n <= Top(X)
  BY <1>1, LongerKnows
<1>3. \A W : IsPiece(W) => RunsToEnd(W, e.term, X)
  BY DEF LeaderRuns
<1>4. \A W : IsPiece(W) => \A n \in Nat : Knows(W, n) /\ TermIn(W, n) = e.term => n <= Top(X)
  BY <1>1 DEF LogInv, LeaderAhead
<1> HIDE DEF X
<1>5. ASSUME NEW W, IsPiece(W) PROVE Runs(E, W)
  <2> SUFFICES ASSUME NEW n \in Nat, NEW x \in Nat, NEW m \in Nat, 0 < n, n <= x, x <= m,
                      Knows(E, n), Knows(W, x), Knows(W, m), TermIn(E, n) = TermIn(W, m)
               PROVE  TermIn(W, x) = TermIn(W, m)
    BY DEF Runs
  <2>1. n # Top(X) + 1 \/ TermIn(E, n) # e.term
    <3>1. TermIn(W, m) = e.term => m <= Top(X)
      BY <1>4, <1>5
    <3> QED BY <1>1, <3>1
  <2>2. Knows(X, n) /\ TermIn(X, n) = TermIn(W, m)
    BY <1>2, <2>1 DEF SameAt
  <2>3. Runs(X, W)
    BY <1>1, <1>5 DEF TermRuns
  <2> QED BY <2>2, <2>3 DEF Runs
<1>6. ASSUME NEW W, IsPiece(W) PROVE RunsToEnd(W, e.term, E)
  <2> SUFFICES ASSUME NEW n \in Nat, NEW x \in Nat, 0 < n, n <= x,
                      Knows(W, n), Knows(E, x), TermIn(W, n) = e.term
               PROVE  TermIn(E, x) = e.term
    BY DEF RunsToEnd
  <2>1. CASE SameAt(E, X, x)
    <3>1. RunsToEnd(W, e.term, X) /\ Knows(X, x) /\ TermIn(E, x) = TermIn(X, x)
      BY <1>3, <1>6, <2>1 DEF SameAt
    <3> QED BY <3>1 DEF RunsToEnd
  <2> QED BY <1>2, <2>1
<1>7. ASSUME NEW W, IsPiece(W) PROVE Runs(W, E)
  <2> SUFFICES ASSUME NEW n \in Nat, NEW x \in Nat, NEW m \in Nat, 0 < n, n <= x, x <= m,
                      Knows(W, n), Knows(E, x), Knows(E, m), TermIn(W, n) = TermIn(E, m)
               PROVE  TermIn(E, x) = TermIn(E, m)
    BY DEF Runs
  <2>1. CASE TermIn(E, m) = e.term
    <3>1. RunsToEnd(W, e.term, E) /\ TermIn(W, n) = e.term
      BY <1>6, <1>7, <2>1
    <3> QED BY <2>1, <3>1 DEF RunsToEnd
  <2>2. CASE TermIn(E, m) # e.term
    <3>1. SameAt(E, X, m) /\ m <= Top(X)
      BY <1>2, <2>2
    <3>2. SameAt(E, X, x)
      <4>1. x # Top(X) + 1
        BY <1>1, <3>1
      <4> QED BY <1>2, <4>1
    <3>3. Runs(W, X)
      BY <1>1, <1>7 DEF TermRuns
    <3>4. Knows(X, x) /\ Knows(X, m) /\ TermIn(E, x) = TermIn(X, x) /\ TermIn(E, m) = TermIn(X, m)
      BY <3>1, <3>2 DEF SameAt
    <3>5. TermIn(X, x) = TermIn(X, m)
      BY <3>3, <3>4 DEF Runs
    <3> QED BY <3>4, <3>5
  <2> QED BY <2>1, <2>2
<1>8. RunsToEnd(E, e.term, E)
  <2> SUFFICES ASSUME NEW n \in Nat, NEW x \in Nat, 0 < n, n <= x,
                      Knows(E, n), Knows(E, x), TermIn(E, n) = e.term
               PROVE  TermIn(E, x) = e.term
    BY DEF RunsToEnd
  <2>1. CASE SameAt(E, X, n)
    <3>1. RunsToEnd(X, e.term, E) /\ Knows(X, n) /\ TermIn(X, n) = e.term
      BY <1>1, <1>6, <2>1 DEF SameAt
    <3> QED BY <3>1 DEF RunsToEnd
  <2>2. CASE n = Top(X) + 1
    <3>1. ~(x <= Top(X))
      BY <1>1, <2>2
    <3> QED BY <1>2, <3>1
  <2> QED BY <1>2, <2>1, <2>2
<1>9. Runs(E, E)
  <2> SUFFICES ASSUME NEW n \in Nat, NEW x \in Nat, NEW m \in Nat, 0 < n, n <= x, x <= m,
                      Knows(E, n), Knows(E, x), Knows(E, m), TermIn(E, n) = TermIn(E, m)
               PROVE  TermIn(E, x) = TermIn(E, m)
    BY DEF Runs
  <2>1. CASE SameAt(E, X, n)
    <3>1. Runs(X, E) /\ Knows(X, n) /\ TermIn(X, n) = TermIn(E, m)
      BY <1>1, <1>7, <2>1 DEF SameAt
    <3> QED BY <3>1 DEF Runs
  <2>2. CASE n = Top(X) + 1
    <3>1. ~(x <= Top(X)) /\ ~(m <= Top(X))
      BY <1>1, <2>2
    <3>2. TermIn(E, x) = e.term /\ TermIn(E, m) = e.term
      BY <1>2, <3>1
    <3> QED BY <3>2
  <2> QED BY <1>2, <2>1, <2>2
<1> QED BY <1>5, <1>6, <1>7, <1>8, <1>9

\* Start(), cut off by a crash or not, keeps the runs.
LEMMA StartRuns ==
  ASSUME TypeOK, PersistedCurrent, ElectionSafety, LogInv, TermRuns, LeaderRuns,
         NEW i \in Server, NEW cmd \in Command, Start(i, cmd) \/ CrashInStart(i, cmd),
         \A p \in Server : p # i => LogOf(p)' = LogOf(p)
  PROVE  TermRuns' /\ LeaderRuns'
<1> DEFINE e == NewEntry(i, cmd)
           X == LogOf(i)
           E == Longer(X, e)
<1>0. serverState[i] = "leader" /\ currentTerm[i] \in Nat
  BY DEF Start, CrashInStart, TypeOK
<1>1. e \in LogEntry /\ e.term = currentTerm[i]
  BY <1>0 DEF NewEntry, LogEntry
<1>2. X \in Piece /\ IsPiece(X) /\ Top(X) \in Nat
  BY LogPiece, PieceTypes
<1>3. MadeWith(E) /\ LeadersKept /\ (LogOf(i)' = E \/ serverState'[i] # "leader")
  BY StartMakes
<1> HIDE DEF e
<1>4. /\ \A W : IsPiece(W) => Runs(E, W) /\ Runs(W, E) /\ RunsToEnd(W, e.term, E)
      /\ Runs(E, E) /\ RunsToEnd(E, e.term, E)
  BY <1>0, <1>1, LongerRuns
<1> HIDE DEF X
<1>5. \A n \in Nat : Knows(E, n) => (n = Top(X) + 1 /\ TermIn(E, n) = e.term) \/ SameAt(E, X, n)
  BY <1>1, <1>2, LongerKnows
<1> HIDE DEF E
<1>6. TermRuns'
  BY <1>3, <1>4, MadeRuns
<1>7. ASSUME NEW p \in Server, serverState'[p] = "leader", NEW W, IsPiece(W) \/ W = E
      PROVE  RunsToEnd(W, currentTerm'[p], LogOf(p)')
  <2>1. serverState[p] = "leader" /\ currentTerm'[p] = currentTerm[p]
    BY <1>3, <1>7 DEF LeadersKept
  <2>2. CASE p = i
    BY <1>1, <1>3, <1>4, <1>7, <2>1, <2>2
  <2>3. CASE p # i
    <3> DEFINE L == LogOf(p)
               t == currentTerm[p]
    <3>1. t # e.term
      BY <1>0, <1>1, <2>1, <2>3, LeadersDiffer DEF LogInv
    <3>2. \A U : IsPiece(U) => RunsToEnd(U, t, L)
      BY <2>1 DEF LeaderRuns
    <3>3. LogOf(p)' = L
      BY <2>3
    <3> HIDE DEF L, t
    <3>4. RunsToEnd(E, t, L)
      <4> SUFFICES ASSUME NEW n \in Nat, NEW x \in Nat, 0 < n, n <= x,
                          Knows(E, n), Knows(L, x), TermIn(E, n) = t
                   PROVE  TermIn(L, x) = t
        BY DEF RunsToEnd
      <4>1. Knows(X, n) /\ TermIn(X, n) = t
        BY <1>5, <3>1 DEF SameAt
      <4> QED BY <1>2, <3>2, <4>1 DEF RunsToEnd
    <3>5. RunsToEnd(W, t, L)
      BY <1>7, <3>2, <3>4
    <3> QED BY <2>1, <3>3, <3>5 DEF t
  <2> QED BY <2>2, <2>3
<1>8. LeaderRuns'
  BY <1>3, <1>7, MadeToEnd
<1> QED BY <1>6, <1>8

\* A vote that makes a leader: no piece has its term yet.
LEMMA VoteCountedRuns ==
  ASSUME TypeOK, LogInv, ElectionSafety', TermRuns, LeaderRuns,
         NEW c \in voteCalls, VoteCounted(c)
  PROVE  TermRuns' /\ LeaderRuns'
<1>0. PICK i \in Server : i = c.src
  BY TypeParts, VoteCallKinds
<1>1. /\ serverState[i] = "candidate"
      /\ UNCHANGED <<currentTerm, logVars, calls>>
      /\ \/ /\ serverState' = [serverState EXCEPT ![i] = "leader"]
            /\ elected' = elected \cup {<<currentTerm[i], i>>}
         \/ UNCHANGED <<serverState, elected>>
  BY <1>0 DEF VoteCounted, Voting
<1>2. \A X : IsPiece(X)' <=> IsPiece(X)
  BY <1>1 DEF IsPiece, Requested, LogOf, logVars
<1>3. TermRuns'
  BY <1>2 DEF TermRuns
<1>4. ASSUME NEW p \in Server, serverState'[p] = "leader", NEW X, IsPiece(X)'
      PROVE  RunsToEnd(X, currentTerm'[p], LogOf(p)')
  <2>1. LogOf(p)' = LogOf(p) /\ currentTerm'[p] = currentTerm[p]
    BY <1>1 DEF LogOf, logVars
  <2>2. CASE serverState[p] = "leader"
    BY <1>2, <1>4, <2>1, <2>2 DEF LeaderRuns
  <2>3. CASE serverState[p] # "leader"
    <3>1. p = i /\ elected' = elected \cup {<<currentTerm[i], i>>}
      BY <1>1, <1>4, <2>3 DEF TypeOK
    <3>2. \A n \in Nat : 0 < n /\ Knows(X, n) => TermIn(X, n) # currentTerm[i]
      BY <1>1, <1>2, <1>4, <3>1, NewTermUnused
    <3> QED BY <2>1, <3>1, <3>2 DEF RunsToEnd
  <2> QED BY <2>2, <2>3
<1>5. LeaderRuns'
  BY <1>4 DEF LeaderRuns
<1> QED BY <1>3, <1>5

-----------------------------------------------------------------------------
(* Without snapshots nothing is compacted and nothing installed. *)

Plain ==
    \A i \in Server :
        /\ lastIncludedIndex[i] = 0 /\ lastIncludedTerm[i] = 0 /\ installers[i] = {}
        /\ serverState[i] = "leader" \/ ticker[i] => \A p \in Server : nextIndex[i][p] >= 1

IsAppend(c) == c.kind \in {"append", "appendReply"}

AppendsOnly ==
    \A x, y \in Server : \A k \in DOMAIN calls[x][y] : IsAppend(calls[x][y][k])

\* The steps that are left.
PlainServerStep(i) ==
    \/ doElection(i) \/ TickerObserve(i) \/ TickerSend(i)
    \/ BackgroundApplyRoutine(i) \/ Crash(i)
    \/ \E cmd \in Command : Start(i, cmd) \/ CrashInStart(i, cmd)
PlainCallStep(i, j, k) ==
    \/ AppendEntriesStale(i, j, k) \/ AppendEntriesMismatch(i, j, k)
    \/ AppendEntries(i, j, k)
    \/ AppendSucceeded(i, j, k) \/ AppendRefused(i, j, k)
    \/ ReplyIgnored(i, j, k) \/ ReplyStepDown(i, j, k)

\* No peer compacts its log or spawns an installer,
LEMMA PlainServer ==
  ASSUME Plain, Snapshots = FALSE, NEW i \in Server, ServerStep(i)
  PROVE  PlainServerStep(i)
<1>1. ASSUME NEW n, Snapshot(i, n) \/ CrashInSnapshot(i, n) PROVE FALSE
  BY <1>1 DEF Snapshot, CrashInSnapshot, MayCompact
<1>2. ASSUME NEW p, SendInstallSnapshot(i, p) PROVE FALSE
  BY <1>2 DEF SendInstallSnapshot, Plain
<1> QED BY <1>1, <1>2 DEF ServerStep, PlainServerStep

\* and no InstallSnapshot call is answered.
LEMMA PlainCall ==
  ASSUME AppendsOnly, NEW i \in Server, NEW j \in Server, NEW k \in DOMAIN calls[i][j],
         CallStep(i, j, k)
  PROVE  PlainCallStep(i, j, k)
<1>1. IsAppend(calls[i][j][k])
  BY DEF AppendsOnly
<1>2. calls[i][j][k].kind # "install" /\ calls[i][j][k].kind # "installReply"
  BY <1>1 DEF IsAppend
<1>3. ~InstallSnapshotEarly(i, j, k)
  BY <1>2 DEF InstallSnapshotEarly
<1>4. ~InstallSnapshot(i, j, k) /\ ~CrashInInstall(i, j, k)
  BY <1>2 DEF InstallSnapshot, CrashInInstall, Installs
<1>5. ~InstallSucceeded(i, j, k)
  BY <1>2 DEF InstallSucceeded
<1> QED BY <1>3, <1>4, <1>5 DEF CallStep, PlainCallStep

\* Nobody is behind a leader's log, nor behind one whose ticker() is to send.
LEMMA NoPeerBehind ==
  ASSUME TypeOK, Plain, NEW i \in Server, serverState[i] = "leader" \/ ticker[i]
  PROVE  /\ Behind(i) = {}
         /\ SpawnInstallers(i) => UNCHANGED installers
<1>1. ASSUME NEW p \in Server PROVE nextIndex[i][p] >= 1 /\ nextIndex[i][p] \in Nat
  <2>1. nextIndex[i][p] \in Nat
    BY DEF TypeOK
  <2>2. nextIndex[i][p] >= 1
    BY DEF Plain
  <2> QED BY <2>1, <2>2
<1>2. lastIncludedIndex[i] = 0
  BY DEF Plain
<1>3. Behind(i) = {}
  BY <1>1, <1>2 DEF Behind, Peers
<1>4. ASSUME SpawnInstallers(i) PROVE UNCHANGED installers
  <2>1. installers' = [installers EXCEPT ![i] = installers[i] \cup {}]
    BY <1>3, <1>4 DEF SpawnInstallers
  <2>2. installers[i] \cup {} = installers[i]
    OBVIOUS
  <2> QED BY <2>1, <2>2 DEF TypeOK
<1> QED BY <1>3, <1>4

\* The peer that sends is one of them.
LEMMA SenderLeads ==
  ASSUME NEW i \in Server, TickerSend(i)
  PROVE  serverState[i] = "leader" \/ ticker[i]
  BY DEF TickerSend

\* What keeps Plain: nothing is compacted, and nextIndex is set before a peer leads.
NextPositive ==
    \A i \in Server : serverState'[i] = "leader" \/ ticker'[i] =>
        \A p \in Server : nextIndex'[i][p] >= 1

\* A step that lets nobody begin to lead or to send leaves nextIndex positive.
LEMMA NextKept ==
  ASSUME Plain, UNCHANGED nextIndex,
         \A i \in Server : serverState'[i] = "leader" \/ ticker'[i] =>
            serverState[i] = "leader" \/ ticker[i]
  PROVE  NextPositive
  BY DEF Plain, NextPositive

\* A restart clears what the peer would send.
LEMMA RestartPlain ==
  ASSUME TypeOK, PersistedCurrent, Plain, NEW i \in Server, Make(i, persisted[i])
  PROVE  Plain'
<1>1. UNCHANGED logVars
  BY RestartLogs
<1>2. ASSUME NEW p \in Server PROVE installers'[p] = {}
  BY DEF Make, Plain, TypeOK
<1>3. /\ serverState' = [serverState EXCEPT ![i] = "follower"]
      /\ ticker' = [ticker EXCEPT ![i] = FALSE]
      /\ nextIndex' = [nextIndex EXCEPT ![i] = [p \in Server |-> 0]]
  BY DEF Make
<1>4. serverState'[i] = "follower" /\ ~ticker'[i]
  BY <1>3 DEF TypeOK
<1>5. ASSUME NEW p \in Server, p # i
      PROVE  serverState'[p] = serverState[p] /\ ticker'[p] = ticker[p] /\ nextIndex'[p] = nextIndex[p]
  BY <1>3, <1>5 DEF TypeOK
<1>6. NextPositive
  BY <1>4, <1>5 DEF NextPositive, Plain
<1> QED BY <1>1, <1>2, <1>6 DEF Plain, NextPositive, logVars

\* A step that compacts and spawns nothing and keeps nextIndex positive keeps Plain.
LEMMA PlainIf ==
  ASSUME Plain, UNCHANGED <<lastIncludedIndex, lastIncludedTerm, installers>>, NextPositive
  PROVE  Plain'
  BY DEF Plain, NextPositive

\* The steps of a peer,
LEMMA PlainServerKeeps ==
  ASSUME TypeOK, PersistedCurrent, Plain, NEW i \in Server, PlainServerStep(i)
  PROVE  Plain'
<1>1. CASE doElection(i)
  <2>1. /\ UNCHANGED <<lastIncludedIndex, lastIncludedTerm, installers, nextIndex, ticker>>
        /\ serverState' = [serverState EXCEPT ![i] = "candidate"]
    BY <1>1 DEF doElection, logVars, peerVars
  <2>2. \A p \in Server : serverState'[p] = "leader" => serverState[p] = "leader"
    BY <2>1 DEF TypeOK
  <2>3. NextPositive
    BY <2>1, <2>2, NextKept
  <2> QED BY <2>1, <2>3, PlainIf
<1>2. CASE TickerObserve(i)
  <2>1. /\ UNCHANGED <<lastIncludedIndex, lastIncludedTerm, installers, nextIndex, serverState>>
        /\ serverState[i] = "leader" /\ ticker' = [ticker EXCEPT ![i] = TRUE]
    BY <1>2 DEF TickerObserve, logVars, peerVars, termVars
  <2>2. \A p \in Server : p # i => ticker'[p] = ticker[p]
    BY <2>1 DEF TypeOK
  <2>3. NextPositive
    BY <2>1, <2>2, NextKept
  <2> QED BY <2>1, <2>3, PlainIf
<1>3. CASE TickerSend(i)
  <2>1. /\ UNCHANGED <<lastIncludedIndex, lastIncludedTerm, nextIndex, serverState>>
        /\ SpawnInstallers(i) /\ ticker' = [ticker EXCEPT ![i] = FALSE]
    BY <1>3 DEF TickerSend, logVars, peerVars, termVars
  <2>2. UNCHANGED installers
    BY <1>3, <2>1, SenderLeads, NoPeerBehind
  <2>3. ~ticker'[i] /\ \A p \in Server : p # i => ticker'[p] = ticker[p]
    BY <2>1 DEF TypeOK
  <2>4. NextPositive
    BY <2>1, <2>3, NextKept
  <2> QED BY <2>1, <2>2, <2>4, PlainIf
<1>4. CASE BackgroundApplyRoutine(i)
  <2>1. UNCHANGED <<lastIncludedIndex, lastIncludedTerm, installers, nextIndex, serverState, ticker>>
    BY <1>4 DEF BackgroundApplyRoutine, logVars, peerVars, termVars
  <2>2. NextPositive
    BY <2>1, NextKept
  <2> QED BY <2>1, <2>2, PlainIf
<1>5. CASE Crash(i) \/ \E cmd \in Command : CrashInStart(i, cmd)
  BY <1>5, RestartPlain DEF Crash, CrashInStart
<1>6. ASSUME NEW cmd \in Command, Start(i, cmd) PROVE Plain'
  <2>1. /\ UNCHANGED <<lastIncludedIndex, lastIncludedTerm, nextIndex, serverState, ticker>>
        /\ serverState[i] = "leader" /\ SpawnInstallers(i)
    BY <1>6 DEF Start, termVars
  <2>2. UNCHANGED installers
    BY <2>1, NoPeerBehind
  <2>3. NextPositive
    BY <2>1, NextKept
  <2> QED BY <2>1, <2>2, <2>3, PlainIf
<1> QED BY <1>1, <1>2, <1>3, <1>4, <1>5, <1>6 DEF PlainServerStep

\* of a vote call,
LEMMA PlainVoteKeeps ==
  ASSUME TypeOK, Plain, NEW c \in voteCalls, VoteStep(c)
  PROVE  Plain'
<1>0. PICK i \in Server, j \in Server : i = c.src /\ j = c.dst
  BY TypeParts, VoteCallKinds
<1>1. UNCHANGED <<lastIncludedIndex, lastIncludedTerm, installers, ticker>>
  BY DEF VoteStep, RequestVoteStale, RequestVote, VoteIgnored, VoteStepDown, VoteCounted, logVars
<1>2. CASE UNCHANGED <<nextIndex, serverState>>
  BY <1>1, <1>2, NextKept, PlainIf
<1>3. CASE RequestVote(c) \/ VoteStepDown(c)
  <2>1. UNCHANGED nextIndex
    BY <1>3 DEF RequestVote, VoteStepDown, peerVars
  <2>2. ASSUME NEW p \in Server, serverState'[p] = "leader" PROVE serverState[p] = "leader"
    <3>1. CASE RequestVote(c)
      <4>1. PICK st : serverState' = [serverState EXCEPT ![j] = st] /\ st \in {"follower", serverState[j]}
        BY <1>0, <3>1 DEF RequestVote
      <4> QED BY <2>2, <4>1 DEF TypeOK
    <3>2. CASE VoteStepDown(c)
      <4>1. serverState' = [serverState EXCEPT ![i] = "follower"]
        BY <1>0, <3>2 DEF VoteStepDown, AdoptTerm
      <4> QED BY <2>2, <4>1 DEF TypeOK
    <3> QED BY <1>3, <3>1, <3>2
  <2>3. NextPositive
    BY <1>1, <2>1, <2>2, NextKept
  <2> QED BY <1>1, <2>3, PlainIf
<1>4. CASE VoteCounted(c) /\ ~UNCHANGED <<nextIndex, serverState>>
  <2>1. /\ serverState' = [serverState EXCEPT ![i] = "leader"]
        /\ nextIndex' = [nextIndex EXCEPT ![i] = [p \in Server |-> lastLogIndex(i) + 1]]
    BY <1>0, <1>4 DEF VoteCounted, initLeaderIndex, SetLeaderIndex, peerVars
  <2>2. lastLogIndex(i) \in Nat
    BY TypeParts, LastLogType
  <2>3. \A p \in Server : nextIndex'[i][p] = lastLogIndex(i) + 1
    BY <2>1 DEF TypeOK
  <2>4. \A p \in Server : p # i => serverState'[p] = serverState[p] /\ nextIndex'[p] = nextIndex[p]
    BY <2>1 DEF TypeOK
  <2>5. ASSUME NEW p \in Server PROVE nextIndex'[i][p] >= 1
    BY <2>2, <2>3
  <2>6. ASSUME NEW p \in Server, p # i, serverState'[p] = "leader" \/ ticker'[p], NEW q \in Server
        PROVE  nextIndex'[p][q] >= 1
    BY <1>1, <2>4, <2>6 DEF Plain
  <2>7. NextPositive
    BY <2>5, <2>6 DEF NextPositive
  <2> QED BY <1>1, <2>7, PlainIf
<1>5. CASE RequestVoteStale(c) \/ VoteIgnored(c)
  <2>1. UNCHANGED <<nextIndex, serverState>>
    BY <1>5 DEF RequestVoteStale, VoteIgnored, peerVars, termVars
  <2> QED BY <1>2, <2>1
<1> QED BY <1>2, <1>3, <1>4, <1>5 DEF VoteStep

\* and of a call.
LEMMA PlainCallKeeps ==
  ASSUME TypeOK, Plain, NEW i \in Server, NEW j \in Server, NEW k \in DOMAIN calls[i][j],
         PlainCallStep(i, j, k)
  PROVE  Plain'
<1> DEFINE r == calls[i][j][k]
<1>1. UNCHANGED <<lastIncludedIndex, lastIncludedTerm, installers, ticker>>
  BY DEF PlainCallStep, AppendEntriesStale, AppendEntriesMismatch, AppendEntries, AppendSucceeded,
         AppendRefused, ReplyIgnored, ReplyStepDown, logVars
<1>2. CASE \/ AppendEntriesStale(i, j, k) \/ AppendEntriesMismatch(i, j, k)
           \/ AppendEntries(i, j, k) \/ ReplyIgnored(i, j, k) \/ ReplyStepDown(i, j, k)
  <2>1. UNCHANGED nextIndex
    BY <1>2 DEF AppendEntriesStale, AppendEntriesMismatch, AppendEntries, ReplyIgnored,
                ReplyStepDown, peerVars
  <2>2. UNCHANGED serverState \/ \E p \in Server : serverState' = [serverState EXCEPT ![p] = "follower"]
    BY <1>2 DEF AppendEntriesStale, AppendEntriesMismatch, AppendEntries, ReplyIgnored,
                ReplyStepDown, AdoptTerm, termVars
  <2>3. \A p \in Server : serverState'[p] = "leader" => serverState[p] = "leader"
    BY <2>2 DEF TypeOK
  <2>4. NextPositive
    BY <1>1, <2>1, <2>3, NextKept
  <2> QED BY <1>1, <2>4, PlainIf
<1>3. CASE AppendSucceeded(i, j, k) \/ AppendRefused(i, j, k)
  <2>1. UNCHANGED serverState
    BY <1>3 DEF AppendSucceeded, AppendRefused, termVars
  <2>2. \E n \in Nat : n >= 1 /\ nextIndex' = [nextIndex EXCEPT ![i][j] = n]
    <3>0. calls \in Links /\ r.kind = "appendReply"
      BY <1>3, TypeParts DEF AppendSucceeded, AppendRefused
    <3>1. r \in AppendReplies
      BY <3>0, CallKinds
    <3> HIDE DEF r
    <3>2. r.prevI \in Nat /\ r.ent \in Nat /\ r.XLen \in Nat /\ r.XIndex \in Nat
      BY <3>1 DEF AppendReplies
    <3>3. CASE AppendSucceeded(i, j, k)
      <4>1. nextIndex' = [nextIndex EXCEPT ![i][j] = r.prevI + r.ent + 1]
        BY <3>3 DEF AppendSucceeded, r
      <4>2. r.prevI + r.ent + 1 \in Nat /\ r.prevI + r.ent + 1 >= 1
        BY <3>2
      <4> QED BY <4>1, <4>2
    <3>4. CASE AppendRefused(i, j, k)
      <4>1. PICK n : /\ n \in {r.XLen, r.XIndex} \cup (2..Len(log[i]))
                     /\ nextIndex' = [nextIndex EXCEPT ![i][j] = Larger(n, 1)]
        BY <3>4 DEF AppendRefused, Holding, r
      <4>2. n \in Nat
        <5>1. Len(log[i]) \in Nat
          BY DEF TypeOK
        <5> QED BY <3>2, <4>1, <5>1
      <4>3. Larger(n, 1) \in Nat /\ Larger(n, 1) >= 1
        BY <4>2 DEF Larger
      <4> QED BY <4>1, <4>3
    <3> QED BY <1>3, <3>3, <3>4
  <2>3. PICK n \in Nat : n >= 1 /\ nextIndex' = [nextIndex EXCEPT ![i][j] = n]
    BY <2>2
  <2>4. ASSUME NEW p \in Server, serverState'[p] = "leader" \/ ticker'[p], NEW q \in Server
        PROVE  nextIndex'[p][q] >= 1
    <3>1. nextIndex[p][q] >= 1
      BY <1>1, <2>1, <2>4 DEF Plain
    <3>2. nextIndex'[p][q] \in {n, nextIndex[p][q]}
      BY <2>3 DEF TypeOK
    <3> QED BY <2>3, <3>1, <3>2
  <2>5. NextPositive
    BY <2>4 DEF NextPositive
  <2> QED BY <1>1, <2>5, PlainIf
<1> QED BY <1>2, <1>3 DEF PlainCallStep

-----------------------------------------------------------------------------
(* What becomes of a peer that has calls on their way.  A peer is its term, *)
(* its state and its log.                                                   *)

Stays(t, st, lg, t2, st2, lg2) ==
    \/ st2 = "follower" /\ t2 >= t
    \/ st2 = "candidate" /\ t2 > t
    \/ t2 = t /\ st2 = st /\ lg2 = lg
WinsVote(t, st, lg, t2, st2, lg2) ==
    t2 = t /\ st = "candidate" /\ st2 = "leader" /\ lg2 = lg
Appends(t, st, lg, t2, st2, lg2) ==
    /\ t2 = t /\ st = "leader" /\ st2 = "leader"
    /\ \E e \in LogEntry : e.term = t /\ lg2 = Append(lg, e)

StaysAt(x) == Stays(currentTerm[x], serverState[x], log[x], currentTerm'[x], serverState'[x], log'[x])
WinsAt(x) == WinsVote(currentTerm[x], serverState[x], log[x], currentTerm'[x], serverState'[x], log'[x])
AppendsAt(x) ==
    Appends(currentTerm[x], serverState[x], log[x], currentTerm'[x], serverState'[x], log'[x])

\* A step that changes no peer,
LEMMA StaySame ==
  ASSUME UNCHANGED <<currentTerm, serverState, log>>
  PROVE  \A x \in Server : StaysAt(x)
  BY DEF StaysAt, Stays

\* one that changes a single peer,
LEMMA StayOthers ==
  ASSUME NEW j \in Server, StaysAt(j),
         \A x \in Server : x # j =>
            currentTerm'[x] = currentTerm[x] /\ serverState'[x] = serverState[x] /\ log'[x] = log[x]
  PROVE  \A x \in Server : StaysAt(x)
  BY DEF StaysAt, Stays

\* one that adopts a term,
LEMMA StayAdopt ==
  ASSUME TypeOK, NEW j \in Server, NEW t \in Nat, t >= currentTerm[j], AdoptTerm(j, t),
         \A x \in Server : x # j => log'[x] = log[x]
  PROVE  \A x \in Server : StaysAt(x)
<1>1. currentTerm'[j] = t /\ serverState'[j] = "follower"
  BY DEF AdoptTerm, TypeOK
<1>2. \A x \in Server : x # j => currentTerm'[x] = currentTerm[x] /\ serverState'[x] = serverState[x]
  BY DEF AdoptTerm, TypeOK
<1>3. StaysAt(j)
  BY <1>1 DEF StaysAt, Stays
<1> QED BY <1>2, <1>3, StayOthers

\* and a restart.
LEMMA StayRestart ==
  ASSUME TypeOK, PersistedCurrent, NEW j \in Server, Make(j, persisted[j])
  PROVE  \A x \in Server : StaysAt(x)
<1>1. UNCHANGED logVars
  BY RestartLogs
<1>2. persisted[j].currentTerm = currentTerm[j] /\ currentTerm[j] \in Nat
  BY DEF PersistedCurrent, RaftState, TypeOK
<1>3. currentTerm'[j] = currentTerm[j] /\ serverState'[j] = "follower"
  BY <1>2 DEF Make, TypeOK
<1>4. \A x \in Server : x # j => currentTerm'[x] = currentTerm[x] /\ serverState'[x] = serverState[x]
  BY DEF Make, TypeOK
<1>5. StaysAt(j)
  BY <1>2, <1>3 DEF StaysAt, Stays
<1> QED BY <1>1, <1>4, <1>5, StayOthers DEF logVars

\* The steps of a peer other than Start(),
LEMMA StayServer ==
  ASSUME TypeOK, PersistedCurrent, NEW i \in Server, PlainServerStep(i)
  PROVE  (\A x \in Server : StaysAt(x)) \/ \E cmd \in Command : Start(i, cmd)
<1>1. CASE doElection(i)
  <2>1. /\ UNCHANGED log /\ currentTerm' = [currentTerm EXCEPT ![i] = @ + 1]
        /\ serverState' = [serverState EXCEPT ![i] = "candidate"]
    BY <1>1 DEF doElection, logVars
  <2>2. /\ currentTerm'[i] = currentTerm[i] + 1 /\ serverState'[i] = "candidate"
        /\ currentTerm[i] \in Nat
    BY <2>1 DEF TypeOK
  <2>3. StaysAt(i)
    BY <2>2 DEF StaysAt, Stays
  <2>4. \A x \in Server : x # i => currentTerm'[x] = currentTerm[x] /\ serverState'[x] = serverState[x]
    BY <2>1 DEF TypeOK
  <2> QED BY <2>1, <2>3, <2>4, StayOthers
<1>2. CASE TickerObserve(i) \/ TickerSend(i) \/ BackgroundApplyRoutine(i)
  <2>1. UNCHANGED <<currentTerm, serverState, log>>
    BY <1>2 DEF TickerObserve, TickerSend, BackgroundApplyRoutine, termVars, logVars
  <2> QED BY <2>1, StaySame
<1>3. CASE Crash(i) \/ \E cmd \in Command : CrashInStart(i, cmd)
  BY <1>3, StayRestart DEF Crash, CrashInStart
<1> QED BY <1>1, <1>2, <1>3 DEF PlainServerStep

\* those of a vote call other than counting it,
LEMMA StayVote ==
  ASSUME TypeOK, NEW c \in voteCalls, VoteStep(c)
  PROVE  (\A x \in Server : StaysAt(x)) \/ VoteCounted(c)
<1>0. PICK i \in Server, j \in Server, t \in Nat : i = c.src /\ j = c.dst /\ t = c.term
  BY TypeParts, VoteCallKinds
<1>1. CASE RequestVoteStale(c) \/ VoteIgnored(c)
  <2>1. UNCHANGED <<currentTerm, serverState, log>>
    BY <1>1 DEF RequestVoteStale, VoteIgnored, termVars, logVars
  <2> QED BY <2>1, StaySame
<1>2. CASE RequestVote(c)
  <2>1. /\ UNCHANGED log /\ t >= currentTerm[j]
        /\ currentTerm' = [currentTerm EXCEPT ![j] = t]
        /\ serverState' = [serverState EXCEPT ![j] =
                             IF t > currentTerm[j] THEN "follower" ELSE serverState[j]]
    BY <1>0, <1>2 DEF RequestVote, logVars
  <2>2. /\ currentTerm'[j] = t /\ currentTerm[j] \in Nat
        /\ serverState'[j] = IF t > currentTerm[j] THEN "follower" ELSE serverState[j]
    BY <2>1 DEF TypeOK
  <2>3. StaysAt(j)
    <3>1. CASE t > currentTerm[j]
      BY <2>1, <2>2, <3>1 DEF StaysAt, Stays
    <3>2. CASE t = currentTerm[j]
      BY <2>1, <2>2, <3>2 DEF StaysAt, Stays
    <3> QED BY <2>1, <2>2, <3>1, <3>2
  <2>4. \A x \in Server : x # j => currentTerm'[x] = currentTerm[x] /\ serverState'[x] = serverState[x]
    BY <2>1 DEF TypeOK
  <2> QED BY <2>1, <2>3, <2>4, StayOthers
<1>3. CASE VoteStepDown(c)
  <2>1. PICK u \in Nat : u = c.replyTerm
    BY <1>3, TypeParts, VoteCallKinds DEF VoteStepDown
  <2>2. u > currentTerm[i] /\ AdoptTerm(i, u) /\ UNCHANGED log /\ currentTerm[i] \in Nat
    BY <1>0, <1>3, <2>1 DEF VoteStepDown, logVars, TypeOK
  <2>3. u >= currentTerm[i]
    BY <2>2
  <2> QED BY <2>2, <2>3, StayAdopt
<1> QED BY <1>1, <1>2, <1>3 DEF VoteStep

\* and those of a call.
LEMMA StayCall ==
  ASSUME TypeOK, NEW i \in Server, NEW j \in Server, NEW k \in DOMAIN calls[i][j],
         PlainCallStep(i, j, k)
  PROVE  \A x \in Server : StaysAt(x)
<1> DEFINE a == calls[i][j][k]
<1>0. a.term \in Nat /\ (~IsRequest(a) => a.replyTerm \in Nat)
  BY TypeParts, CallKinds
<1>1. CASE \/ AppendEntriesStale(i, j, k) \/ AppendSucceeded(i, j, k)
           \/ AppendRefused(i, j, k) \/ ReplyIgnored(i, j, k)
  <2>1. UNCHANGED <<currentTerm, serverState, log>>
    BY <1>1 DEF AppendEntriesStale, AppendSucceeded, AppendRefused, ReplyIgnored, termVars, logVars
  <2> QED BY <2>1, StaySame
<1>2. CASE AppendEntriesMismatch(i, j, k) \/ AppendEntries(i, j, k)
  <2>1. a.term >= currentTerm[j] /\ AdoptTerm(j, a.term) /\ a.term \in Nat
    BY <1>0, <1>2 DEF AppendEntriesMismatch, AppendEntries
  <2>2. \A x \in Server : x # j => log'[x] = log[x]
    BY <1>2 DEF AppendEntriesMismatch, AppendEntries, logVars, TypeOK
  <2> HIDE DEF a
  <2> QED BY <2>1, <2>2, StayAdopt
<1>3. CASE ReplyStepDown(i, j, k)
  <2>1. /\ a.replyTerm > currentTerm[i] /\ AdoptTerm(i, a.replyTerm) /\ UNCHANGED log
        /\ ~IsRequest(a) /\ currentTerm[i] \in Nat
    BY <1>3 DEF ReplyStepDown, logVars, TypeOK
  <2>2. a.replyTerm \in Nat
    BY <1>0, <2>1
  <2>3. a.replyTerm >= currentTerm[i]
    BY <2>1, <2>2
  <2> HIDE DEF a
  <2> QED BY <2>1, <2>2, <2>3, StayAdopt
<1> QED BY <1>1, <1>2, <1>3 DEF PlainCallStep

\* A vote that is counted may win the election,
LEMMA VoteMoves ==
  ASSUME TypeOK, NEW c \in voteCalls, VoteCounted(c)
  PROVE  \A x \in Server : StaysAt(x) \/ WinsAt(x)
<1>0. PICK i \in Server : i = c.src
  BY TypeParts, VoteCallKinds
<1>1. /\ UNCHANGED <<currentTerm, log>> /\ serverState[i] = "candidate"
      /\ serverState' = [serverState EXCEPT ![i] = "leader"] \/ UNCHANGED serverState
  BY <1>0 DEF VoteCounted, Voting, logVars
<1>2. \A x \in Server : serverState'[x] = serverState[x] \/ (x = i /\ serverState'[x] = "leader")
  BY <1>1 DEF TypeOK
<1> QED BY <1>1, <1>2 DEF StaysAt, Stays, WinsAt, WinsVote

\* and Start() makes the log of one leader longer.
LEMMA StartMoves ==
  ASSUME TypeOK, NEW i \in Server, NEW cmd \in Command, Start(i, cmd)
  PROVE  \A x \in Server : IF x = i THEN AppendsAt(x) ELSE StaysAt(x)
<1>1. /\ UNCHANGED <<currentTerm, serverState>> /\ serverState[i] = "leader"
      /\ log' = [log EXCEPT ![i] = Append(log[i], NewEntry(i, cmd))]
  BY DEF Start, termVars
<1>2. NewEntry(i, cmd) \in LogEntry /\ NewEntry(i, cmd).term = currentTerm[i]
  BY DEF NewEntry, LogEntry, TypeOK
<1>3. log'[i] = Append(log[i], NewEntry(i, cmd)) /\ \A x \in Server : x # i => log'[x] = log[x]
  BY <1>1 DEF TypeOK
<1>4. AppendsAt(i)
  BY <1>1, <1>2, <1>3 DEF AppendsAt, Appends
<1> QED BY <1>1, <1>3, <1>4 DEF StaysAt, Stays

-----------------------------------------------------------------------------
(* The calls of a peer whose term, state and log are t, st and lg. *)

\* What the request says of prevLogIndex is so in the log.
AskedOf(c, lg) ==
    /\ c.prevLogIndex <= Len(lg)
    /\ c.prevLogIndex > 0 => lg[c.prevLogIndex].term = c.prevLogTerm

\* The hint of a refusal points before the index that was refused, and the log
\* has nothing of the hinted term behind it.
Hint(c, lg) ==
    ~c.success /\ c.replyTerm <= c.term =>
        \/ c.XTerm = -1 /\ c.XLen \in 1..c.prevI
        \/ /\ c.XTerm # -1 /\ c.XTerm # c.term /\ c.XIndex \in 1..c.prevI
           /\ \A n \in 1..Len(lg) : lg[n].term = c.XTerm => n <= c.prevI

CallFits(c, t, st, lg) ==
    /\ IsAppend(c)
    /\ c.term <= t
    /\ c.kind = "append" /\ c.prevLogIndex = 0 => c.prevLogTerm = 0
    /\ c.term = t =>
          /\ c.kind = "append" /\ st # "follower" => AskedOf(c, lg)
          /\ c.kind = "appendReply" => st # "candidate"
          /\ c.kind = "appendReply" /\ st = "leader" => Hint(c, lg)

CallsFit ==
    \A x, y \in Server : \A k \in DOMAIN calls[x][y] :
        CallFits(calls[x][y][k], currentTerm[x], serverState[x], log[x])

\* A call goes on to fit a peer that stays, wins its election or appends an entry.
LEMMA FitsKept ==
  ASSUME NEW c \in Call, NEW t \in Nat, NEW st, NEW lg \in Seq(LogEntry),
         NEW t2 \in Nat, NEW st2, NEW lg2, CallFits(c, t, st, lg),
         Stays(t, st, lg, t2, st2, lg2) \/ WinsVote(t, st, lg, t2, st2, lg2)
           \/ Appends(t, st, lg, t2, st2, lg2)
  PROVE  CallFits(c, t2, st2, lg2)
<1>0. /\ c.term \in Nat
      /\ c.kind = "append" => c.prevLogIndex \in Nat /\ c.prevLogTerm \in Nat
      /\ c.kind = "appendReply" => c.prevI \in Nat
  BY DEF Call, AppendRequest, AppendReplies, InstallRequest, InstallReplies
<1>1. CASE st2 = "follower" /\ t2 >= t
  <2>1. c.term <= t2
    BY <1>0, <1>1 DEF CallFits
  <2> QED BY <1>1, <2>1 DEF CallFits
<1>2. CASE st2 = "candidate" /\ t2 > t
  <2>1. c.term <= t2 /\ c.term # t2
    BY <1>0, <1>2 DEF CallFits
  <2> QED BY <2>1 DEF CallFits
<1>3. CASE t2 = t /\ st2 = st /\ lg2 = lg
  BY <1>3
<1>4. CASE WinsVote(t, st, lg, t2, st2, lg2)
  BY <1>4 DEF WinsVote, CallFits
<1>5. CASE Appends(t, st, lg, t2, st2, lg2)
  <2>1. t2 = t /\ st = "leader" /\ st2 = "leader"
    BY <1>5 DEF Appends
  <2>2. PICK e \in LogEntry : e.term = t /\ lg2 = Append(lg, e)
    BY <1>5 DEF Appends
  <2>3. /\ Len(lg) \in Nat /\ Len(lg2) = Len(lg) + 1 /\ lg2[Len(lg) + 1] = e
        /\ \A n \in 1..Len(lg) : lg2[n] = lg[n]
    BY <2>2
  <2>4. ASSUME c.kind = "append", AskedOf(c, lg) PROVE AskedOf(c, lg2)
    <3>1. c.prevLogIndex <= Len(lg2)
      BY <1>0, <2>3, <2>4 DEF AskedOf
    <3>2. ASSUME c.prevLogIndex > 0 PROVE lg2[c.prevLogIndex].term = c.prevLogTerm
      <4>1. c.prevLogIndex \in 1..Len(lg)
        BY <1>0, <2>3, <2>4, <3>2 DEF AskedOf
      <4> QED BY <2>3, <2>4, <3>2, <4>1 DEF AskedOf
    <3> QED BY <3>1, <3>2 DEF AskedOf
  <2>5. ASSUME c.kind = "appendReply", c.term = t, Hint(c, lg) PROVE Hint(c, lg2)
    <3> SUFFICES ASSUME ~c.success /\ c.replyTerm <= c.term
                 PROVE  \/ c.XTerm = -1 /\ c.XLen \in 1..c.prevI
                        \/ /\ c.XTerm # -1 /\ c.XTerm # c.term /\ c.XIndex \in 1..c.prevI
                           /\ \A n \in 1..Len(lg2) : lg2[n].term = c.XTerm => n <= c.prevI
      BY DEF Hint
    <3>1. CASE c.XTerm = -1 /\ c.XLen \in 1..c.prevI
      BY <3>1
    <3>2. CASE /\ c.XTerm # -1 /\ c.XTerm # c.term /\ c.XIndex \in 1..c.prevI
               /\ \A n \in 1..Len(lg) : lg[n].term = c.XTerm => n <= c.prevI
      <4>1. ASSUME NEW n \in 1..Len(lg2), lg2[n].term = c.XTerm PROVE n <= c.prevI
        <5>1. n # Len(lg) + 1
          BY <2>2, <2>3, <2>5, <3>2, <4>1
        <5>2. n \in 1..Len(lg)
          BY <2>3, <4>1, <5>1
        <5> QED BY <2>3, <3>2, <4>1, <5>2
      <4> QED BY <3>2, <4>1
    <3> QED BY <2>5, <3>1, <3>2 DEF Hint
  <2>6. CASE c.term # t
    BY <2>1, <2>6 DEF CallFits
  <2>7. CASE c.term = t
    BY <2>1, <2>4, <2>5, <2>7 DEF CallFits
  <2> QED BY <2>6, <2>7
<1> QED BY <1>1, <1>2, <1>3, <1>4, <1>5 DEF Stays

\* A request of Start() or ticker() fits the log the loop runs with.
LEMMA ArgsFit ==
  ASSUME TypeOK, Plain, NEW i \in Server, serverState[i] = "leader" \/ ticker[i],
         NEW lg \in Seq(LogEntry), InSlice(i, lg), NEW p \in Peers(i), NEW st
  PROVE  CallFits(AppendArgs(i, p, lg), currentTerm[i], st, lg)
<1> DEFINE c == AppendArgs(i, p, lg)
<1>1. /\ p \in Server /\ nextIndex[i][p] \in Nat /\ nextIndex[i][p] >= 1
      /\ lastIncludedIndex[i] = 0 /\ lastIncludedTerm[i] = 0 /\ currentTerm[i] \in Nat
  <2>1. p \in Server
    BY DEF Peers
  <2>2. nextIndex[i][p] \in Nat /\ currentTerm[i] \in Nat
    BY <2>1 DEF TypeOK
  <2>3. lastIncludedIndex[i] = 0 /\ lastIncludedTerm[i] = 0 /\ nextIndex[i][p] >= 1
    BY <2>1 DEF Plain
  <2> QED BY <2>1, <2>2, <2>3
<1>2. Behind(i) = {}
  BY NoPeerBehind
<1>3. nextIndex[i][p] <= Len(lg) + 1 /\ Len(lg) \in Nat
  BY <1>1, <1>2 DEF InSlice
<1>4. PICK b \in Nat : b = nextIndex[i][p] - 1
  BY <1>1
<1>5. b <= Len(lg)
  BY <1>1, <1>3, <1>4
<1>6. /\ c.kind = "append" /\ c.term = currentTerm[i] /\ c.prevLogIndex = b
      /\ c.prevLogTerm = TermAt(i, lg, b)
  BY <1>4 DEF AppendArgs
<1>7. (b = 0 => TermAt(i, lg, b) = 0) /\ (b > 0 => TermAt(i, lg, b) = lg[b].term)
  <2>1. b - 0 = b
    BY <1>4
  <2> QED BY <1>1, <2>1 DEF TermAt
<1> HIDE DEF c
<1>8. AskedOf(c, lg)
  BY <1>5, <1>6, <1>7 DEF AskedOf
<1>9. c.term <= currentTerm[i]
  BY <1>1, <1>6
<1>10. IsAppend(c) /\ c.kind # "appendReply"
  BY <1>6 DEF IsAppend
<1> QED BY <1>6, <1>7, <1>8, <1>9, <1>10 DEF CallFits, c

\* A reply fits a leader if its hint does.
LEMMA ReplyFits ==
  ASSUME TypeOK, NEW i \in Server, NEW c, c.kind = "appendReply", Leading(i, c), Hint(c, log[i])
  PROVE  CallFits(c, currentTerm[i], serverState[i], log[i])
<1>1. currentTerm[i] \in Nat
  BY DEF TypeOK
<1>2. c.term = currentTerm[i] /\ serverState[i] = "leader" /\ c.term <= currentTerm[i]
  BY <1>1 DEF Leading
<1> QED BY <1>2 DEF CallFits, IsAppend

\* A log that was never compacted.
LEMMA FullLog ==
  ASSUME TypeOK, Plain, NEW i \in Server
  PROVE  /\ Len(log[i]) \in Nat /\ lastLogIndex(i) = Len(log[i])
         /\ \A n \in Nat : Knows(LogOf(i), n) <=> n <= Len(log[i])
         /\ \A n \in Nat : 0 < n => TermIn(LogOf(i), n) = log[i][n].term
         /\ \A n \in Nat : TermAt(i, log[i], n) = IF 0 < n THEN log[i][n].term ELSE 0
<1>1. Len(log[i]) \in Nat
  BY DEF TypeOK
<1>2. lastIncludedIndex[i] = 0 /\ lastIncludedTerm[i] = 0
  BY DEF Plain
<1>3. LogOf(i).base = 0 /\ LogOf(i).entries = log[i]
  BY <1>2 DEF LogOf
<1>4. ASSUME NEW n \in Nat PROVE n - 0 = n /\ 0 <= n /\ 0 + Len(log[i]) = Len(log[i])
  BY <1>1
<1>5. lastLogIndex(i) = Len(log[i])
  BY <1>1, <1>2 DEF lastLogIndex
<1>6. ASSUME NEW n \in Nat PROVE Knows(LogOf(i), n) <=> n <= Len(log[i])
  BY <1>3, <1>4 DEF Knows, Top
<1>7. ASSUME NEW n \in Nat, 0 < n PROVE TermIn(LogOf(i), n) = log[i][n].term
  BY <1>3, <1>4, <1>7 DEF TermIn
<1>8. ASSUME NEW n \in Nat PROVE TermAt(i, log[i], n) = IF 0 < n THEN log[i][n].term ELSE 0
  BY <1>2, <1>4 DEF TermAt
<1> QED BY <1>1, <1>5, <1>6, <1>7, <1>8

\* The refusing handler's hint is good for the leader that asked.  The log of
\* the handler has another term at prevLogIndex than the leader's; where the
\* leader has that term at all, it has it further down.
LEMMA RefusalHints ==
  ASSUME TypeOK, Plain, TermRuns, LeaderRuns, CallsFit, NEW i \in Server, NEW j \in Server,
         NEW k \in DOMAIN calls[i][j], AppendEntriesMismatch(i, j, k)
  PROVE  \E r : /\ Answer(i, j, k, r) /\ r.kind = "appendReply"
                /\ Leading(i, r) => Hint(r, log[i])
<1> DEFINE a == calls[i][j][k]
           prev == a.prevLogIndex
           reply(T, x, l) == AppendReply(a, currentTerm[j], FALSE, T, x, l)
<1>0. a.kind = "append" /\ ~PrevMatches(j, a)
  BY DEF AppendEntriesMismatch
<1>1. prev \in Nat /\ a.prevLogTerm \in Nat /\ a.term \in Nat
  <2>1. a \in AppendRequest
    BY <1>0, TypeParts, CallKinds
  <2> HIDE DEF a
  <2> QED BY <2>1 DEF AppendRequest
<1>2. CallFits(a, currentTerm[i], serverState[i], log[i])
  BY DEF CallsFit
<1>3. /\ lastIncludedIndex[j] = 0 /\ lastLogIndex(j) = Len(log[j]) /\ Len(log[j]) \in Nat
      /\ TermAt(j, log[j], prev) = IF 0 < prev THEN log[j][prev].term ELSE 0
  BY <1>1, FullLog DEF Plain
<1>4. \/ prev > Len(log[j]) /\ Answer(i, j, k, reply(-1, 0, Len(log[j]) + 1))
      \/ prev <= 0 /\ Answer(i, j, k, reply(0, 0, 0))
      \/ /\ prev <= Len(log[j])
         /\ \E x \in 1..prev : Answer(i, j, k, reply(TermAt(j, log[j], prev), x, 0))
  <2>1. 0 + 1 = 1
    OBVIOUS
  <2> QED BY <1>3, <2>1 DEF AppendEntriesMismatch
<1>5. ASSUME NEW T, NEW x, NEW l
      PROVE  /\ reply(T, x, l).kind = "appendReply" /\ reply(T, x, l).term = a.term
             /\ reply(T, x, l).XTerm = T /\ reply(T, x, l).XIndex = x
             /\ reply(T, x, l).XLen = l /\ reply(T, x, l).prevI = prev
  BY DEF AppendReply
<1> HIDE DEF a, reply
<1>6. CASE prev > Len(log[j]) /\ Answer(i, j, k, reply(-1, 0, Len(log[j]) + 1))
  <2>1. Len(log[j]) + 1 \in 1..prev
    BY <1>1, <1>3, <1>6
  <2>2. Hint(reply(-1, 0, Len(log[j]) + 1), log[i])
    BY <1>5, <2>1 DEF Hint
  <2> QED BY <1>5, <1>6, <2>2
<1>7. CASE prev <= 0
  <2>1. prev = 0
    BY <1>1, <1>7
  <2>2. a.prevLogTerm = 0
    BY <1>0, <1>2, <2>1 DEF CallFits
  <2>3. TermAt(j, log[j], prev) = 0
    BY <1>3, <2>1
  <2>4. PrevMatches(j, a)
    BY <1>3, <2>1, <2>2, <2>3 DEF PrevMatches
  <2> QED BY <1>0, <2>4
<1>8. ASSUME NEW x \in 1..prev, prev <= Len(log[j]),
             Answer(i, j, k, reply(TermAt(j, log[j], prev), x, 0))
      PROVE  \E r : /\ Answer(i, j, k, r) /\ r.kind = "appendReply"
                    /\ Leading(i, r) => Hint(r, log[i])
  <2> DEFINE T == TermAt(j, log[j], prev)
             r == reply(T, x, 0)
  <2>1. 0 < prev /\ T = log[j][prev].term /\ prev \in 1..Len(log[j])
    BY <1>1, <1>3, <1>8
  <2>2. T # a.prevLogTerm
    <3>1. prev \in lastIncludedIndex[j] .. lastLogIndex(j)
      BY <1>1, <1>3, <1>8
    <3> QED BY <1>0, <3>1 DEF PrevMatches
  <2>3. T \in Nat
    <3>1. log[j] \in Seq(LogEntry)
      BY DEF TypeOK
    <3>2. log[j][prev] \in LogEntry
      BY <2>1, <3>1
    <3> QED BY <2>1, <3>2 DEF LogEntry
  <2>4. ASSUME Leading(i, r) PROVE Hint(r, log[i])
    <3>1. a.term = currentTerm[i] /\ serverState[i] = "leader"
      BY <1>5, <2>4 DEF Leading
    <3>2. prev <= Len(log[i]) /\ log[i][prev].term = a.prevLogTerm
      <4>1. AskedOf(a, log[i])
        BY <1>0, <1>2, <3>1 DEF CallFits
      <4> QED BY <2>1, <4>1 DEF AskedOf
    <3> DEFINE X == LogOf(j)
               L == LogOf(i)
    <3>3. Knows(X, prev) /\ TermIn(X, prev) = T
      BY <1>1, <1>8, <2>1, FullLog
    <3>4. Knows(L, prev) /\ TermIn(L, prev) = a.prevLogTerm
      BY <1>1, <2>1, <3>2, FullLog
    <3>5. /\ Len(log[i]) \in Nat
          /\ \A n \in Nat : 0 < n /\ n <= Len(log[i]) => Knows(L, n) /\ TermIn(L, n) = log[i][n].term
      BY FullLog
    <3>6. Runs(X, L) /\ RunsToEnd(X, currentTerm[i], L)
      <4>1. IsPiece(X) /\ IsPiece(L)
        BY DEF IsPiece
      <4> QED BY <3>1, <4>1 DEF TermRuns, LeaderRuns
    <3> HIDE DEF X, L, T
    <3>7. T # a.term
      <4>1. SUFFICES ASSUME T = currentTerm[i] PROVE FALSE
        BY <3>1
      <4>2. prev <= prev
        BY <1>1
      <4>3. TermIn(L, prev) = currentTerm[i]
        BY <1>1, <2>1, <3>3, <3>4, <3>6, <4>1, <4>2 DEF RunsToEnd
      <4> QED BY <2>2, <3>4, <4>1, <4>3
    <3>8. ASSUME NEW n \in 1..Len(log[i]), log[i][n].term = T PROVE n <= prev
      <4>1. SUFFICES ASSUME ~(n <= prev) PROVE FALSE
        OBVIOUS
      <4>2. n \in Nat /\ 0 < n /\ n <= Len(log[i]) /\ prev <= n /\ prev <= prev
        BY <1>1, <3>5, <4>1
      <4>3. Knows(L, n) /\ TermIn(L, n) = T
        BY <3>5, <3>8, <4>2
      <4>4. TermIn(L, prev) = TermIn(L, n)
        BY <1>1, <2>1, <3>3, <3>4, <3>6, <4>2, <4>3 DEF Runs
      <4> QED BY <2>2, <3>4, <4>3, <4>4
    <3>9. T # -1
      BY <2>3
    <3>10. r.XTerm = T /\ r.XIndex = x /\ r.prevI = prev /\ r.term = a.term
      BY <1>5
    <3> HIDE DEF r
    <3> QED BY <1>8, <3>7, <3>8, <3>9, <3>10 DEF Hint
  <2>5. Answer(i, j, k, r) /\ r.kind = "appendReply"
    BY <1>5, <1>8
  <2> HIDE DEF r
  <2> QED BY <2>4, <2>5
<1> QED BY <1>4, <1>6, <1>7, <1>8

\* The calls after a step fit if each was there before, or is new and fits the
\* peer as it was or as it is now.
LEMMA CallsFitKept ==
  ASSUME TypeOK, TypeOK', CallsFit, \A x \in Server : StaysAt(x) \/ WinsAt(x) \/ AppendsAt(x),
         \A x, y \in Server : \A q \in DOMAIN calls'[x][y] :
            \/ WasCalled(x, y, calls'[x][y][q])
            \/ CallFits(calls'[x][y][q], currentTerm[x], serverState[x], log[x])
            \/ CallFits(calls'[x][y][q], currentTerm'[x], serverState'[x], log'[x])
  PROVE  CallsFit'
<1> SUFFICES ASSUME NEW x \in Server, NEW y \in Server, NEW q \in DOMAIN calls'[x][y]
             PROVE  CallFits(calls'[x][y][q], currentTerm'[x], serverState'[x], log'[x])
  BY DEF CallsFit
<1> DEFINE c == calls'[x][y][q]
<1>1. c \in Call
  <2>1. calls' \in Links
    BY DEF TypeOK, Links, Call
  <2>2. calls'[x][y] \in Seq(Call)
    BY <2>1 DEF Links
  <2> QED BY <2>2
<1>2. currentTerm[x] \in Nat /\ currentTerm'[x] \in Nat /\ log[x] \in Seq(LogEntry)
  BY DEF TypeOK
<1>3. WasCalled(x, y, c) => CallFits(c, currentTerm[x], serverState[x], log[x])
  BY DEF WasCalled, CallsFit
<1>4. \/ CallFits(c, currentTerm[x], serverState[x], log[x])
      \/ CallFits(c, currentTerm'[x], serverState'[x], log'[x])
  BY <1>3
<1>5. \/ Stays(currentTerm[x], serverState[x], log[x], currentTerm'[x], serverState'[x], log'[x])
      \/ WinsVote(currentTerm[x], serverState[x], log[x], currentTerm'[x], serverState'[x], log'[x])
      \/ Appends(currentTerm[x], serverState[x], log[x], currentTerm'[x], serverState'[x], log'[x])
  BY DEF StaysAt, WinsAt, AppendsAt
<1> HIDE DEF c
<1> QED BY <1>1, <1>2, <1>4, <1>5, FitsKept DEF c

\* The calls after a step of a peer,
LEMMA ServerFits ==
  ASSUME TypeOK, TypeOK', PersistedCurrent, Plain, CallsFit, NEW i \in Server, PlainServerStep(i)
  PROVE  CallsFit'
<1>0. calls \in Links /\ log[i] \in Seq(LogEntry)
  BY TypeParts DEF TypeOK
<1>1. \A x \in Server : StaysAt(x) \/ WinsAt(x) \/ AppendsAt(x)
  BY StayServer, StartMoves
<1>2. CASE UNCHANGED calls
  <2>1. \A x, y \in Server : \A q \in DOMAIN calls'[x][y] : WasCalled(x, y, calls'[x][y][q])
    BY <1>2 DEF WasCalled
  <2> QED BY <1>1, <2>1, CallsFitKept
<1>3. CASE TickerSend(i)
  <2>1. Replicate(i, log[i]) /\ (serverState[i] = "leader" \/ ticker[i])
    BY <1>3, SenderLeads DEF TickerSend
  <2>2. InSlice(i, log[i])
    BY <2>1 DEF Replicate
  <2>3. ASSUME NEW x \in Server, NEW y \in Server, NEW q \in DOMAIN calls'[x][y]
        PROVE  \/ WasCalled(x, y, calls'[x][y][q])
               \/ CallFits(calls'[x][y][q], currentTerm[x], serverState[x], log[x])
    <3>1. CASE x = i /\ y \in Peers(i) /\ calls'[x][y][q] = AppendArgs(i, y, log[i])
      BY <1>0, <2>1, <2>2, <3>1, ArgsFit
    <3> QED BY <1>0, <2>1, <3>1, ReplicateKept
  <2> QED BY <1>1, <2>3, CallsFitKept
<1>4. ASSUME NEW cmd \in Command, Start(i, cmd) \/ CrashInStart(i, cmd) PROVE CallsFit'
  <2> DEFINE lg == Append(log[i], NewEntry(i, cmd))
  <2>1. Replicate(i, lg) /\ serverState[i] = "leader"
    BY <1>4 DEF Start, CrashInStart
  <2>2. lg \in Seq(LogEntry)
    <3>1. NewEntry(i, cmd) \in LogEntry
      BY DEF NewEntry, LogEntry, TypeOK
    <3> QED BY <1>0, <3>1
  <2>3. InSlice(i, lg)
    BY <2>1 DEF Replicate
  <2>4. /\ currentTerm'[i] = currentTerm[i]
        /\ log'[i] = lg \/ serverState'[i] = "follower"
    <3>1. CASE Start(i, cmd)
      BY <3>1 DEF Start, termVars, TypeOK
    <3>2. CASE CrashInStart(i, cmd)
      <4>1. Make(i, persisted[i])
        BY <3>2 DEF CrashInStart
      <4>2. persisted[i].currentTerm = currentTerm[i]
        <5>1. persisted[i] = RaftState(i)
          BY DEF PersistedCurrent
        <5> QED BY <5>1 DEF RaftState
      <4> QED BY <4>1, <4>2 DEF Make, TypeOK
    <3> QED BY <1>4, <3>1, <3>2
  <2> HIDE DEF lg
  <2>5. ASSUME NEW x \in Server, NEW y \in Server, NEW q \in DOMAIN calls'[x][y]
        PROVE  \/ WasCalled(x, y, calls'[x][y][q])
               \/ CallFits(calls'[x][y][q], currentTerm'[x], serverState'[x], log'[x])
    <3>1. CASE x = i /\ y \in Peers(i) /\ calls'[x][y][q] = AppendArgs(i, y, lg)
      <4>1. \A st : CallFits(calls'[x][y][q], currentTerm'[x], st, lg)
        BY <2>1, <2>2, <2>3, <2>4, <3>1, ArgsFit
      <4>2. CASE log'[i] = lg
        BY <3>1, <4>1, <4>2
      <4>3. CASE serverState'[i] = "follower"
        <5>1. CallFits(calls'[x][y][q], currentTerm'[x], "follower", lg)
          BY <4>1
        <5> QED BY <3>1, <4>3, <5>1 DEF CallFits
      <4> QED BY <2>4, <4>2, <4>3
    <3> QED BY <1>0, <2>1, <3>1, ReplicateKept
  <2> QED BY <1>1, <2>5, CallsFitKept
<1>5. CASE doElection(i) \/ TickerObserve(i) \/ BackgroundApplyRoutine(i) \/ Crash(i)
  <2>1. UNCHANGED calls
    BY <1>5 DEF doElection, TickerObserve, BackgroundApplyRoutine, Crash
  <2> QED BY <1>2, <2>1
<1> QED BY <1>3, <1>4, <1>5 DEF PlainServerStep

\* of a vote call,
LEMMA VoteFits ==
  ASSUME TypeOK, TypeOK', CallsFit, NEW c \in voteCalls, VoteStep(c)
  PROVE  CallsFit'
<1>1. UNCHANGED calls
  BY DEF VoteStep, RequestVoteStale, RequestVote, VoteIgnored, VoteStepDown, VoteCounted
<1>2. \A x, y \in Server : \A q \in DOMAIN calls'[x][y] : WasCalled(x, y, calls'[x][y][q])
  BY <1>1 DEF WasCalled
<1>3. \A x \in Server : StaysAt(x) \/ WinsAt(x) \/ AppendsAt(x)
  BY StayVote, VoteMoves
<1> QED BY <1>2, <1>3, CallsFitKept

\* and of a call.
LEMMA AnswerFits ==
  ASSUME TypeOK, TypeOK', Plain, TermRuns, LeaderRuns, CallsFit,
         NEW i \in Server, NEW j \in Server, NEW k \in DOMAIN calls[i][j], PlainCallStep(i, j, k)
  PROVE  CallsFit'
<1> DEFINE a == calls[i][j][k]
<1>0. calls \in Links /\ a.term \in Nat /\ currentTerm[j] \in Nat
  BY TypeParts, CallKinds DEF TypeOK
<1>1. \A x \in Server : StaysAt(x) \/ WinsAt(x) \/ AppendsAt(x)
  BY StayCall
<1>2. CASE Hangup(i, j, k)
  BY <1>0, <1>1, <1>2, HangupKept, CallsFitKept
<1>3. ASSUME NEW r, Answer(i, j, k, r), r.kind = "appendReply", Leading(i, r) => Hint(r, log[i])
      PROVE  CallsFit'
  <2>1. Leading(i, r) => CallFits(r, currentTerm[i], serverState[i], log[i])
    BY <1>3, ReplyFits
  <2>2. ASSUME NEW x \in Server, NEW y \in Server, NEW q \in DOMAIN calls'[x][y]
        PROVE  \/ WasCalled(x, y, calls'[x][y][q])
               \/ CallFits(calls'[x][y][q], currentTerm[x], serverState[x], log[x])
    BY <1>0, <1>3, <2>1, AnswerKept
  <2> QED BY <1>1, <2>2, CallsFitKept
<1>4. CASE AppendEntriesStale(i, j, k)
  <2> DEFINE r == AppendReply(a, currentTerm[j], FALSE, 0, 0, 0)
  <2>1. Answer(i, j, k, r) /\ a.term < currentTerm[j]
    BY <1>4 DEF AppendEntriesStale
  <2>2. r.kind = "appendReply" /\ r.replyTerm = currentTerm[j] /\ r.term = a.term
    BY DEF AppendReply
  <2> HIDE DEF r, a
  <2>3. ~(r.replyTerm <= r.term)
    BY <1>0, <2>1, <2>2
  <2>4. Hint(r, log[i])
    BY <2>3 DEF Hint
  <2> QED BY <1>3, <2>1, <2>2, <2>4
<1>5. CASE AppendEntriesMismatch(i, j, k)
  <2>1. PICK r : /\ Answer(i, j, k, r) /\ r.kind = "appendReply"
                 /\ Leading(i, r) => Hint(r, log[i])
    BY <1>5, RefusalHints
  <2> QED BY <1>3, <2>1
<1>6. CASE AppendEntries(i, j, k)
  <2> DEFINE r == AppendReply(a, a.term, TRUE, 0, 0, 0)
  <2>1. Answer(i, j, k, r)
    BY <1>6 DEF AppendEntries
  <2>2. r.kind = "appendReply" /\ r.success
    BY DEF AppendReply
  <2> HIDE DEF r
  <2>3. Hint(r, log[i])
    BY <2>2 DEF Hint
  <2> QED BY <1>3, <2>1, <2>2, <2>3
<1>7. CASE \/ AppendSucceeded(i, j, k) \/ AppendRefused(i, j, k)
           \/ ReplyIgnored(i, j, k) \/ ReplyStepDown(i, j, k)
  <2>1. Hangup(i, j, k)
    BY <1>7 DEF AppendSucceeded, AppendRefused, ReplyIgnored, ReplyStepDown
  <2> QED BY <1>2, <2>1
<1> QED BY <1>4, <1>5, <1>6, <1>7 DEF PlainCallStep

-----------------------------------------------------------------------------
(* The invariant of the fast backup. *)

BackupInv == Plain /\ TermRuns /\ LeaderRuns /\ CallsFit

\* A leader that stays where nothing is compacted keeps its log.
LEMMA StayingLeaders ==
  ASSUME Plain, Plain', \A x \in Server : StaysAt(x)
  PROVE  LeadersSame
<1> SUFFICES ASSUME NEW i \in Server, serverState'[i] = "leader"
             PROVE  /\ serverState[i] = "leader" /\ currentTerm'[i] = currentTerm[i]
                    /\ LogOf(i)' = LogOf(i)
  BY DEF LeadersSame
<1>1. serverState'[i] = serverState[i] /\ currentTerm'[i] = currentTerm[i] /\ log'[i] = log[i]
  BY DEF StaysAt, Stays
<1>2. /\ lastIncludedIndex'[i] = lastIncludedIndex[i]
      /\ lastIncludedTerm'[i] = lastIncludedTerm[i]
  BY DEF Plain
<1> QED BY <1>1, <1>2 DEF LogOf

\* The runs after a step of a peer,
LEMMA ServerRuns ==
  ASSUME TypeOK, PersistedCurrent, ElectionSafety, LogInv, Plain, Plain', TermRuns, LeaderRuns,
         NEW i \in Server, ServerStep(i), PlainServerStep(i)
  PROVE  TermRuns' /\ LeaderRuns'
<1>1. ASSUME NEW cmd \in Command, Start(i, cmd) \/ CrashInStart(i, cmd)
      PROVE  TermRuns' /\ LeaderRuns'
  <2>1. ASSUME NEW p \in Server, p # i PROVE LogOf(p)' = LogOf(p)
    <3>1. CASE Start(i, cmd)
      BY <2>1, <3>1 DEF Start, LogOf, TypeOK
    <3>2. CASE CrashInStart(i, cmd)
      <4>1. UNCHANGED logVars
        BY <3>2, RestartLogs DEF CrashInStart
      <4> QED BY <4>1 DEF LogOf, logVars
    <3> QED BY <1>1, <3>1, <3>2
  <2> QED BY <1>1, <2>1, StartRuns
<1>2. CASE ~\E cmd \in Command : Start(i, cmd) \/ CrashInStart(i, cmd)
  <2>1. Ordinary
    BY <1>2, ServerStepOrdinary
  <2>2. \A x \in Server : StaysAt(x)
    BY <1>2, StayServer
  <2> QED BY <2>1, <2>2, StayingLeaders, OrdinaryRuns
<1> QED BY <1>1, <1>2

\* Every action keeps the invariant.
LEMMA BackupStep ==
  ASSUME TypeOK, TypeOK', PersistedCurrent, ElectionSafety, ElectionSafety', LogInv,
         Snapshots = FALSE, BackupInv, Next
  PROVE  BackupInv'
<1>0. Plain /\ TermRuns /\ LeaderRuns /\ CallsFit
  BY DEF BackupInv
<1>1. ASSUME NEW i \in Server, ServerStep(i) PROVE BackupInv'
  <2>1. PlainServerStep(i)
    BY <1>0, <1>1, PlainServer
  <2>2. Plain' /\ CallsFit'
    BY <1>0, <2>1, PlainServerKeeps, ServerFits
  <2>3. TermRuns' /\ LeaderRuns'
    BY <1>0, <1>1, <2>1, <2>2, ServerRuns
  <2> QED BY <2>2, <2>3 DEF BackupInv
<1>2. ASSUME NEW c \in voteCalls, VoteStep(c) PROVE BackupInv'
  <2>1. Plain' /\ CallsFit'
    BY <1>0, <1>2, PlainVoteKeeps, VoteFits
  <2>2. TermRuns' /\ LeaderRuns'
    <3>1. CASE VoteCounted(c)
      BY <1>0, <3>1, VoteCountedRuns
    <3>2. CASE ~VoteCounted(c)
      <4>1. Ordinary /\ \A x \in Server : StaysAt(x)
        BY <1>2, <3>2, VoteStepOrdinary, StayVote
      <4> QED BY <1>0, <2>1, <4>1, StayingLeaders, OrdinaryRuns
    <3> QED BY <3>1, <3>2
  <2> QED BY <2>1, <2>2 DEF BackupInv
<1>3. ASSUME NEW i \in Server, NEW j \in Server, NEW k \in DOMAIN calls[i][j], CallStep(i, j, k)
      PROVE  BackupInv'
  <2>1. AppendsOnly
    BY <1>0 DEF CallsFit, CallFits, AppendsOnly
  <2>2. PlainCallStep(i, j, k)
    BY <1>3, <2>1, PlainCall
  <2>3. Plain' /\ CallsFit'
    BY <1>0, <2>2, PlainCallKeeps, AnswerFits
  <2>4. LeadersSame
    BY <1>0, <2>2, <2>3, StayCall, StayingLeaders
  <2>5. TermRuns' /\ LeaderRuns'
    <3>1. CASE AppendEntries(i, j, k)
      BY <1>0, <2>4, <3>1, AppendRuns
    <3>2. CASE Ordinary
      BY <1>0, <2>4, <3>2, OrdinaryRuns
    <3> QED BY <1>3, <3>1, <3>2, CallStepOrdinary
  <2> QED BY <2>3, <2>5 DEF BackupInv
<1> QED BY <1>1, <1>2, <1>3 DEF Next

\* So does a step that changes nothing.
LEMMA BackupStutter ==
  ASSUME BackupInv, UNCHANGED vars
  PROVE  BackupInv'
<1>1. \A X : IsPiece(X)' <=> IsPiece(X)
  BY DEF IsPiece, Requested, LogOf, vars, logVars
<1>2. UNCHANGED <<serverState, currentTerm, log, lastIncludedIndex, lastIncludedTerm, installers,
                  ticker, nextIndex, calls>>
  BY DEF vars, termVars, logVars, peerVars
<1>3. TermRuns'
  BY <1>1 DEF BackupInv, TermRuns
<1>4. LeaderRuns'
  BY <1>1, <1>2 DEF BackupInv, LeaderRuns, LogOf
<1>5. Plain'
  BY <1>2 DEF BackupInv, Plain
<1>6. CallsFit'
  BY <1>2 DEF BackupInv, CallsFit
<1> QED BY <1>3, <1>4, <1>5, <1>6 DEF BackupInv

\* At the start there is no entry and no call.
LEMMA InitBackup ==
  ASSUME Init, TypeOK
  PROVE  BackupInv
<1>1. \A x, y \in Server : calls[x][y] = <<>>
  BY DEF Init
<1>2. ASSUME NEW X, IsPiece(X), NEW n \in Nat, 0 < n PROVE ~Knows(X, n)
  <2>1. ~Requested(X)
    BY <1>1 DEF Requested
  <2>2. ASSUME NEW i \in Server PROVE LogOf(i) = [base |-> 0, term |-> 0, entries |-> <<>>]
    BY DEF LogOf, Init
  <2>3. X.base = 0 /\ X.entries = <<>>
    BY <1>2, <2>1, <2>2 DEF IsPiece
  <2> QED BY <1>2, <2>3 DEF Knows, Top
<1>3. TermRuns /\ LeaderRuns
  BY <1>2 DEF TermRuns, Runs, LeaderRuns, RunsToEnd
<1>4. CallsFit
  BY <1>1 DEF CallsFit
<1>5. Plain
  BY DEF Init, Plain
<1> QED BY <1>3, <1>4, <1>5 DEF BackupInv

\* A refusal that the invariant vouches for moves nextIndex back.
LEMMA HintBacksUp ==
  ASSUME TypeOK, CallsFit, NEW i \in Server, NEW j \in Server, NEW k \in DOMAIN calls[i][j],
         AppendRefused(i, j, k)
  PROVE  nextIndex'[i][j] <= calls[i][j][k].prevI
<1> DEFINE r == calls[i][j][k]
<1>0. /\ r.kind = "appendReply" /\ Leading(i, r) /\ r.replyTerm <= currentTerm[i] /\ ~r.success
  BY DEF AppendRefused
<1>1. r \in AppendReplies
  BY <1>0, TypeParts, CallKinds
<1>2. CallFits(r, currentTerm[i], serverState[i], log[i])
  BY DEF CallsFit
<1>3. PICK n : /\ \/ r.XTerm = -1 /\ n = r.XLen
                  \/ r.XTerm # -1 /\ n = r.XIndex
                  \/ r.XTerm # -1 /\ n \in Holding(i, r.XTerm)
               /\ nextIndex' = [nextIndex EXCEPT ![i][j] = Larger(n, 1)]
  BY DEF AppendRefused
<1> HIDE DEF r
<1>4. r.prevI \in Nat
  BY <1>1 DEF AppendReplies
<1>5. nextIndex'[i][j] = Larger(n, 1)
  BY <1>3 DEF TypeOK
<1>6. \/ r.XTerm = -1 /\ r.XLen \in 1..r.prevI
      \/ /\ r.XTerm # -1 /\ r.XIndex \in 1..r.prevI
         /\ \A p \in 1..Len(log[i]) : log[i][p].term = r.XTerm => p <= r.prevI
  <2>1. r.term = currentTerm[i] /\ serverState[i] = "leader"
    BY <1>0 DEF Leading
  <2>2. Hint(r, log[i])
    BY <1>0, <1>2, <2>1 DEF CallFits
  <2> QED BY <1>0, <2>1, <2>2 DEF Hint
<1>7. n \in 1..r.prevI
  <2>1. CASE n \in Holding(i, r.XTerm) /\ r.XTerm # -1
    <3>1. Len(log[i]) \in Nat
      BY DEF TypeOK
    <3>2. n \in 2..Len(log[i]) /\ log[i][n].term = r.XTerm
      BY <2>1 DEF Holding
    <3>3. n \in 1..Len(log[i]) /\ n \in Nat /\ n >= 1
      BY <3>1, <3>2
    <3>4. n <= r.prevI
      BY <1>6, <2>1, <3>2, <3>3
    <3> QED BY <1>4, <3>3, <3>4
  <2> QED BY <1>3, <1>6, <2>1
<1>8. Larger(n, 1) = n /\ n <= r.prevI
  BY <1>4, <1>7 DEF Larger
<1> QED BY <1>5, <1>8 DEF r

\* What a refusal does to nextIndex.
BacksUp ==
    \A i, j \in Server : \A k \in DOMAIN calls[i][j] :
        AppendRefused(i, j, k) => nextIndex'[i][j] <= calls[i][j][k].prevI

\* Without snapshots the entries of a term stand together wherever they are,
\* and every hint on its way points into the sender's log (BackupInv).
THEOREM BackupInvariant ==
  ASSUME Snapshots = FALSE
  PROVE  Spec => []BackupInv
<1>1. Init /\ TypeOK => BackupInv
  BY InitBackup
<1>2. /\ TypeOK /\ TypeOK' /\ PersistedCurrent /\ ElectionSafety /\ ElectionSafety'
      /\ LogInv /\ BackupInv /\ [Next]_vars
      => BackupInv'
  <2>1. CASE Next
    BY <2>1, BackupStep
  <2>2. CASE UNCHANGED vars
    BY <2>2, BackupStutter
  <2> QED BY <2>1, <2>2
<1> QED BY <1>1, <1>2, TypeCorrect, DiskCurrent, OneLeaderPerTerm, LogInvariant, PTL DEF Spec

\* A refused AppendEntries makes the next one start further back, whatever the
\* leader's log and its term have been through since the call was made, and
\* although processAppendEntriesReply looks for XTerm from its second entry
\* on only: the fast backup never goes round in a circle.  It does when the
\* service compacts the log, whence the hypothesis.
THEOREM RefusalsBackUp ==
  ASSUME Snapshots = FALSE
  PROVE  Spec => RefusalBacksUp
<1>1. TypeOK /\ BackupInv => [BacksUp]_vars
  BY HintBacksUp DEF BackupInv, BacksUp
<1>2. BacksUp <=>
         \A i, j \in Server : \A k \in DOMAIN calls[i][j] :
            AppendRefused(i, j, k) => nextIndex'[i][j] <= calls[i][j][k].prevI
  BY DEF BacksUp
<1> QED BY <1>1, <1>2, TypeCorrect, BackupInvariant, PTL DEF RefusalBacksUp

=============================================================================
