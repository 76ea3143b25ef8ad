--------------------------- MODULE ConnInfoProofs ---------------------------
(***************************************************************************)
(* Proofs about ConnInfo: what the parser reads from a string is what the  *)
(* string was made from, for any keywords and values.                      *)
(***************************************************************************)
EXTENDS ConnInfo, FiniteSetTheorems, SequenceTheorems, TLAPS

-----------------------------------------------------------------------------
(* Induction over numbers and over sequences.  A counterexample m would    *)
(* make i |-> i-1 an injection of the counterexamples up to m into those   *)
(* below m, which are fewer.                                               *)

LEMMA UpTo ==
  ASSUME NEW N \in Nat, NEW S, 0 \in S, \A i \in 0..N - 1 : i \in S => i + 1 \in S
  PROVE  N \in S
<1> SUFFICES ASSUME NEW m \in 0..N, m \notin S PROVE FALSE
  OBVIOUS
<1> DEFINE D == {i \in 0..m : i \notin S}
           E == D \ {m}
           pred == [i \in D |-> i - 1]
<1>1. pred \in [D -> E]
  <2> SUFFICES ASSUME NEW i \in D PROVE i - 1 \in E
    OBVIOUS
  <2>1. i - 1 \in 0..N - 1 /\ i - 1 \in 0..m /\ i - 1 # m
    OBVIOUS
  <2>2. i - 1 \in S => (i - 1) + 1 \in S
    BY <2>1
  <2> QED
    BY <2>1, <2>2
<1>2. IsFiniteSet(D) /\ IsFiniteSet(E) /\ Cardinality(E) < Cardinality(D)
  <2>1. D \in SUBSET (0..m) /\ m \in D
    OBVIOUS
  <2> HIDE DEF D
  <2>2. IsFiniteSet(D)
    <3>1. IsFiniteSet(0..m)
      BY FS_Interval
    <3> QED
      BY <2>1, <3>1, FS_Subset
  <2>3. IsFiniteSet(E) /\ Cardinality(E) = Cardinality(D) - 1
    BY <2>1, <2>2, FS_RemoveElement
  <2> QED
    BY <2>2, <2>3, FS_CardinalityType
<1>3. PICK x \in D, y \in D : x # y /\ pred[x] = pred[y]
  <2> HIDE DEF D, E, pred
  <2> QED
    BY <1>1, <1>2, FS_PigeonHole
<1> QED
  BY <1>3

LEMMA OverSequences ==
  ASSUME NEW S, NEW P, <<>> \in P,
         \A s \in Seq(S), x \in S : s \in P => Append(s, x) \in P
  PROVE  \A s \in Seq(S) : s \in P
<1> SUFFICES ASSUME NEW t \in Seq(S) PROVE t \in P
  OBVIOUS
<1> DEFINE Ks == {k \in Nat : \A s \in Seq(S) : Len(s) = k => s \in P}
<1>1. 0 \in Ks
  BY EmptySeq
<1>2. ASSUME NEW k \in 0..Len(t) - 1, k \in Ks PROVE k + 1 \in Ks
  <2> SUFFICES ASSUME NEW s \in Seq(S), Len(s) = k + 1 PROVE s \in P
    OBVIOUS
  <2>1. s # <<>>
    BY EmptySeq
  <2>2. PICK r \in Seq(S), x \in S : s = Append(r, x)
    BY <2>1, SequenceEmptyOrAppend
  <2>3. Len(r) = k
    BY <2>2
  <2> QED
    BY <1>2, <2>2, <2>3
<1>3. Len(t) \in Ks
  <2> HIDE DEF Ks
  <2> QED
    BY <1>1, <1>2, UpTo
<1> QED
  BY <1>3

-----------------------------------------------------------------------------
(* The function that Loop recurs on exists, so that a loop over nothing    *)
(* changes nothing, and one over one element more ends with its effect.    *)

\* after is what the loop has made of start after each element.
Turns(s, effect, start, after) ==
  after = [i \in 0..Len(s) |-> IF i = 0 THEN start ELSE effect[s[i]][after[i - 1]]]

LEMMA LoopTurns ==
  ASSUME NEW s, Len(s) \in Nat, NEW effect, NEW start
  PROVE  \E after : Turns(s, effect, start, after) /\ Loop(s, effect, start) = after[Len(s)]
<1> DEFINE Upto(k, f) == f = [i \in 0..k |-> IF i = 0 THEN start ELSE effect[s[i]][f[i - 1]]]
           N == Len(s)
           Ks == {k \in 0..N : \E f : Upto(k, f)}
<1>1. 0 \in Ks
  <2>1. Upto(0, [i \in 0..0 |-> start])
    OBVIOUS
  <2> HIDE DEF Upto
  <2> QED
    BY <2>1
<1>2. ASSUME NEW k \in 0..N - 1, k \in Ks PROVE k + 1 \in Ks
  <2>1. PICK f : Upto(k, f)
    BY <1>2
  <2> DEFINE next == effect[s[k + 1]][f[k]]
             g == [i \in 0..k + 1 |-> IF i = k + 1 THEN next ELSE f[i]]
  <2>2. ASSUME NEW i \in 0..k + 1
        PROVE  g[i] = IF i = 0 THEN start ELSE effect[s[i]][g[i - 1]]
    <3>1. CASE i = k + 1
      BY <3>1
    <3>2. CASE i \in 0..k
      <4>1. f[i] = IF i = 0 THEN start ELSE effect[s[i]][f[i - 1]]
        BY <2>1, <3>2
      <4>2. g[i] = f[i] /\ (i # 0 => g[i - 1] = f[i - 1])
        BY <3>2
      <4> QED
        BY <4>1, <4>2
    <3> QED
      BY <3>1, <3>2
  <2>3. Upto(k + 1, g)
    <3> HIDE DEF next
    <3> QED
      BY <2>2
  <2> HIDE DEF Upto, g
  <2> QED
    BY <2>3
<1>3. N \in Ks
  <2> HIDE DEF Ks, N
  <2> QED
    BY <1>1, <1>2, UpTo DEF N
<1>4. PICK g : Upto(N, g)
  BY <1>3
<1>5. Upto(N, CHOOSE f : Upto(N, f))
  <2> HIDE DEF Upto
  <2> QED
    BY <1>4
<1> QED
  BY <1>5 DEF Loop, Turns

LEMMA LoopEmpty == ASSUME NEW effect, NEW start PROVE Loop(<<>>, effect, start) = start
<1>1. PICK after : /\ Turns(<<>>, effect, start, after)
                   /\ Loop(<<>>, effect, start) = after[Len(<<>>)]
  BY LoopTurns
<1> QED
  BY <1>1 DEF Turns

LEMMA LoopAppend ==
  ASSUME NEW S, NEW s \in Seq(S), NEW x \in S, NEW effect, NEW start
  PROVE  Loop(Append(s, x), effect, start) = effect[x][Loop(s, effect, start)]
<1> DEFINE t == Append(s, x)
<1>1. PICK f : Turns(s, effect, start, f) /\ Loop(s, effect, start) = f[Len(s)]
  BY LoopTurns
<1>2. Len(t) = Len(s) + 1 /\ t[Len(s) + 1] = x /\ \A i \in 1..Len(s) : t[i] = s[i]
  OBVIOUS
<1> HIDE DEF t
<1>3. PICK g : Turns(t, effect, start, g) /\ Loop(t, effect, start) = g[Len(t)]
  BY <1>2, LoopTurns
<1>4. f[0] = start /\ \A i \in 1..Len(s) : f[i] = effect[s[i]][f[i - 1]]
  BY <1>1 DEF Turns
<1>5. g[0] = start /\ \A i \in 1..Len(s) + 1 : g[i] = effect[t[i]][g[i - 1]]
  <2>1. g = [i \in 0..Len(s) + 1 |-> IF i = 0 THEN start ELSE effect[t[i]][g[i - 1]]]
    BY <1>2, <1>3 DEF Turns
  <2>2. 0 \in 0..Len(s) + 1 /\ 1..Len(s) + 1 \subseteq (0..Len(s) + 1) \ {0}
    OBVIOUS
  <2> QED
    BY <2>1, <2>2
<1> DEFINE Same == {i \in 0..Len(s) : f[i] = g[i]}
<1>6. 0 \in Same
  BY <1>4, <1>5
<1>7. ASSUME NEW i \in 0..Len(s) - 1, i \in Same PROVE i + 1 \in Same
  <2>1. f[i + 1] = effect[s[i + 1]][f[i]]
    BY <1>4
  <2>2. g[i + 1] = effect[t[i + 1]][g[i]]
    BY <1>5
  <2> QED
    BY <1>2, <1>7, <2>1, <2>2
<1>8. Len(s) \in Same
  <2> HIDE DEF Same
  <2> QED
    BY <1>6, <1>7, UpTo
<1>9. g[Len(s) + 1] = effect[t[Len(s) + 1]][g[Len(s)]]
  BY <1>5
<1> QED
  BY <1>1, <1>2, <1>3, <1>8, <1>9 DEF t

-----------------------------------------------------------------------------
(* Each, element by element from either end.                               *)

LEMMA EachEmpty == ASSUME NEW word PROVE Each(<<>>, word) = <<>>
BY LoopEmpty DEF Each

LEMMA EachAppend ==
  ASSUME NEW S, NEW word \in [S -> Words]
  PROVE  \A s \in Seq(S) : /\ Each(s, word) \in Words
                           /\ \A x \in S : Each(Append(s, x), word) = Each(s, word) \o word[x]
<1> DEFINE effect == [x \in S |-> [text \in Words |-> text \o word[x]]]
           P == {s \in Seq(S) : Each(s, word) \in Words}
<1>1. ASSUME NEW s PROVE Each(s, word) = Loop(s, effect, <<>>)
  BY DEF Each
<1>2. ASSUME NEW x \in S, NEW text \in Words PROVE effect[x][text] = text \o word[x]
  OBVIOUS
<1> HIDE DEF effect
<1>3. ASSUME NEW s \in Seq(S), NEW x \in S, Each(s, word) \in Words
      PROVE  Each(Append(s, x), word) = Each(s, word) \o word[x]
  <2>1. Loop(Append(s, x), effect, <<>>) = effect[x][Loop(s, effect, <<>>)]
    BY LoopAppend
  <2>2. Each(Append(s, x), word) = Loop(Append(s, x), effect, <<>>)
    BY <1>1
  <2>3. Each(s, word) = Loop(s, effect, <<>>)
    BY <1>1
  <2> QED
    BY <1>2, <1>3, <2>1, <2>2, <2>3
<1>4. <<>> \in P /\ \A s \in Seq(S), x \in S : s \in P => Append(s, x) \in P
  <2>1. <<>> \in Seq(S) /\ <<>> \in Words
    BY DEF Words
  <2>2. <<>> \in P
    BY <2>1, EachEmpty
  <2>3. ASSUME NEW s \in Seq(S), NEW x \in S, s \in P PROVE Append(s, x) \in P
    <3>1. Each(Append(s, x), word) = Each(s, word) \o word[x] /\ Each(s, word) \in Words
      BY <1>3, <2>3
    <3>2. word[x] \in Words /\ Append(s, x) \in Seq(S)
      OBVIOUS
    <3>3. Each(s, word) \o word[x] \in Words
      BY <3>1, <3>2 DEF Words
    <3> QED
      BY <3>1, <3>2, <3>3
  <2> QED
    BY <2>2, <2>3
<1>5. \A s \in Seq(S) : s \in P
  <2> HIDE DEF P
  <2> QED
    BY <1>4, OverSequences
<1> QED
  BY <1>3, <1>5

LEMMA EachCons ==
  ASSUME NEW S, NEW word \in [S -> Words], NEW x \in S
  PROVE  \A s \in Seq(S) : Each(<<x>> \o s, word) = word[x] \o Each(s, word)
<1> DEFINE P == {s \in Seq(S) : Each(<<x>> \o s, word) = word[x] \o Each(s, word)}
<1> word[x] \in Words
  OBVIOUS
<1>1. <<>> \in P
  <2>1. <<x>> \o <<>> = Append(<<>>, x) /\ <<>> \in Seq(S)
    OBVIOUS
  <2>2. Each(Append(<<>>, x), word) = Each(<<>>, word) \o word[x]
    BY <2>1, EachAppend
  <2>3. Each(<<>>, word) = <<>>
    BY EachEmpty
  <2> QED
    BY <2>1, <2>2, <2>3, ConcatEmptySeq DEF Words
<1>2. ASSUME NEW s \in Seq(S), NEW y \in S, s \in P PROVE Append(s, y) \in P
  <2>1. <<x>> \o Append(s, y) = Append(<<x>> \o s, y) /\ <<x>> \o s \in Seq(S)
    OBVIOUS
  <2>2. Each(Append(<<x>> \o s, y), word) = Each(<<x>> \o s, word) \o word[y]
    BY <2>1, EachAppend
  <2>3. Each(Append(s, y), word) = Each(s, word) \o word[y] /\ Each(s, word) \in Words
    BY EachAppend
  <2>4. word[y] \in Words
    OBVIOUS
  <2>5. (word[x] \o Each(s, word)) \o word[y] = word[x] \o (Each(s, word) \o word[y])
    BY <2>3, <2>4, ConcatAssociative DEF Words
  <2>6. Append(s, y) \in Seq(S)
    OBVIOUS
  <2> QED
    BY <1>2, <2>1, <2>2, <2>3, <2>5, <2>6
<1> HIDE DEF P
<1>3. \A s \in Seq(S) : s \in P
  BY <1>1, <1>2, OverSequences
<1> QED
  BY <1>3 DEF P

-----------------------------------------------------------------------------
(* Reading undoes writing: replace() takes away the second of two quotes,  *)
(* the scan of a quoted value the backslashes.                             *)

LEMMA EscapedAppend ==
  ASSUME NEW s \in Words, NEW c \in Characters
  PROVE  /\ Escaped(s) \in Words
         /\ Escaped(Append(s, c)) = IF c \in {Quote, Backslash}
                                   THEN Append(Append(Escaped(s), Backslash), c)
                                   ELSE Append(Escaped(s), c)
<1> DEFINE word == [x \in Characters |-> IF x \in {Quote, Backslash} THEN <<Backslash, x>> ELSE <<x>>]
<1>1. word \in [Characters -> Words]
  BY CharactersAssumption DEF Words
<1>2. word[c] = IF c \in {Quote, Backslash} THEN <<Backslash, c>> ELSE <<c>>
  OBVIOUS
<1>3. /\ Escaped(s) = Each(s, word)
      /\ Escaped(Append(s, c)) = Each(Append(s, c), word)
  BY DEF Escaped
<1> HIDE DEF word
<1>4. /\ Each(s, word) \in Words
      /\ Each(Append(s, c), word) = Each(s, word) \o word[c]
  BY <1>1, EachAppend DEF Words
<1>5. ASSUME NEW e \in Words
      PROVE  e \o <<c>> = Append(e, c) /\ e \o <<Backslash, c>> = Append(Append(e, Backslash), c)
  BY CharactersAssumption DEF Words
<1> QED
  BY <1>2, <1>3, <1>4, <1>5

LEMMA EscapedWord == ASSUME NEW s \in Words PROVE Escaped(s) \in Words
BY EscapedAppend, CharactersAssumption

LEMMA DoubledAppend ==
  ASSUME NEW s \in Words, NEW c \in Characters
  PROVE  /\ Doubled(s) \in Words
         /\ Doubled(Append(s, c)) = IF c = Quote THEN Append(Append(Doubled(s), c), c)
                                   ELSE Append(Doubled(s), c)
<1> DEFINE word == [x \in Characters |-> IF x = Quote THEN <<x, x>> ELSE <<x>>]
<1>1. word \in [Characters -> Words]
  BY DEF Words
<1>2. word[c] = IF c = Quote THEN <<c, c>> ELSE <<c>>
  OBVIOUS
<1>3. Doubled(s) = Each(s, word) /\ Doubled(Append(s, c)) = Each(Append(s, c), word)
  BY DEF Doubled
<1> HIDE DEF word
<1>4. /\ Each(s, word) \in Words
      /\ Each(Append(s, c), word) = Each(s, word) \o word[c]
  BY <1>1, EachAppend DEF Words
<1>5. ASSUME NEW e \in Words
      PROVE  e \o <<c>> = Append(e, c) /\ e \o <<c, c>> = Append(Append(e, c), c)
  BY DEF Words
<1> QED
  BY <1>2, <1>3, <1>4, <1>5

\* What Unpaired holds after a text, the number of its quotes odd or not.
Read(s) ==
  Loop(s, [c \in Characters |-> [read \in [text : Words, half : BOOLEAN] |-> Unpair(read, c)]],
       [text |-> <<>>, half |-> FALSE])

LEMMA ReadAppend ==
  ASSUME NEW s \in Words, NEW c \in Characters, NEW text \in Words, NEW half \in BOOLEAN,
         Read(s) = [text |-> text, half |-> half]
  PROVE  Read(Append(s, c)) = IF c = Quote /\ half THEN [text |-> text, half |-> FALSE]
                              ELSE [text |-> Append(text, c), half |-> c = Quote]
<1> DEFINE effect == [x \in Characters |-> [read \in [text : Words, half : BOOLEAN] |-> Unpair(read, x)]]
           read == [text |-> text, half |-> half]
<1>1. effect[c][read] = Unpair(read, c)
  OBVIOUS
<1>2. Read(Append(s, c)) = effect[c][Read(s)]
  <2>1. ASSUME NEW t PROVE Read(t) = Loop(t, effect, [text |-> <<>>, half |-> FALSE])
    BY DEF Read
  <2> HIDE DEF effect
  <2> QED
    BY <2>1, LoopAppend DEF Words
<1> HIDE DEF effect
<1> QED
  BY <1>1, <1>2 DEF Unpair

LEMMA DoubledIsRead ==
  \A s \in Words : Read(Doubled(s)) = [text |-> s, half |-> FALSE]
<1> DEFINE P == {s \in Words : Read(Doubled(s)) = [text |-> s, half |-> FALSE]}
<1>1. <<>> \in P
  BY EachEmpty, LoopEmpty DEF Doubled, Read, Words
<1>2. ASSUME NEW s \in Words, NEW c \in Characters, s \in P PROVE Append(s, c) \in P
  <2>2. /\ Doubled(s) \in Words
        /\ Doubled(Append(s, c)) = IF c = Quote THEN Append(Append(Doubled(s), c), c)
                                  ELSE Append(Doubled(s), c)
    BY DoubledAppend
  <2>3. Append(s, c) \in Words /\ Append(Doubled(s), c) \in Words
    BY <2>2 DEF Words
  <2>4. Read(Append(Doubled(s), c)) = [text |-> Append(s, c), half |-> c = Quote]
    BY <1>2, <2>2, ReadAppend
  <2>5. CASE c = Quote
    <3>1. Read(Append(Append(Doubled(s), c), c)) = [text |-> Append(s, c), half |-> FALSE]
      BY <2>3, <2>4, <2>5, ReadAppend
    <3> QED
      BY <2>2, <2>3, <2>5, <3>1
  <2>6. CASE c # Quote
    BY <2>2, <2>3, <2>4, <2>6
  <2> QED
    BY <2>5, <2>6
<1> HIDE DEF P
<1>3. \A s \in Words : s \in P
  BY <1>1, <1>2, OverSequences DEF Words
<1> QED
  BY <1>3 DEF P

LEMMA ScanAppend ==
  ASSUME NEW s \in Words, NEW c \in Characters,
         NEW value \in Words, NEW mode \in {"open", "asis", "closed"}, NEW left \in Words,
         Scan(s) = Scanned(value, mode, left)
  PROVE  Scan(Append(s, c)) =
           IF mode = "closed" THEN Scanned(value, "closed", Append(left, c))
           ELSE IF mode = "asis" THEN Scanned(Append(value, c), "open", <<>>)
           ELSE IF c = Quote THEN Scanned(value, "closed", <<>>)
           ELSE IF c = Backslash THEN Scanned(value, "asis", <<>>)
           ELSE Scanned(Append(value, c), "open", <<>>)
<1> DEFINE effect == [x \in Characters |-> [scan \in Scans |-> ScanCharacter(scan, x)]]
           scan == Scanned(value, mode, left)
<1>1. effect[c][scan] = ScanCharacter(scan, c)
  BY DEF Scans, Scanned
<1>2. Scan(Append(s, c)) = effect[c][Scan(s)]
  <2>1. ASSUME NEW t PROVE Scan(t) = Loop(t, effect, Scanned(<<>>, "open", <<>>))
    BY DEF Scan
  <2> HIDE DEF effect
  <2> QED
    BY <2>1, LoopAppend DEF Words
<1> HIDE DEF effect
<1> QED
  BY <1>1, <1>2 DEF ScanCharacter, Scanned

LEMMA EscapedIsRead == \A s \in Words : Scan(Escaped(s)) = Scanned(s, "open", <<>>)
<1> DEFINE P == {s \in Words : Scan(Escaped(s)) = Scanned(s, "open", <<>>)}
<1> <<>> \in Words /\ Backslash \in Characters /\ Backslash # Quote
  BY CharactersAssumption DEF Words
<1>1. <<>> \in P
  BY EachEmpty, LoopEmpty DEF Escaped, Scan, Scanned
<1>2. ASSUME NEW s \in Words, NEW c \in Characters, s \in P PROVE Append(s, c) \in P
  <2>1. /\ Escaped(s) \in Words
        /\ Escaped(Append(s, c)) = IF c \in {Quote, Backslash}
                                  THEN Append(Append(Escaped(s), Backslash), c)
                                  ELSE Append(Escaped(s), c)
    BY EscapedAppend
  <2>2. Append(s, c) \in Words /\ Append(Escaped(s), Backslash) \in Words
    BY <2>1 DEF Words
  <2>3. CASE c \in {Quote, Backslash}
    <3>1. Scan(Append(Escaped(s), Backslash)) = Scanned(s, "asis", <<>>)
      BY <1>2, <2>1, ScanAppend
    <3>2. Scan(Append(Append(Escaped(s), Backslash), c)) = Scanned(Append(s, c), "open", <<>>)
      BY <2>2, <3>1, ScanAppend
    <3> QED
      BY <2>1, <2>2, <2>3, <3>2
  <2>4. CASE c \notin {Quote, Backslash}
    <3>1. Scan(Append(Escaped(s), c)) = Scanned(Append(s, c), "open", <<>>)
      BY <1>2, <2>1, <2>4, ScanAppend
    <3> QED
      BY <2>1, <2>2, <2>4, <3>1
  <2> QED
    BY <2>3, <2>4
<1> HIDE DEF P
<1>3. \A s \in Words : s \in P
  BY <1>1, <1>2, OverSequences DEF Words
<1> QED
  BY <1>3 DEF P

LEMMA EnclosedIsRead ==
  ASSUME NEW value \in Words
  PROVE  \A t \in Words : Scan(Append(Escaped(value), Quote) \o t) = Scanned(value, "closed", t)
<1> DEFINE s == Append(Escaped(value), Quote)
           P == {t \in Words : Scan(s \o t) = Scanned(value, "closed", t)}
<1> <<>> \in Words /\ Quote \in Characters
  BY CharactersAssumption DEF Words
<1>1. s \in Words /\ Scan(s) = Scanned(value, "closed", <<>>)
  <2>1. Escaped(value) \in Words
    BY EscapedAppend
  <2>2. Scan(Escaped(value)) = Scanned(value, "open", <<>>)
    BY EscapedIsRead
  <2>3. Scan(s) = Scanned(value, "closed", <<>>)
    BY <2>1, <2>2, ScanAppend
  <2> QED
    BY <2>1, <2>3 DEF Words
<1> HIDE DEF s
<1>2. <<>> \in P
  BY <1>1, ConcatEmptySeq DEF Words
<1>3. ASSUME NEW t \in Words, NEW c \in Characters, t \in P PROVE Append(t, c) \in P
  <2>1. s \o t \in Words /\ s \o Append(t, c) = Append(s \o t, c) /\ Append(t, c) \in Words
    BY <1>1 DEF Words
  <2>2. Scan(Append(s \o t, c)) = Scanned(value, "closed", Append(t, c))
    BY <1>3, <2>1, ScanAppend
  <2> QED
    BY <2>1, <2>2
<1> HIDE DEF P
<1>4. \A t \in Words : t \in P
  BY <1>2, <1>3, OverSequences DEF Words
<1> QED
  BY <1>4 DEF P, s

-----------------------------------------------------------------------------
(* strip(), find and split(): on a text that neither starts nor ends with  *)
(* a space, up to one in front.                                            *)

Trimmed(s) == s # <<>> /\ s[1] # Space /\ s[Len(s)] # Space

LEMMA MinMax ==
  ASSUME NEW S \in SUBSET Int, NEW a \in S, NEW b \in S, \A i \in S : a <= i /\ i <= b
  PROVE  Min(S) = a /\ Max(S) = b
<1>1. ASSUME NEW x \in S PROVE ((\A i \in S : x <= i) => x = a) /\ ((\A i \in S : x >= i) => x = b)
  OBVIOUS
<1>2. \A i \in S : b >= i
  OBVIOUS
<1> QED
  BY <1>1, <1>2 DEF Min, Max

LEMMA StripTrimmed ==
  ASSUME NEW s \in Words, Trimmed(s)
  PROVE  Strip(s) = s /\ Strip(<<Space>> \o s) = s
<1> DEFINE visible == {i \in DOMAIN s : s[i] # Space}
           r == <<Space>> \o s
           behind == {i \in DOMAIN r : r[i] # Space}
<1>0. /\ Len(s) \in Nat \ {0} /\ DOMAIN s = 1..Len(s) /\ Space \in Characters
      /\ s[1] # Space /\ s[Len(s)] # Space
  BY CharactersAssumption DEF Trimmed, Words
<1>1. /\ r \in Words /\ Len(r) = Len(s) + 1 /\ DOMAIN r = 1..Len(s) + 1
      /\ r[1] = Space /\ \A i \in 1..Len(s) : r[i + 1] = s[i]
  BY <1>0 DEF Words
<1>2. Strip(s) = SubSeq(s, 1, Len(s))
  <2>1. /\ visible \in SUBSET Int /\ 1 \in visible /\ Len(s) \in visible
        /\ \A i \in visible : 1 <= i /\ i <= Len(s)
    BY <1>0
  <2>2. Strip(s) = IF visible = {} THEN <<>> ELSE SubSeq(s, Min(visible), Max(visible))
    BY DEF Strip
  <2> HIDE DEF visible
  <2>3. Min(visible) = 1 /\ Max(visible) = Len(s)
    BY <2>1, MinMax
  <2> QED
    BY <2>1, <2>2, <2>3
<1>3. Strip(r) = SubSeq(r, 2, Len(s) + 1)
  <2>1. /\ behind \in SUBSET Int /\ 2 \in behind /\ Len(s) + 1 \in behind
        /\ \A i \in behind : 2 <= i /\ i <= Len(s) + 1
    <3>1. r[2] = s[1] /\ r[Len(s) + 1] = s[Len(s)]
      BY <1>0, <1>1
    <3> HIDE DEF r
    <3> QED
      BY <1>0, <1>1, <3>1
  <2>2. Strip(r) = IF behind = {} THEN <<>> ELSE SubSeq(r, Min(behind), Max(behind))
    BY DEF Strip
  <2> HIDE DEF behind
  <2>3. Min(behind) = 2 /\ Max(behind) = Len(s) + 1
    BY <2>1, MinMax
  <2> QED
    BY <2>1, <2>2, <2>3
<1>4. SubSeq(s, 1, Len(s)) = s
  BY SubSeqFull DEF Words
<1>5. SubSeq(r, 2, Len(s) + 1) = s
  <2> HIDE DEF r
  <2> DEFINE u == SubSeq(r, 2, Len(s) + 1)
  <2>1. u \in Words /\ Len(u) = Len(s) /\ \A i \in 1..Len(s) : u[i] = s[i]
    BY <1>0, <1>1 DEF Words
  <2> HIDE DEF u
  <2> QED
    BY <2>1, SeqEqual DEF Words, u
<1> QED
  BY <1>2, <1>3, <1>4, <1>5

LEMMA FindFirst ==
  ASSUME NEW s \in Words, NEW chars, NEW n \in 1..Len(s), s[n] \in chars,
         \A i \in 1..n - 1 : s[i] \notin chars
  PROVE  Find(s, chars) = n
<1> DEFINE at == {i \in DOMAIN s : s[i] \in chars}
<1>1. at \in SUBSET Int /\ n \in at /\ \A i \in at : n <= i
  BY DEF Words
<1>2. Find(s, chars) = IF at = {} THEN 0 ELSE Min(at)
  BY DEF Find
<1> HIDE DEF at
<1>3. ASSUME NEW x \in at PROVE (\A i \in at : x <= i) => x = n
  BY <1>1
<1>4. Min(at) = n
  BY <1>1, <1>3 DEF Min
<1> QED
  BY <1>1, <1>2, <1>4

LEMMA FindNone ==
  ASSUME NEW s \in Words, NEW chars, \A i \in 1..Len(s) : s[i] \notin chars
  PROVE  Find(s, chars) = 0
BY DEF Find, Words

\* What the next keyword starts from, or the end.
Follows(left) == left = <<>> \/ \E t \in Words : Trimmed(t) /\ left = <<Space>> \o t

LEMMA BareIsRead ==
  ASSUME NEW v \in Words, Bare(v), NEW left \in Words, Follows(left)
  PROVE  /\ (v \o left)[1] # Quote
         /\ FirstWord(v \o left) = Scanned(v, "closed", IF left = <<>> THEN <<>> ELSE Tail(left))
<1> DEFINE rem == v \o left
<1>0. /\ Len(v) \in Nat \ {0} /\ \A i \in 1..Len(v) : v[i] # Space /\ v[i] # Quote
      /\ Space \in Characters
  <2>1. \A i \in 1..Len(v) : v[i] \in Range(v)
    BY DEF Range, Words
  <2> QED
    BY <2>1, CharactersAssumption DEF Bare, MustEnclose, Words
<1>1. /\ rem \in Words /\ Len(rem) = Len(v) + Len(left) /\ \A i \in 1..Len(v) : rem[i] = v[i]
      /\ \A i \in 1..Len(left) : rem[Len(v) + i] = left[i]
      /\ Len(left) \in Nat
  BY <1>0 DEF Words
<1> HIDE DEF rem
<1>2. rem[1] = v[1] /\ v[1] # Quote /\ v[1] # Space /\ rem[1] \in Characters
  BY <1>0, <1>1 DEF Words
<1>3. Find(rem, Characters \ {Space}) = 1
  <2> DEFINE visible == Characters \ {Space}
  <2>1. 1 \in 1..Len(rem) /\ rem[1] \in visible /\ \A i \in 1..1 - 1 : rem[i] \notin visible
    BY <1>0, <1>1, <1>2
  <2> HIDE DEF visible
  <2>2. Find(rem, visible) = 1
    BY <1>1, <2>1, FindFirst
  <2> QED
    BY <2>2 DEF visible
<1>4. SubSeq(rem, 1, Len(rem)) = rem
  BY <1>1, SubSeqFull DEF Words
<1>5. CASE left = <<>>
  <2>1. rem = v /\ Len(left) = 0
    BY <1>5, ConcatEmptySeq DEF Words, rem
  <2>2. Find(rem, {Space}) = 0
    BY <1>0, <1>1, <2>1, FindNone
  <2> QED
    BY <1>2, <1>3, <1>4, <1>5, <2>1, <2>2 DEF FirstWord, rem
<1>6. CASE left # <<>>
  <2>1. PICK t \in Words : Trimmed(t) /\ left = <<Space>> \o t
    BY <1>6 DEF Follows
  <2>2. Len(left) = Len(t) + 1 /\ Len(t) \in Nat /\ left[1] = Space /\ \A i \in 1..Len(t) : left[i + 1] = t[i]
    BY <1>0, <2>1 DEF Words
  <2>3. Find(rem, {Space}) = Len(v) + 1
    <3> DEFINE n == Len(v) + 1
    <3>1. rem[n] \in {Space} /\ n \in 1..Len(rem)
      BY <1>0, <1>1, <2>2
    <3>2. \A i \in 1..n - 1 : rem[i] \notin {Space}
      BY <1>0, <1>1
    <3> HIDE DEF n
    <3>3. Find(rem, {Space}) = n
      BY <1>1, <3>1, <3>2, FindFirst
    <3> QED
      BY <3>3 DEF n
  <2>4. SubSeq(rem, Len(v) + 2, Len(rem)) = t
    <3> DEFINE u == SubSeq(rem, Len(v) + 2, Len(rem))
    <3>1. u \in Words /\ Len(u) = Len(t)
      BY <1>0, <1>1, <2>2 DEF Words
    <3>2. ASSUME NEW i \in 1..Len(t) PROVE u[i] = t[i]
      <4>1. u[i] = rem[Len(v) + (i + 1)]
        BY <1>0, <1>1, <2>2 DEF Words
      <4>2. rem[Len(v) + (i + 1)] = left[i + 1]
        BY <1>0, <1>1, <2>2
      <4> QED
        BY <2>2, <4>1, <4>2
    <3> HIDE DEF u
    <3> QED
      BY <3>1, <3>2, SeqEqual DEF Words, u
  <2>5. SubSeq(rem, 1, Len(v)) = v
    <3> DEFINE u == SubSeq(rem, 1, Len(v))
    <3>1. u \in Words /\ Len(u) = Len(v) /\ \A i \in 1..Len(v) : u[i] = v[i]
      BY <1>0, <1>1 DEF Words
    <3> HIDE DEF u
    <3> QED
      BY <3>1, SeqEqual DEF Words, u
  <2>6. Strip(t) = t /\ t # <<>>
    BY <2>1, StripTrimmed DEF Trimmed
  <2>7. Tail(left) = t
    BY <1>0, <2>1 DEF Words
  <2>8. 1 + (Len(v) + 1) = Len(v) + 2 /\ 1 + (Len(v) + 1) - 2 = Len(v) /\ Len(v) + 1 # 0
    BY <1>0
  <2>9. FirstWord(rem) = Scanned(v, "closed", t)
    <3> DEFINE start == Find(rem, Characters \ {Space})
               after == Find(SubSeq(rem, start, Len(rem)), {Space})
               more == Strip(SubSeq(rem, start + after, Len(rem)))
    <3>1. FirstWord(rem) = IF start = 0 \/ after = 0 \/ more = <<>>
                           THEN Scanned(rem, "closed", <<>>)
                           ELSE Scanned(SubSeq(rem, start, start + after - 2), "closed", more)
      BY DEF FirstWord
    <3>2. start = 1
      BY <1>3
    <3>3. after = Len(v) + 1
      BY <1>4, <2>3, <3>2
    <3>4. more = t
      BY <2>4, <2>6, <2>8, <3>2, <3>3
    <3>5. SubSeq(rem, start, start + after - 2) = v
      BY <2>5, <2>8, <3>2, <3>3
    <3>6. ~(start = 0 \/ after = 0 \/ more = <<>>)
      BY <2>6, <2>8, <3>2, <3>3, <3>4
    <3> HIDE DEF start, after, more
    <3>7. FirstWord(rem) = Scanned(SubSeq(rem, start, start + after - 2), "closed", more)
      BY <3>1, <3>6
    <3> QED
      BY <3>4, <3>5, <3>7
  <2> QED
    BY <1>2, <1>6, <2>7, <2>9 DEF rem
<1> QED
  BY <1>5, <1>6

-----------------------------------------------------------------------------
(* One turn of the parser, over the text that a keyword and the value      *)
(* written for it start.                                                   *)

\* A value as it is written: enclosed, or as it is.
Writes(w, v) == w = Enclosed(Escaped(v)) \/ (w = v /\ Bare(v))

LEMMA WritesWord ==
  ASSUME NEW v \in Words, NEW w, Writes(w, v)
  PROVE  w \in Words /\ w # <<>> /\ w[Len(w)] # Space
<1>1. CASE w = Enclosed(Escaped(v))
  <2>1. Escaped(v) \in Words
    BY EscapedWord
  <2> QED
    BY <1>1, <2>1, CharactersAssumption DEF Enclosed, Words
<1>2. CASE w = v /\ Bare(v)
  <2>1. Len(v) \in 1..Len(v)
    BY <1>2 DEF Bare, MustEnclose, Words
  <2>2. v[Len(v)] \in Range(v)
    BY <2>1 DEF Range, Words
  <2> QED
    BY <1>2, <2>2 DEF Bare, MustEnclose
<1> QED
  BY <1>1, <1>2 DEF Writes

LEMMA ValueIsRead ==
  ASSUME NEW v \in Words, NEW w, Writes(w, v), NEW left \in Words, Follows(left)
  PROVE  \E r \in Words : /\ Value(w \o left) = Scanned(v, "closed", r)
                          /\ r = left \/ (left # <<>> /\ r = Tail(left))
<1>1. CASE w = Enclosed(Escaped(v))
  <2>1. Escaped(v) \in Words /\ Quote \in Characters
    BY EscapedWord, CharactersAssumption
  <2> DEFINE s == Append(Escaped(v), Quote)
             t == s \o left
  <2>2. s \in Words /\ t \in Words
    BY <2>1 DEF Words
  <2>3. w = <<Quote>> \o s
    BY <1>1, <2>1 DEF Enclosed, Words
  <2>4. Scan(t) = Scanned(v, "closed", left)
    BY EnclosedIsRead
  <2> HIDE DEF s
  <2>5. w \o left = <<Quote>> \o t
    BY <2>1, <2>2, <2>3, ConcatAssociative DEF Words
  <2> HIDE DEF t
  <2>6. Tail(<<Quote>> \o t) = t /\ <<Quote>> \o t # <<>> /\ (<<Quote>> \o t)[1] = Quote
    BY <2>1, <2>2 DEF Words
  <2>7. Value(w \o left) = Scanned(v, "closed", left)
    BY <2>4, <2>5, <2>6 DEF Value
  <2> QED
    BY <2>7
<1>2. CASE w = v /\ Bare(v)
  <2> DEFINE r == IF left = <<>> THEN <<>> ELSE Tail(left)
  <2>1. (v \o left)[1] # Quote /\ FirstWord(v \o left) = Scanned(v, "closed", r)
    BY <1>2, BareIsRead
  <2>2. r \in Words /\ (r = left \/ (left # <<>> /\ r = Tail(left)))
    BY DEF Words
  <2> QED
    BY <1>2, <2>1, <2>2 DEF Value
<1> QED
  BY <1>1, <1>2 DEF Writes

LEMMA KeyIsRead ==
  ASSUME NEW k \in Range(Keys), NEW s \in Words
  PROVE  LET text == (k \o <<Equals>>) \o s
         IN  /\ Find(text, {Equals}) = Len(k) + 1
             /\ SubSeq(text, 1, Len(k)) = k
             /\ SubSeq(text, Len(k) + 2, Len(text)) = s
<1> DEFINE text == (k \o <<Equals>>) \o s
           n == Len(k) + 1
<1>1. /\ k \in Words /\ Len(k) \in Nat \ {0} /\ Equals \in Characters
      /\ \A i \in 1..Len(k) : k[i] # Equals
  <2>1. PICK j \in DOMAIN Keys : k = Keys[j]
    BY DEF Range
  <2>2. k \in Words /\ k # <<>> /\ Equals \notin Range(k)
    BY <2>1, KeysAssumption DEF Words
  <2>3. Len(k) \in Nat \ {0} /\ \A i \in 1..Len(k) : k[i] \in Range(k)
    BY <2>2 DEF Range, Words
  <2> QED
    BY <2>2, <2>3, CharactersAssumption
<1>2. /\ text \in Words /\ Len(text) = Len(k) + 1 + Len(s) /\ Len(s) \in Nat
      /\ text[n] = Equals /\ \A i \in 1..Len(k) : text[i] = k[i]
      /\ \A i \in 1..Len(s) : text[n + i] = s[i]
  BY <1>1 DEF Words
<1>3. n \in 1..Len(text) /\ n \in Nat
  BY <1>1, <1>2
<1> HIDE DEF text
<1>4. Find(text, {Equals}) = n
  <2>1. text[n] \in {Equals} /\ \A i \in 1..n - 1 : text[i] \notin {Equals}
    BY <1>1, <1>2
  <2> HIDE DEF n
  <2> QED
    BY <1>2, <1>3, <2>1, FindFirst
<1>5. SubSeq(text, 1, Len(k)) = k
  <2> DEFINE u == SubSeq(text, 1, Len(k))
  <2>1. u \in Words /\ Len(u) = Len(k) /\ \A i \in 1..Len(k) : u[i] = k[i]
    BY <1>1, <1>2 DEF Words
  <2> HIDE DEF u
  <2> QED
    BY <1>1, <2>1, SeqEqual DEF Words, u
<1>6. SubSeq(text, Len(k) + 2, Len(text)) = s
  <2> DEFINE u == SubSeq(text, Len(k) + 2, Len(text))
  <2>1. u \in Words /\ Len(u) = Len(s) /\ \A i \in 1..Len(s) : u[i] = s[i]
    BY <1>1, <1>2 DEF Words
  <2> HIDE DEF u
  <2> QED
    BY <2>1, SeqEqual DEF Words, u
<1> QED
  BY <1>4, <1>5, <1>6 DEF text

-----------------------------------------------------------------------------
(* The text for some of the keywords: what its first one writes, then the  *)
(* text for the others.                                                    *)

KeySet == Range(Keys)

LEMMA Regroup ==
  ASSUME NEW a \in Words, NEW b \in Words, NEW c \in Words
  PROVE  (a \o b) \o c = a \o (b \o c)
BY ConcatAssociative DEF Words

LEMMA Prefix ==
  ASSUME NEW a \in Words, NEW b \in Words, a # <<>>
  PROVE  a \o b \in Words /\ Len(a \o b) \in Nat \ {0} /\ (a \o b)[1] = a[1]
BY DEF Words

LEMMA KeyWord == ASSUME NEW k \in KeySet PROVE k \in Words /\ k # <<>> /\ k[1] # Space
<1>1. PICK j \in DOMAIN Keys : k = Keys[j]
  BY DEF Range, KeySet
<1>2. k \in Words /\ k # <<>> /\ Space \notin Range(k)
  BY <1>1, KeysAssumption DEF Words
<1> QED
  BY <1>2 DEF Range, Words

\* The values as they are written, none of them ending with a space.
Writable(value) == /\ value \in [KeySet -> Words]
                  /\ \A k \in KeySet : value[k] # <<>> /\ value[k][Len(value[k])] # Space

Piece(value, k) == <<Space>> \o ((k \o <<Equals>>) \o value[k])

LEMMA PieceWord ==
  ASSUME NEW value, Writable(value), NEW k \in KeySet
  PROVE  /\ Piece(value, k) \in Words /\ Piece(value, k) # <<>>
         /\ Piece(value, k)[Len(Piece(value, k))] # Space
         /\ ((<<Space>> \o k) \o <<Equals>>) \o value[k] = Piece(value, k)
<1>1. /\ k \in Words /\ Space \in Characters /\ Equals \in Characters /\ value[k] \in Words
      /\ value[k] # <<>> /\ value[k][Len(value[k])] # Space
  BY KeyWord, CharactersAssumption DEF Writable
<1> DEFINE before == (<<Space>> \o k) \o <<Equals>>
<1>2. before \in Words /\ <<Space>> \in Words /\ <<Equals>> \in Words /\ k \o <<Equals>> \in Words
  BY <1>1 DEF Words
<1>3. before \o value[k] = Piece(value, k)
  <2> DEFINE space == <<Space>>
             head == k \o <<Equals>>
  <2>1. before = space \o head
    BY <1>1, <1>2, ConcatAssociative DEF Words
  <2>2. space \in Words /\ head \in Words
    BY <1>2
  <2>3. Piece(value, k) = space \o (head \o value[k])
    BY DEF Piece
  <2> HIDE DEF before, space, head
  <2> QED
    BY <1>1, <2>1, <2>2, <2>3, Regroup, Zenon
<1> HIDE DEF before
<1>4. LET piece == before \o value[k]
      IN  piece \in Words /\ piece # <<>> /\ piece[Len(piece)] # Space
  BY <1>1, <1>2 DEF Words
<1> QED
  BY <1>3, <1>4 DEF before

LEMMA JoinedEach ==
  ASSUME NEW value, Writable(value)
  PROVE  \E word \in [KeySet -> Words] :
           /\ \A k \in KeySet : word[k] = Piece(value, k)
           /\ \A keys : Joined(keys, value) = Each(keys, word)
<1> DEFINE word == [k \in KeySet |-> ((<<Space>> \o k) \o <<Equals>>) \o value[k]]
<1>1. \A k \in KeySet : word[k] = Piece(value, k) /\ word[k] \in Words
  BY PieceWord
<1>2. \A keys : Joined(keys, value) = Each(keys, word)
  BY DEF Joined, KeySet
<1>3. word \in [KeySet -> Words]
  BY <1>1
<1> QED
  BY <1>1, <1>2, <1>3

LEMMA JoinedFirst ==
  ASSUME NEW value, Writable(value), NEW k \in KeySet, NEW keys \in Seq(KeySet)
  PROVE  /\ Joined(keys, value) \in Words
         /\ Joined(<<k>> \o keys, value) = Piece(value, k) \o Joined(keys, value)
<1>1. PICK word \in [KeySet -> Words] :
        /\ \A x \in KeySet : word[x] = Piece(value, x)
        /\ \A ks : Joined(ks, value) = Each(ks, word)
  BY JoinedEach
<1>2. Each(keys, word) \in Words
  BY <1>1, EachAppend
<1>3. Each(<<k>> \o keys, word) = word[k] \o Each(keys, word)
  BY <1>1, EachCons
<1> QED
  BY <1>1, <1>2, <1>3

LEMMA JoinedLast ==
  ASSUME NEW value, Writable(value)
  PROVE  \A keys \in Seq(KeySet) :
           keys # <<>> => /\ Joined(keys, value) # <<>>
                         /\ Joined(keys, value)[Len(Joined(keys, value))] # Space
<1>1. PICK word \in [KeySet -> Words] :
        /\ \A k \in KeySet : word[k] = Piece(value, k)
        /\ \A keys : Joined(keys, value) = Each(keys, word)
  BY JoinedEach
<1> SUFFICES ASSUME NEW keys \in Seq(KeySet), keys # <<>>
             PROVE  /\ Joined(keys, value) # <<>>
                    /\ Joined(keys, value)[Len(Joined(keys, value))] # Space
  OBVIOUS
<1>2. PICK front \in Seq(KeySet), k \in KeySet : keys = Append(front, k)
  BY SequenceEmptyOrAppend
<1>3. Joined(keys, value) = Joined(front, value) \o Piece(value, k) /\ Joined(front, value) \in Words
  BY <1>1, <1>2, EachAppend
<1>4. /\ Piece(value, k) \in Words /\ Piece(value, k) # <<>>
      /\ Piece(value, k)[Len(Piece(value, k))] # Space
  BY PieceWord
<1>5. ASSUME NEW a \in Words, NEW b \in Words, b # <<>>, b[Len(b)] # Space
      PROVE  a \o b # <<>> /\ (a \o b)[Len(a \o b)] # Space
  BY <1>5 DEF Words
<1> QED
  BY <1>3, <1>4, <1>5

LEMMA JoinedFollows ==
  ASSUME NEW value, Writable(value), NEW k \in KeySet, NEW keys \in Seq(KeySet)
  PROVE  LET t == (k \o <<Equals>>) \o (value[k] \o Joined(keys, value))
         IN  t \in Words /\ Trimmed(t) /\ Joined(<<k>> \o keys, value) = <<Space>> \o t
<1> DEFINE left == Joined(keys, value)
           head == k \o <<Equals>>
           t == head \o (value[k] \o left)
           all == Joined(<<k>> \o keys, value)
<1>1. left \in Words /\ all = Piece(value, k) \o left
  BY JoinedFirst
<1>2. /\ k \in Words /\ Len(k) \in Nat \ {0} /\ k[1] # Space /\ value[k] \in Words
      /\ <<Space>> \in Words /\ Equals \in Characters
  BY KeyWord, CharactersAssumption DEF Writable, Words
<1>3. head \in Words /\ Len(head) \in Nat \ {0} /\ head[1] # Space
  BY <1>2 DEF Words
<1>4. all = (<<Space>> \o (head \o value[k])) \o left
  BY <1>1 DEF Piece
<1> HIDE DEF head, left
<1>5. head \o value[k] \in Words /\ value[k] \o left \in Words
  BY <1>1, <1>2, <1>3 DEF Words
<1>6. (head \o value[k]) \o left = t
  BY <1>1, <1>2, <1>3, Regroup, Zenon
<1>7. (<<Space>> \o (head \o value[k])) \o left = <<Space>> \o ((head \o value[k]) \o left)
  <2> DEFINE middle == head \o value[k]
             space == <<Space>>
  <2> HIDE DEF middle, space
  <2>1. (space \o middle) \o left = space \o (middle \o left)
    <3>1. middle \in Words /\ space \in Words
      BY <1>2, <1>5 DEF middle, space
    <3> QED
      BY <1>1, <3>1, ConcatAssociative DEF Words
  <2> QED
    BY <2>1 DEF middle, space
<1>8. t \in Words /\ Len(t) \in Nat \ {0} /\ t[1] # Space
  <2>1. head # <<>>
    BY <1>3
  <2> QED
    BY <1>3, <1>5, <2>1, Prefix
<1>9. all[Len(all)] # Space
  <2>1. <<k>> \o keys \in Seq(KeySet) /\ <<k>> \o keys # <<>>
    OBVIOUS
  <2> QED
    BY <2>1, JoinedLast
<1> HIDE DEF t, all
<1>10. all = <<Space>> \o t
  BY <1>4, <1>6, <1>7
<1>11. Len(all) = Len(t) + 1 /\ all[Len(all)] = t[Len(t)]
  BY <1>2, <1>8, <1>10 DEF Words
<1>12. t \in Words /\ Trimmed(t)
  BY <1>8, <1>9, <1>11 DEF Trimmed
<1> QED
  BY <1>10, <1>12 DEF t, all, head, left

-----------------------------------------------------------------------------
(* How both lines write values, and the line that is read back.            *)

LEMMA EscapedBare == \A s \in Words : {Quote, Backslash} \cap Range(s) = {} => Escaped(s) = s
<1> DEFINE P == {s \in Words : {Quote, Backslash} \cap Range(s) = {} => Escaped(s) = s}
<1>1. <<>> \in P
  BY EachEmpty DEF Escaped, Words
<1>2. ASSUME NEW s \in Words, NEW c \in Characters, s \in P PROVE Append(s, c) \in P
  <2>1. Append(s, c) \in Words
    BY DEF Words
  <2>2. ASSUME {Quote, Backslash} \cap Range(Append(s, c)) = {} PROVE Escaped(Append(s, c)) = Append(s, c)
    <3>1. c \in Range(Append(s, c)) /\ Range(s) \subseteq Range(Append(s, c))
      BY DEF Range, Words
    <3>2. Escaped(s) = s
      BY <1>2, <2>2, <3>1
    <3> QED
      BY <2>2, <3>1, <3>2, EscapedAppend
  <2> QED
    BY <2>1, <2>2
<1> HIDE DEF P
<1>3. \A s \in Words : s \in P
  BY <1>1, <1>2, OverSequences DEF Words
<1> QED
  BY <1>3 DEF P

\* Strings the properties are about.
Legible == own => Readable

\* Each value is written so that it is read back.
Written == /\ info \in [KeySet -> Values] /\ quotes = [k \in KeySet |-> quotes[k]]
           /\ \A k \in KeySet : Writes(quotes[k], info[k])

LEMMA WrittenInit == ASSUME Init, Legible PROVE Written
<1>1. info \in [KeySet -> Values] /\ own \in BOOLEAN
  BY DEF Init, KeySet
<1>2. CASE own
  <2>1. quotes = DsnQuotes(info)
    BY <1>2 DEF Init
  <2>2. quotes = [k \in KeySet |-> quotes[k]]
    BY <2>1 DEF DsnQuotes, KeySet
  <2>3. ASSUME NEW k \in KeySet PROVE Writes(quotes[k], info[k])
    <3>1. quotes[k] = IF MustEnclose(info[k]) THEN Enclosed(Escaped(info[k])) ELSE Escaped(info[k])
      BY <2>1 DEF DsnQuotes, KeySet
    <3>2. MustEnclose(info[k]) \/ Bare(info[k])
      BY <1>2 DEF Legible, Readable, KeySet
    <3>3. Bare(info[k]) => Escaped(info[k]) = info[k]
      BY <1>1, ValuesAssumption, EscapedBare DEF Bare, Words
    <3> QED
      BY <3>1, <3>2, <3>3 DEF Writes
  <2> QED
    BY <1>1, <2>2, <2>3 DEF Written
<1>3. CASE ~own
  <2>1. PICK bare \in SUBSET {k \in KeySet : Bare(info[k])} : quotes = OperatorQuotes(info, bare)
    BY <1>3 DEF Init, KeySet
  <2>2. quotes = [k \in KeySet |-> IF k \in bare THEN info[k] ELSE Enclosed(Escaped(info[k]))]
    BY <2>1 DEF OperatorQuotes, KeySet
  <2>3. ASSUME NEW k \in KeySet PROVE Writes(quotes[k], info[k])
    BY <2>1, <2>2 DEF Writes
  <2>4. quotes = [k \in KeySet |-> quotes[k]]
    BY <2>2
  <2> QED
    BY <1>1, <2>3, <2>4 DEF Written
<1> QED
  BY <1>1, <1>2, <1>3

LEMMA WrittenWritable ==
  ASSUME Written
  PROVE  Writable(quotes) /\ \A k \in KeySet : info[k] \in Words
<1>1. \A k \in KeySet : info[k] \in Words
  BY ValuesAssumption DEF Written, Words
<1>2. ASSUME NEW k \in KeySet
      PROVE  quotes[k] \in Words /\ quotes[k] # <<>> /\ quotes[k][Len(quotes[k])] # Space
  BY <1>1, WritesWord DEF Written
<1>3. quotes \in [KeySet -> Words]
  BY <1>2 DEF Written
<1> QED
  BY <1>1, <1>2, <1>3 DEF Writable

LEMMA OwnLineIsRead ==
  ASSUME NEW dsn \in Words
  PROVE  FromConfigLine(<<Space>> \o Enclosed(Doubled(dsn))) = dsn
<1> DEFINE literal == Enclosed(Doubled(dsn))
<1>1. Doubled(dsn) \in Words
  BY DoubledAppend, CharactersAssumption
<1>2. /\ literal \in Words /\ literal # <<>> /\ literal[1] = Quote /\ literal[Len(literal)] = Quote
      /\ Len(literal) = Len(Doubled(dsn)) + 2
      /\ \A i \in 1..Len(Doubled(dsn)) : literal[i + 1] = Doubled(dsn)[i]
  BY <1>1, CharactersAssumption DEF Enclosed, Words
<1> HIDE DEF literal
<1>3. Strip(<<Space>> \o literal) = literal
  BY <1>2, StripTrimmed, CharactersAssumption DEF Trimmed
<1>4. SubSeq(literal, 2, Len(literal) - 1) = Doubled(dsn)
  <2> DEFINE u == SubSeq(literal, 2, Len(literal) - 1)
  <2>1. u \in Words /\ Len(u) = Len(Doubled(dsn)) /\ \A i \in 1..Len(Doubled(dsn)) : u[i] = Doubled(dsn)[i]
    BY <1>1, <1>2 DEF Words
  <2> HIDE DEF u
  <2> QED
    BY <1>1, <2>1, SeqEqual DEF Words, u
<1>5. Unpaired(Doubled(dsn)) = dsn
  <2>1. Read(Doubled(dsn)) = [text |-> dsn, half |-> FALSE]
    BY DoubledIsRead
  <2>2. Unpaired(Doubled(dsn)) = Read(Doubled(dsn)).text
    BY DEF Unpaired, Read
  <2> QED
    BY <2>1, <2>2
<1> QED
  BY <1>3, <1>4, <1>5 DEF FromConfigLine, literal

-----------------------------------------------------------------------------
(* The invariant: the parser has read the first m keywords with the values *)
(* that they were given, and has the text for the others before it, with   *)
(* or without the space it starts with.                                    *)

Unread(m) == Joined(SubSeq(Keys, m + 1, Len(Keys)), quotes)

ReadUpTo(m) ==
  /\ fields = [k \in {Keys[i] : i \in 1..m} |-> info[k]]
  /\ rest = Unread(m) \/ (Unread(m) # <<>> /\ rest = Tail(Unread(m)))
  /\ status = "parsing" \/ (status = "done" /\ m = Len(Keys))

ParserInv == Legible => Written /\ \E m \in 0..Len(Keys) : ReadUpTo(m)

LEMMA KeysFacts ==
  /\ Len(Keys) \in Nat \ {0} /\ Keys \in Seq(KeySet) /\ KeySet = {Keys[i] : i \in 1..Len(Keys)}
  /\ \A i \in 1..Len(Keys) : Keys[i] \in KeySet
  /\ \A i, j \in 1..Len(Keys) : Keys[i] = Keys[j] => i = j
<1>1. /\ Keys \in Seq(Seq(Characters)) /\ Keys # <<>>
      /\ \A i, j \in DOMAIN Keys : Keys[i] = Keys[j] => i = j
  BY KeysAssumption
<1>2. DOMAIN Keys = 1..Len(Keys) /\ Len(Keys) \in Nat \ {0}
  BY <1>1
<1>3. KeySet = {Keys[i] : i \in 1..Len(Keys)}
  BY <1>2 DEF KeySet, Range
<1>4. \A i \in 1..Len(Keys) : Keys[i] \in KeySet
  BY <1>3
<1>5. Keys \in Seq(KeySet)
  <2>1. Keys = [i \in 1..Len(Keys) |-> Keys[i]]
    BY <1>1
  <2> QED
    BY <1>2, <1>4, <2>1
<1> QED
  BY <1>1, <1>2, <1>3, <1>4, <1>5

\* The text for the keywords behind the first m starts with that for the next one.
LEMMA UnreadNext ==
  ASSUME Written, NEW m \in 0..Len(Keys) - 1
  PROVE  LET k == Keys[m + 1]
             text == (k \o <<Equals>>) \o (quotes[k] \o Unread(m + 1))
         IN  /\ k \in KeySet /\ text \in Words /\ Trimmed(text)
             /\ Unread(m) = <<Space>> \o text
             /\ Unread(m + 1) \in Words
<1> DEFINE k == Keys[m + 1]
           keys == SubSeq(Keys, m + 2, Len(Keys))
<1>1. k \in KeySet /\ keys \in Seq(KeySet) /\ SubSeq(Keys, m + 1, Len(Keys)) = <<k>> \o keys
  <2>1. m + 1 \in 1..Len(Keys) /\ Len(Keys) \in m + 1..Len(Keys) /\ (m + 1) + 1 = m + 2
    BY KeysFacts
  <2>2. SubSeq(Keys, m + 1, Len(Keys)) = <<Keys[m + 1]>> \o SubSeq(Keys, (m + 1) + 1, Len(Keys))
    BY <2>1, KeysFacts, SubSeqRecursiveFirst
  <2>3. keys \in Seq(KeySet)
    BY <2>1, KeysFacts
  <2> QED
    BY <2>1, <2>2, <2>3, KeysFacts
<1>2. Unread(m + 1) = Joined(keys, quotes)
  BY DEF Unread
<1>3. Unread(m) = Joined(<<k>> \o keys, quotes)
  BY <1>1 DEF Unread
<1> HIDE DEF k, keys
<1>4. Writable(quotes)
  BY WrittenWritable
<1>5. Joined(keys, quotes) \in Words
  BY <1>1, <1>4, JoinedFirst
<1>6. LET t == (k \o <<Equals>>) \o (quotes[k] \o Joined(keys, quotes))
      IN  t \in Words /\ Trimmed(t) /\ Joined(<<k>> \o keys, quotes) = <<Space>> \o t
  BY <1>1, <1>4, JoinedFollows
<1> QED
  BY <1>1, <1>2, <1>3, <1>5, <1>6 DEF k

LEMMA UnreadEnd == Unread(Len(Keys)) = <<>>
<1>1. SubSeq(Keys, Len(Keys) + 1, Len(Keys)) = <<>>
  BY KeysFacts, SubSeqEmpty
<1> QED
  BY <1>1, EachEmpty DEF Unread, Joined

LEMMA UnreadFollows ==
  ASSUME Written, NEW m \in 0..Len(Keys)
  PROVE  Unread(m) \in Words /\ Follows(Unread(m))
<1>1. CASE m = Len(Keys)
  BY <1>1, UnreadEnd DEF Follows, Words
<1>2. CASE m # Len(Keys)
  <2> DEFINE text == (Keys[m + 1] \o <<Equals>>) \o (quotes[Keys[m + 1]] \o Unread(m + 1))
  <2>1. m \in 0..Len(Keys) - 1
    BY <1>2, KeysFacts
  <2>2. text \in Words /\ Trimmed(text) /\ Unread(m) = <<Space>> \o text
    BY <2>1, UnreadNext
  <2> HIDE DEF text
  <2>3. Unread(m) \in Words
    BY <2>2, CharactersAssumption DEF Words
  <2> QED
    BY <2>2, <2>3 DEF Follows
<1> QED
  BY <1>1, <1>2

LEMMA ParserInit == Init => ParserInv
<1> SUFFICES ASSUME Init, Legible PROVE Written /\ ReadUpTo(0)
  BY KeysFacts DEF ParserInv
<1>1. Written
  BY WrittenInit
<1>2. Unread(0) = Joined(Keys, quotes)
  <2>1. SubSeq(Keys, 1, Len(Keys)) = Keys /\ 0 + 1 = 1
    BY KeysFacts, SubSeqFull
  <2> QED
    BY <2>1 DEF Unread
<1> DEFINE text == (Keys[1] \o <<Equals>>) \o (quotes[Keys[1]] \o Unread(1))
<1>3. text \in Words /\ Trimmed(text) /\ Unread(0) = <<Space>> \o text
  <2>1. 0 \in 0..Len(Keys) - 1 /\ 0 + 1 = 1
    BY KeysFacts
  <2> QED
    BY <1>1, <2>1, UnreadNext
<1> HIDE DEF text
<1>4. Unread(0) # <<>> /\ Tail(Unread(0)) = text
  BY <1>3, CharactersAssumption DEF Words
<1>5. rest = Unread(0) \/ rest = Tail(Unread(0))
  <2>1. CASE own
    <3>1. MakeDsn(info) = text
      BY <1>2, <1>4, <2>1 DEF MakeDsn, Init
    <3>2. rest = FromConfigLine(<<Space>> \o Enclosed(Doubled(text)))
      BY <2>1, <3>1 DEF Init, OwnValue
    <3> QED
      BY <1>3, <1>4, <3>2, OwnLineIsRead
  <2>2. CASE ~own
    BY <1>2, <2>2 DEF Init
  <2> QED
    BY <2>1, <2>2
<1>6. fields = [k \in {Keys[i] : i \in 1..0} |-> info[k]]
  <2>1. {Keys[i] : i \in 1..0} = {}
    OBVIOUS
  <2> QED
    BY <2>1 DEF Init
<1> QED
  BY <1>1, <1>4, <1>5, <1>6 DEF Init, ReadUpTo

LEMMA ParserStep == ParserInv /\ [Parse]_vars => ParserInv'
<1> SUFFICES ASSUME ParserInv, [Parse]_vars PROVE ParserInv'
  OBVIOUS
<1>1. /\ info' = info /\ own' = own /\ quotes' = quotes /\ Legible' = Legible
      /\ \A m : Unread(m)' = Unread(m)
  <2>1. info' = info /\ own' = own /\ quotes' = quotes
    BY DEF Parse, vars
  <2>2. Legible' = Legible
    BY <2>1 DEF Legible, Readable
  <2>3. \A m : Unread(m)' = Unread(m)
    BY <2>1 DEF Unread
  <2> QED
    BY <2>1, <2>2, <2>3
<1>2. Legible => Written /\ Written'
  BY <1>1 DEF ParserInv, Written
<1>3. ASSUME UNCHANGED vars, Legible PROVE \E m \in 0..Len(Keys) : ReadUpTo(m)'
  <2>1. PICK m \in 0..Len(Keys) : ReadUpTo(m)
    BY <1>3 DEF ParserInv
  <2>2. ReadUpTo(m)'
    BY <1>1, <1>3, <2>1 DEF vars, ReadUpTo
  <2> QED
    BY <2>2
<1>4. ASSUME Parse, Legible PROVE \E m \in 0..Len(Keys) : ReadUpTo(m)'
  <2>1. PICK m \in 0..Len(Keys) : ReadUpTo(m)
    BY <1>4 DEF ParserInv
  <2>2. status = "parsing"
    BY <1>4 DEF Parse
  <2>3. CASE m = Len(Keys)
    <3>1. rest = <<>>
      BY <2>1, <2>3, UnreadEnd DEF ReadUpTo
    <3>2. Strip(rest) = <<>> /\ Find(Strip(rest), {Equals}) = 0
      BY <3>1 DEF Strip, Find
    <3>3. status' = "done" /\ rest' = rest /\ fields' = fields
      BY <1>4, <3>2 DEF Parse
    <3> QED
      BY <1>1, <2>1, <2>3, <3>3 DEF ReadUpTo
  <2>4. CASE m # Len(Keys)
    <3>1. m \in 0..Len(Keys) - 1 /\ m + 1 \in 0..Len(Keys) /\ m \in Nat
      BY <2>4, KeysFacts
    <3> DEFINE k == Keys[m + 1]
               rem == quotes[k] \o Unread(m + 1)
               text == (k \o <<Equals>>) \o rem
               at == Len(k) + 1
    <3>2. k \in KeySet /\ text \in Words /\ Trimmed(text) /\ Unread(m) = <<Space>> \o text
      BY <1>2, <1>4, <3>1, UnreadNext
    <3>3. Unread(m + 1) \in Words /\ Follows(Unread(m + 1))
      BY <1>2, <1>4, <3>1, UnreadFollows
    <3>4. info[k] \in Words /\ Writes(quotes[k], info[k])
      BY <1>2, <1>4, <3>2, WrittenWritable DEF Written
    <3>5. PICK r \in Words : /\ Value(rem) = Scanned(info[k], "closed", r)
                            /\ (r = Unread(m + 1) \/ (Unread(m + 1) # <<>> /\ r = Tail(Unread(m + 1))))
      BY <3>3, <3>4, ValueIsRead
    <3>6. rem \in Words
      BY <3>3, <3>4, WritesWord DEF Words
    <3> HIDE DEF rem
    <3>7. /\ Find(text, {Equals}) = at
          /\ SubSeq(text, 1, Len(k)) = k
          /\ SubSeq(text, Len(k) + 2, Len(text)) = rem
      BY <3>2, <3>6, KeyIsRead DEF KeySet
    <3>8. Len(k) \in Nat /\ at # 0 /\ at - 1 = Len(k) /\ at + 1 = Len(k) + 2
      BY <3>2, KeyWord DEF Words
    <3> HIDE DEF text
    <3>9. Strip(rest) = text
      <4>1. rest = <<Space>> \o text \/ rest = text
        <5>1. Tail(<<Space>> \o text) = text
          BY <3>2, CharactersAssumption DEF Words
        <5> QED
          BY <2>1, <3>2, <5>1 DEF ReadUpTo
      <4> QED
        BY <3>2, <4>1, StripTrimmed
    <3>10. Fragment(text, at)
      <4>1. text # <<>>
        BY <3>2 DEF Trimmed
      <4> QED
        BY <1>4, <3>7, <3>8, <3>9, <4>1 DEF Parse
    <3> HIDE DEF at
    <3>11. SubSeq(text, 1, at - 1) = k /\ SubSeq(text, at + 1, Len(text)) = rem
      BY <3>7, <3>8
    <3>12. LET part == Value(rem)
           IN  IF part.mode = "closed"
               THEN fields' = With(fields, k, part.value) /\ rest' = part.rest /\ status' = status
               ELSE status' = "failed"
      BY <3>10, <3>11 DEF Fragment
    <3>13. fields' = With(fields, k, info[k]) /\ rest' = r /\ status' = status
      BY <3>5, <3>12 DEF Scanned
    <3>14. fields' = [x \in {Keys[i] : i \in 1..m + 1} |-> info[x]]
      <4>1. fields = [x \in {Keys[i] : i \in 1..m} |-> info[x]]
        BY <2>1 DEF ReadUpTo
      <4>2. {k} \cup {Keys[i] : i \in 1..m} = {Keys[i] : i \in 1..m + 1}
        BY <3>1
      <4> HIDE DEF k
      <4>3. With(fields, k, info[k]) = [x \in {k} \cup {Keys[i] : i \in 1..m} |-> info[x]]
        BY <4>1 DEF With
      <4> QED
        BY <3>13, <4>2, <4>3
    <3>15. ReadUpTo(m + 1)'
      BY <1>1, <2>2, <3>5, <3>13, <3>14 DEF ReadUpTo
    <3> QED
      BY <3>1, <3>15
  <2> QED
    BY <2>3, <2>4
<1> QED
  BY <1>1, <1>2, <1>3, <1>4 DEF ParserInv

LEMMA ParserInvHolds == Spec => []ParserInv
<1>1. Init => ParserInv
  BY ParserInit
<1>2. ParserInv /\ [Parse]_vars => ParserInv'
  BY ParserStep
<1> QED
  BY <1>1, <1>2, PTL DEF Spec

LEMMA ReadsAll ==
  ASSUME ParserInv, Legible
  PROVE  status # "failed" /\ (status = "done" => fields = info)
<1>1. PICK m \in 0..Len(Keys) : ReadUpTo(m)
  BY DEF ParserInv
<1>2. ASSUME status = "done" PROVE fields = info
  <2>1. fields = [k \in KeySet |-> info[k]]
    BY <1>1, <1>2, KeysFacts DEF ReadUpTo
  <2> QED
    BY <2>1 DEF ParserInv, Written
<1> QED
  BY <1>1, <1>2 DEF ReadUpTo

\* pgutil.py:63-96: for any keywords and values, a string written with quotes
\* as libpq wants it is read without an error, and as what it was made from.
THEOREM QuotingUnderstood == Spec => []UnderstandsQuoting
<1>1. ParserInv => UnderstandsQuoting
  BY ReadsAll DEF UnderstandsQuoting, Legible
<1> QED
  BY <1>1, ParserInvHolds, PTL

\* pglookout.py:731-760, pgutil.py:25-28: for any keywords and any readable
\* values, the line that pglookout writes is read back as what it was made from.
THEOREM OwnLineReadBack == Spec => []ReadsOwnLine
<1>1. ParserInv => ReadsOwnLine
  BY ReadsAll DEF ReadsOwnLine, Legible
<1> QED
  BY <1>1, ParserInvHolds, PTL
=============================================================================
