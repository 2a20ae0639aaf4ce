------------------------- MODULE SnippetMatching_proofs -------------------------
(***************************************************************************)
(* Proofs about SnippetMatching for any lines, snippets and documents and any *)
(* limits: what one call of MatchSnippetsToDocuments keeps, whoever calls it.  *)
(***************************************************************************)
EXTENDS SnippetMatching, CountingTheorems

(* The evidence lies behind the document of this round, and there is none     *)
(* before the snippets are sanitized.                                       *)
MatchedBehind ==
  /\ \A k \in DOMAIN matched : matched[k] < next
  /\ pc = "sanitize" => matched = <<>> /\ next = 1

MatchInvariant ==
  /\ MatchTypeOK
  /\ MatchedBehind
  /\ OneLineEach
  /\ OrderKept
  /\ NoEvidenceLost

-------------------------------------------------------------------------------
(* What the operators on sequences return. *)

LEMMA BoundedSeqType ==
  ASSUME NEW S, NEW n \in Nat, NEW s \in BoundedSeq(S, n)
  PROVE  s \in Seq(S) /\ Len(s) <= n
<1>1. PICK m \in 0..n : s \in [1..m -> S]
  BY DEF BoundedSeq, SeqOf
<1> QED
  BY <1>1

LEMMA BoundedSeqHas ==
  ASSUME NEW S, NEW n \in Nat, NEW s \in Seq(S), Len(s) <= n
  PROVE  s \in BoundedSeq(S, n)
<1>1. Len(s) \in 0..n /\ s \in [1..Len(s) -> S]
  OBVIOUS
<1> QED
  BY <1>1 DEF BoundedSeq, SeqOf

(* Without the blank lines. *)
LEMMA NonBlankType ==
  ASSUME NEW lines \in Seq(Lines)
  PROVE  /\ NonBlank(lines) \in Seq(Lines \ {Blank})
         /\ Len(lines) = 0 => NonBlank(lines) = <<>>
<1> DEFINE T == Seq(Lines \ {Blank})
           N == Len(lines)
           Kept(k) == [n \in 0..N |->
                         IF n = 0 THEN <<>>
                         ELSE IF lines[n] = Blank THEN k[n - 1]
                         ELSE Append(k[n - 1], lines[n])]
           kept == CHOOSE k : k = Kept(k)
           step == [x \in (1..N) \X T |->
                      IF lines[x[1]] = Blank THEN x[2] ELSE Append(x[2], lines[x[1]])]
<1>1. N \in Nat
  OBVIOUS
<1>2. kept = Kept(kept)
  <2>1. step \in [(1..N) \X T -> T]
    OBVIOUS
  <2>2. PICK k \in [0..N -> T] : k[0] = <<>> /\ \A i \in 1..N : k[i] = step[<<i, k[i - 1]>>]
    <3> DEFINE b == <<>>
    <3>1. b \in T
      OBVIOUS
    <3> HIDE DEF step, N, T, b
    <3>2. Solutions(N, T, b, step) # {}
      BY <1>1, <2>1, <3>1, FiniteRecursion
    <3> QED
      BY <3>2 DEF b, Solutions
  <2>3. \A i \in 1..N : k[i] = IF lines[i] = Blank THEN k[i - 1] ELSE Append(k[i - 1], lines[i])
    <3>1. ASSUME NEW i \in 1..N
          PROVE  k[i] = IF lines[i] = Blank THEN k[i - 1] ELSE Append(k[i - 1], lines[i])
      <4> HIDE DEF N, T
      <4>1. i - 1 \in 0..N
        BY <1>1
      <4>2. k[i - 1] \in T
        BY <2>2, <4>1
      <4>3. <<i, k[i - 1]>> \in (1..N) \X T
        BY <4>2
      <4>4. k[i] = step[<<i, k[i - 1]>>]
        BY <2>2
      <4> QED
        BY <4>3, <4>4
    <3> QED
      BY <3>1
  <2>4. k = Kept(k)
    <3> HIDE DEF N, T
    <3>1. ASSUME NEW n \in 0..N
          PROVE  k[n] = Kept(k)[n]
      <4>1. k[0] = <<>>
        BY <2>2
      <4>2. n # 0 => n \in 1..N
        BY <1>1
      <4>3. Kept(k)[n] = IF n = 0 THEN <<>>
                         ELSE IF lines[n] = Blank THEN k[n - 1]
                         ELSE Append(k[n - 1], lines[n])
        OBVIOUS
      <4> HIDE DEF Kept
      <4> QED
        BY <2>3, <4>1, <4>2, <4>3
    <3>2. DOMAIN k = 0..N /\ k = [n \in 0..N |-> k[n]]
      BY <2>2
    <3>3. Kept(k) = [n \in 0..N |-> Kept(k)[n]]
      OBVIOUS
    <3> QED
      BY <3>1, <3>2, <3>3
  <2> HIDE DEF Kept
  <2> QED
    BY <2>4
<1>3. kept[N] \in T
  <2> DEFINE G == {n \in Nat : n <= N => kept[n] \in T}
  <2> HIDE DEF kept
  <2>1. 0 \in G
    BY <1>1, <1>2
  <2>2. ASSUME NEW n \in G
        PROVE  n + 1 \in G
    <3>1. SUFFICES ASSUME n + 1 <= N
                   PROVE  kept[n + 1] \in T
      OBVIOUS
    <3>2. kept[n] \in T /\ lines[n + 1] \in Lines
      BY <1>1, <3>1
    <3>3. kept[n + 1] = IF lines[n + 1] = Blank THEN kept[n] ELSE Append(kept[n], lines[n + 1])
      <4>1. n + 1 \in 0..N /\ n + 1 # 0 /\ (n + 1) - 1 = n
        BY <1>1, <3>1
      <4>2. kept[n + 1] = Kept(kept)[n + 1]
        BY <1>2
      <4> HIDE DEF N, T
      <4> QED
        BY <4>1, <4>2
    <3> QED
      BY <3>2, <3>3
  <2>3. N \in G
    <3> HIDE DEF G, N
    <3>1. G \in SUBSET Nat
      BY DEF G
    <3> QED
      BY <1>1, <2>1, <2>2, <3>1, NatSetInduction
  <2> QED
    BY <2>3
<1>4. N = 0 => kept[N] = <<>>
  <2> HIDE DEF kept
  <2> QED
    BY <1>2
<1>5. NonBlank(lines) = kept[N]
  BY DEF NonBlank
<1> QED
  BY <1>3, <1>4, <1>5

(* The lines of the snippets one after the other. *)
LEMMA FlattenType ==
  ASSUME NEW s \in Seq(Seq(Lines))
  PROVE  /\ FlattenSeq(s) \in Seq(Lines)
         /\ Len(s) = 0 => FlattenSeq(s) = <<>>
<1>1. CASE Len(s) = 0
  BY <1>1 DEF FlattenSeq
<1>2. CASE Len(s) # 0
  <2> DEFINE T == Seq(Lines)
             N == Len(s)
             M == N - 1
             Flatten(f) == [i \in 1..N |-> IF i = 1 THEN s[i] ELSE f[i - 1] \o s[i]]
             flatten == CHOOSE f : f = Flatten(f)
             step == [x \in (1..M) \X T |-> x[2] \o s[x[1] + 1]]
  <2>1. N \in Nat /\ M \in Nat /\ N = M + 1
    BY <1>2
  <2>2. flatten = Flatten(flatten)
    <3>1. step \in [(1..M) \X T -> T] /\ s[1] \in T
      BY <2>1
    <3>2. PICK g \in [0..M -> T] :
            g[0] = s[1] /\ \A i \in 1..M : g[i] = step[<<i, g[i - 1]>>]
      <4> DEFINE b == s[1]
      <4>1. b \in T
        BY <3>1
      <4> HIDE DEF step, M, N, T, b
      <4>2. Solutions(M, T, b, step) # {}
        BY <2>1, <3>1, <4>1, FiniteRecursion
      <4> QED
        BY <4>2 DEF b, Solutions
    <3>3. \A i \in 1..M : g[i] = g[i - 1] \o s[i + 1]
      <4>1. ASSUME NEW i \in 1..M
            PROVE  g[i] = g[i - 1] \o s[i + 1]
        <5> HIDE DEF M, T
        <5>1. i - 1 \in 0..M
          BY <2>1
        <5>2. <<i, g[i - 1]>> \in (1..M) \X T
          BY <5>1
        <5>3. g[i] = step[<<i, g[i - 1]>>]
          BY <3>2
        <5> QED
          BY <5>2, <5>3
      <4> QED
        BY <4>1
    <3> DEFINE f == [i \in 1..N |-> g[i - 1]]
    <3>4. ASSUME NEW i \in 1..N
          PROVE  f[i] = IF i = 1 THEN s[i] ELSE f[i - 1] \o s[i]
      <4>1. CASE i = 1
        BY <3>2, <4>1
      <4>2. CASE i # 1
        <5>1. i - 1 \in 1..M /\ i - 1 \in 1..N /\ (i - 1) + 1 = i
          BY <2>1, <4>2
        <5>2. g[i - 1] = g[(i - 1) - 1] \o s[(i - 1) + 1]
          BY <3>3, <5>1
        <5> QED
          BY <4>2, <5>1, <5>2
      <4> QED
        BY <4>1, <4>2
    <3>5. f = Flatten(f)
      BY <3>4
    <3> HIDE DEF Flatten
    <3> QED
      BY <3>5
  <2>3. flatten[N] \in T
    <3> DEFINE G == {n \in Nat : n + 1 <= N => flatten[n + 1] \in T}
    <3> HIDE DEF flatten
    <3>1. 0 \in G
      BY <2>1, <2>2
    <3>2. ASSUME NEW n \in G
          PROVE  n + 1 \in G
      <4>1. SUFFICES ASSUME (n + 1) + 1 <= N
                     PROVE  flatten[(n + 1) + 1] \in T
        OBVIOUS
      <4>2. flatten[n + 1] \in T /\ s[(n + 1) + 1] \in T
        BY <2>1, <4>1
      <4>3. flatten[(n + 1) + 1] = flatten[n + 1] \o s[(n + 1) + 1]
        <5>1. (n + 1) + 1 \in 1..N /\ (n + 1) + 1 # 1 /\ ((n + 1) + 1) - 1 = n + 1
          BY <2>1, <4>1
        <5> QED
          BY <2>2, <5>1
      <4> QED
        BY <4>2, <4>3
    <3>3. M \in G
      <4> HIDE DEF G, N, M
      <4>1. G \in SUBSET Nat
        BY DEF G
      <4> QED
        BY <2>1, <3>1, <3>2, <4>1, NatSetInduction
    <3> QED
      BY <2>1, <3>3
  <2>4. FlattenSeq(s) = flatten[N]
    BY <1>2 DEF FlattenSeq
  <2> QED
    BY <1>2, <2>3, <2>4
<1> QED
  BY <1>1, <1>2

LEMMA SanitizedType ==
  ASSUME NEW p \in Seq(Snippets)
  PROVE  /\ Sanitized(p) \in Seq(Lines \ {Blank})
         /\ p = <<>> => Sanitized(p) = <<>>
<1>1. p \in Seq(Seq(Lines))
  BY ConstantsAssumption
<1>2. FlattenSeq(p) \in Seq(Lines)
  BY <1>1, FlattenType
<1>3. p = <<>> => Len(FlattenSeq(p)) = 0
  <2>1. p = <<>> => Len(p) = 0
    OBVIOUS
  <2>2. p = <<>> => FlattenSeq(p) = <<>>
    BY <1>1, <2>1, FlattenType
  <2> QED
    BY <2>2
<1> QED
  BY <1>2, <1>3, NonBlankType DEF Sanitized

LEMMA SanitizedNone == <<>> \in Seq(Snippets) /\ Sanitized(<<>>) = <<>>
<1>1. \A p \in Seq(Snippets) : p = <<>> => Sanitized(p) = <<>>
  BY SanitizedType
<1>2. <<>> \in Seq(Snippets)
  OBVIOUS
<1> QED
  BY <1>1, <1>2

LEMMA RemoveAtType ==
  ASSUME NEW S, NEW s \in Seq(S), NEW i \in 1..Len(s)
  PROVE  /\ RemoveAt(s, i) \in Seq(S)
         /\ Len(RemoveAt(s, i)) = Len(s) - 1
         /\ \A j \in 1..Len(s) - 1 : RemoveAt(s, i)[j] = IF j < i THEN s[j] ELSE s[j + 1]
<1> DEFINE a == SubSeq(s, 1, i - 1)
           b == SubSeq(s, i + 1, Len(s))
<1>1. a \in Seq(S) /\ Len(a) = i - 1 /\ \A j \in 1..i - 1 : a[j] = s[j]
  OBVIOUS
<1>2. b \in Seq(S) /\ Len(b) = Len(s) - i /\ \A j \in 1..Len(s) - i : b[j] = s[i + j]
  OBVIOUS
<1>3. RemoveAt(s, i) = a \o b
  BY DEF RemoveAt
<1> HIDE DEF a, b
<1>4. /\ a \o b \in Seq(S)
      /\ Len(a \o b) = Len(s) - 1
  <2>1. a \o b \in Seq(S) /\ Len(a \o b) = Len(a) + Len(b)
    <3>1. a \in Seq(S) /\ b \in Seq(S)
      BY <1>1, <1>2
    <3> QED
      BY <3>1
  <2>2. Len(s) \in Nat /\ i \in Nat
    OBVIOUS
  <2> QED
    BY <1>1, <1>2, <2>1, <2>2
<1>5. ASSUME NEW j \in 1..Len(s) - 1
      PROVE  (a \o b)[j] = IF j < i THEN s[j] ELSE s[j + 1]
  <2>1. CASE j < i
    BY <1>1, <1>2, <2>1
  <2>2. CASE ~(j < i)
    <3>1. j - (i - 1) \in 1..Len(s) - i /\ i + (j - (i - 1)) = j + 1
      BY <2>2
    <3>2. (a \o b)[j] = b[j - (i - 1)]
      BY <1>1, <1>2, <2>2
    <3> QED
      BY <1>2, <2>2, <3>1, <3>2
  <2> QED
    BY <2>1, <2>2
<1> QED
  BY <1>3, <1>4, <1>5

(* The first line that a document contains, if there is one. *)
LEMMA FirstFoundIs ==
  ASSUME snippets \in Seq(Lines), NEW d
  PROVE  \/ /\ FirstFound(d) = 0
            /\ \A i \in DOMAIN snippets : snippets[i] \notin d
         \/ /\ FirstFound(d) \in 1..Len(snippets)
            /\ snippets[FirstFound(d)] \in d
<1> DEFINE I == {i \in 1..Len(snippets) : snippets[i] \in d}
<1>1. FirstFound(d) = IF I # {} THEN Min(I) ELSE 0
  BY DEF FirstFound, SelectInSeq
<1>2. I # {} => Min(I) \in I
  <2>1. I \in SUBSET Nat
    OBVIOUS
  <2> HIDE DEF I
  <2> QED
    BY <2>1, MinInSet
<1> QED
  BY <1>1, <1>2

(* A line is there a finite number of times. *)
LEMMA TimesFinite ==
  ASSUME NEW S, NEW s \in Seq(S), NEW line
  PROVE  /\ IsFiniteSet({i \in DOMAIN s : s[i] = line})
         /\ Times(line, s) \in Nat
<1>1. IsFiniteSet(1..Len(s))
  BY FS_Interval
<1>2. {i \in DOMAIN s : s[i] = line} \in SUBSET (1..Len(s))
  OBVIOUS
<1>3. IsFiniteSet({i \in DOMAIN s : s[i] = line})
  BY <1>1, <1>2, FS_Subset
<1> QED
  BY <1>3, FS_CardinalityType DEF Times

(* Removing one line takes one from the times of that line, and from no other. *)
LEMMA TimesRemoved ==
  ASSUME NEW S, NEW s \in Seq(S), NEW i \in 1..Len(s), NEW line
  PROVE  Times(line, RemoveAt(s, i)) = IF s[i] = line THEN Times(line, s) - 1 ELSE Times(line, s)
<1> DEFINE r == RemoveAt(s, i)
           All == {k \in DOMAIN s : s[k] = line}
           Left == {k \in DOMAIN r : r[k] = line}
           f == [k \in Left |-> IF k < i THEN k ELSE k + 1]
<1>1. /\ r \in Seq(S) /\ DOMAIN r = 1..Len(s) - 1
      /\ \A j \in 1..Len(s) - 1 : r[j] = IF j < i THEN s[j] ELSE s[j + 1]
  <2>1. r \in Seq(S) /\ Len(r) = Len(s) - 1
    BY RemoveAtType
  <2>2. DOMAIN r = 1..Len(r)
    BY <2>1
  <2> QED
    BY <2>1, <2>2, RemoveAtType
<1>2. DOMAIN s = 1..Len(s) /\ Len(s) \in Nat
  OBVIOUS
<1> HIDE DEF r
<1>3. IsFiniteSet(All) /\ IsFiniteSet(Left)
  BY <1>1, TimesFinite
<1>4. f \in Bijection(Left, All \ {i})
  <2>1. f \in [Left -> All \ {i}]
    BY <1>1, <1>2
  <2>2. \A j, k \in Left : f[j] = f[k] => j = k
    BY <1>1, <1>2
  <2>3. ASSUME NEW k \in All \ {i}
        PROVE  \E j \in Left : f[j] = k
    <3>1. CASE k < i
      <4>1. k \in Left
        BY <1>1, <1>2, <3>1
      <4> QED
        BY <3>1, <4>1
    <3>2. CASE ~(k < i)
      <4>1. k - 1 \in Left /\ ~(k - 1 < i) /\ (k - 1) + 1 = k
        BY <1>1, <1>2, <3>2
      <4> QED
        BY <4>1
    <3> QED
      BY <3>1, <3>2
  <2> HIDE DEF f, Left, All
  <2> QED
    BY <2>1, <2>2, <2>3 DEF Bijection, Injection, Surjection, IsInjective
<1>5. Cardinality(All \ {i}) = Cardinality(Left)
  <2>1. ExistsBijection(Left, All \ {i})
    BY <1>4 DEF ExistsBijection
  <2> HIDE DEF Left, All
  <2> QED
    BY <1>3, <2>1, FS_Bijection
<1>6. Cardinality(All \ {i}) = IF i \in All THEN Cardinality(All) - 1 ELSE Cardinality(All)
  BY <1>3, FS_RemoveElement
<1>7. i \in All <=> s[i] = line
  BY <1>2
<1> QED
  BY <1>5, <1>6, <1>7 DEF r, Times

-------------------------------------------------------------------------------
(* The steps of a call, and those of its caller. *)

LEMMA CallKeeps ==
  ASSUME MatchInvariant,
         NEW p \in Seq(Snippets), NEW d \in Seq(SUBSET (Lines \ {Blank})),
         MatchSnippetsToDocuments(p, d)
  PROVE  MatchInvariant'
BY DEF MatchSnippetsToDocuments, MatchInvariant, MatchTypeOK, MatchedBehind, OneLineEach,
       OrderKept, NoEvidenceLost

(* Before any document was looked at every line of the snippets is there. *)
LEMMA NothingMatched ==
  ASSUME MatchTypeOK', matched' = <<>>, next' = 1, pc' # "sanitize",
         snippets' = Sanitized(possible')
  PROVE  MatchInvariant'
<1>1. (MatchedBehind /\ OrderKept /\ NoEvidenceLost)'
  BY DEF MatchedBehind, OrderKept, NoEvidenceLost
<1>2. OneLineEach'
  <2>1. Len(matched') + Len(snippets') = Len(Sanitized(possible'))
    BY DEF MatchTypeOK
  <2>2. \A line : Times(line, snippets') \in Nat
    BY TimesFinite DEF MatchTypeOK
  <2>3. ASSUME NEW line \in Lines
        PROVE  /\ Times(line, snippets') <= Times(line, Sanitized(possible'))
               /\ Times(line, Sanitized(possible')) - Times(line, snippets')
                    <= Cardinality({k \in DOMAIN matched' : line \in documents'[matched'[k]]})
    <3>1. {k \in DOMAIN matched' : line \in documents'[matched'[k]]} = {}
      OBVIOUS
    <3>2. Cardinality({k \in DOMAIN matched' : line \in documents'[matched'[k]]}) = 0
      BY <3>1, FS_EmptySet
    <3>3. Times(line, Sanitized(possible')) = Times(line, snippets')
      OBVIOUS
    <3> QED
      BY <2>2, <3>2, <3>3
  <2> QED
    BY <2>1, <2>3 DEF OneLineEach
<1> QED
  BY <1>1, <1>2 DEF MatchInvariant

LEMMA SanitizeKeeps ==
  ASSUME MatchInvariant, Sanitize
  PROVE  MatchInvariant'
<1>1. Sanitized(possible) \in Seq(Lines \ {Blank})
  BY SanitizedType DEF MatchInvariant, MatchTypeOK
<1>2. MatchTypeOK'
  BY <1>1 DEF MatchInvariant, MatchTypeOK, Sanitize
<1> QED
  BY <1>2, NothingMatched DEF MatchInvariant, MatchedBehind, Sanitize

LEMMA ReturnedKeeps ==
  ASSUME MatchInvariant, MatchReturned
  PROVE  MatchInvariant'
<1>1. <<>> \in Seq(Snippets) /\ Sanitized(<<>>) = <<>>
  BY SanitizedNone
<1>2. MatchTypeOK'
  BY DEF MatchInvariant, MatchTypeOK, MatchReturned
<1> QED
  BY <1>1, <1>2, NothingMatched DEF MatchReturned

(* A document without a line still looked for: only the document moves on. *)
LEMMA PassedKeeps ==
  ASSUME MatchInvariant, next <= Len(documents), pc = "match",
         \A i \in DOMAIN snippets : snippets[i] \notin documents[next],
         next' = next + 1, UNCHANGED <<possible, documents, pc, snippets, matched>>
  PROVE  MatchInvariant'
<1> USE DEF MatchInvariant, MatchTypeOK
<1>1. MatchTypeOK' /\ MatchedBehind' /\ OrderKept' /\ OneLineEach'
  BY DEF MatchedBehind, OrderKept, OneLineEach
<1>2. NoEvidenceLost'
  <2>1. next \in Nat /\ next' - 1 = next
    OBVIOUS
  <2>2. ASSUME NEW d \in 1..next, \A k \in DOMAIN matched : matched[k] # d,
               NEW i \in DOMAIN snippets
        PROVE  snippets[i] \notin documents[d]
    <3>1. CASE d \in 1..next - 1
      BY <2>2, <3>1 DEF NoEvidenceLost
    <3>2. CASE d = next
      BY <3>2
    <3> QED
      BY <2>1, <3>1, <3>2
  <2> QED
    BY <2>1, <2>2 DEF NoEvidenceLost
<1> QED
  BY <1>1, <1>2

(* A document with one: the line goes, the document is evidence. *)
LEMMA TakenKeeps ==
  ASSUME MatchInvariant, next <= Len(documents), pc = "match",
         NEW i \in 1..Len(snippets), snippets[i] \in documents[next],
         snippets' = RemoveAt(snippets, i), matched' = Append(matched, next),
         next' = next + 1, UNCHANGED <<possible, documents, pc>>
  PROVE  MatchInvariant'
<1> USE DEF MatchInvariant, MatchTypeOK
<1>1. /\ Len(matched') = Len(matched) + 1 /\ DOMAIN matched' = 1..Len(matched) + 1
      /\ \A k \in DOMAIN matched : matched'[k] = matched[k]
      /\ matched'[Len(matched) + 1] = next
  OBVIOUS
<1>2. /\ snippets' \in Seq(Lines \ {Blank}) /\ Len(snippets') = Len(snippets) - 1
      /\ \A j \in DOMAIN snippets' : \E k \in DOMAIN snippets : snippets'[j] = snippets[k]
  <2>1. /\ snippets' \in Seq(Lines \ {Blank}) /\ Len(snippets') = Len(snippets) - 1
        /\ \A j \in 1..Len(snippets) - 1 :
             snippets'[j] = IF j < i THEN snippets[j] ELSE snippets[j + 1]
    BY RemoveAtType
  <2>2. ASSUME NEW j \in DOMAIN snippets'
        PROVE  \E k \in DOMAIN snippets : snippets'[j] = snippets[k]
    <3>1. j \in 1..Len(snippets) - 1 /\ DOMAIN snippets = 1..Len(snippets)
      BY <2>1
    <3>2. j \in DOMAIN snippets /\ j + 1 \in DOMAIN snippets
      BY <3>1
    <3> QED
      BY <2>1, <3>1, <3>2
  <2> QED
    BY <2>1, <2>2
<1>3. MatchTypeOK'
  <2>1. next \in 1..Len(documents)
    OBVIOUS
  <2> QED
    BY <1>2, <2>1
<1>4. MatchedBehind' /\ OrderKept'
  <2>1. DOMAIN matched = 1..Len(matched) /\ Len(matched) \in Nat
    OBVIOUS
  <2>2. \A k \in DOMAIN matched : matched[k] < next /\ matched[k] \in Nat
    <3>1. \A k \in DOMAIN matched : matched[k] \in Nat
      BY <2>1
    <3> QED
      BY <3>1 DEF MatchedBehind
  <2>3. \A k \in DOMAIN matched' : k \in DOMAIN matched \/ k = Len(matched) + 1
    <3> HIDE DEF MatchInvariant, MatchTypeOK
    <3> QED
      BY <1>1, <2>1
  <2>4. MatchedBehind'
    BY <1>1, <2>2, <2>3 DEF MatchedBehind
  <2>5. OrderKept'
    <3>1. ASSUME NEW j \in DOMAIN matched', NEW k \in DOMAIN matched', j < k
          PROVE  matched'[j] < matched'[k]
      <4>1. j \in DOMAIN matched
        BY <1>1, <2>1, <2>3, <3>1
      <4>2. CASE k \in DOMAIN matched
        BY <1>1, <3>1, <4>1, <4>2 DEF OrderKept
      <4>3. CASE k = Len(matched) + 1
        BY <1>1, <2>2, <4>1, <4>3
      <4> QED
        BY <2>3, <4>2, <4>3
    <3> QED
      BY <3>1 DEF OrderKept
  <2> QED
    BY <2>4, <2>5
<1>5. NoEvidenceLost'
  <2>1. SUFFICES ASSUME NEW d \in 1..next, \A k \in DOMAIN matched' : matched'[k] # d,
                        NEW j \in DOMAIN snippets'
                 PROVE  snippets'[j] \notin documents[d]
    <3>1. next \in Nat /\ next' - 1 = next
      OBVIOUS
    <3> QED
      BY <3>1 DEF NoEvidenceLost
  <2>2. d \in 1..next - 1
    <3>1. Len(matched) + 1 \in DOMAIN matched'
      BY <1>1
    <3>2. d # next
      BY <1>1, <2>1, <3>1
    <3>3. next \in Nat /\ d \in 1..next
      BY <2>1
    <3> HIDE DEF MatchInvariant, MatchTypeOK
    <3> QED
      BY <3>2, <3>3
  <2>3. \A k \in DOMAIN matched : matched[k] # d
    <3>1. \A k \in DOMAIN matched : k \in DOMAIN matched'
      BY <1>1
    <3> QED
      BY <1>1, <2>1, <3>1
  <2>4. \A k \in DOMAIN snippets : snippets[k] \notin documents[d]
    BY <2>2, <2>3 DEF NoEvidenceLost
  <2> QED
    BY <1>2, <2>4
<1>6. OneLineEach'
  <2> DEFINE S == Sanitized(possible)
             Of(line) == {k \in DOMAIN matched : line \in documents[matched[k]]}
             OfNow(line) == {k \in DOMAIN matched' : line \in documents[matched'[k]]}
  <2>1. Len(matched') + Len(snippets') = Len(S)
    <3>1. Len(matched) + Len(snippets) = Len(S)
      BY DEF OneLineEach
    <3>2. Len(matched) \in Nat /\ Len(snippets) \in Nat
      OBVIOUS
    <3> HIDE DEF S
    <3>3. (Len(matched) + 1) + (Len(snippets) - 1) = Len(matched) + Len(snippets)
      BY <3>2
    <3> QED
      BY <1>1, <1>2, <3>1, <3>3
  <2>2. ASSUME NEW line \in Lines
        PROVE  /\ Times(line, snippets') <= Times(line, S)
               /\ Times(line, S) - Times(line, snippets') <= Cardinality(OfNow(line))
    <3>1. /\ Times(line, snippets) <= Times(line, S)
          /\ Times(line, S) - Times(line, snippets) <= Cardinality(Of(line))
      BY DEF OneLineEach
    <3>2. Times(line, snippets') = IF snippets[i] = line THEN Times(line, snippets) - 1
                                                         ELSE Times(line, snippets)
      BY TimesRemoved
    <3>3. Times(line, snippets) \in Nat /\ Times(line, S) \in Nat
      BY TimesFinite, SanitizedType
    <3>4. IsFiniteSet(Of(line)) /\ Cardinality(Of(line)) \in Nat
      <4>1. 1 \in Int /\ Len(matched) \in Int
        OBVIOUS
      <4>2. IsFiniteSet(1..Len(matched))
        BY <4>1, FS_Interval
      <4>3. Of(line) \in SUBSET (1..Len(matched))
        OBVIOUS
      <4>4. IsFiniteSet(Of(line))
        BY <4>2, <4>3, FS_Subset
      <4> QED
        BY <4>4, FS_CardinalityType
    <3>5. OfNow(line) = IF line \in documents[next] THEN Of(line) \cup {Len(matched) + 1}
                                                    ELSE Of(line)
      BY <1>1
    <3>6. Len(matched) + 1 \notin Of(line)
      OBVIOUS
    <3> HIDE DEF Of, OfNow
    <3>7. Cardinality(OfNow(line)) = IF line \in documents[next] THEN Cardinality(Of(line)) + 1
                                                                 ELSE Cardinality(Of(line))
      BY <3>4, <3>5, <3>6, FS_AddElement
    <3>8. CASE snippets[i] = line
      <4>1. line \in documents[next]
        BY <3>8
      <4> HIDE DEF MatchInvariant, MatchTypeOK, S
      <4> QED
        BY <3>1, <3>2, <3>3, <3>4, <3>7, <3>8, <4>1
    <3>9. CASE snippets[i] # line
      <4> HIDE DEF MatchInvariant, MatchTypeOK, S
      <4> QED
        BY <3>1, <3>2, <3>3, <3>4, <3>7, <3>9
    <3> QED
      BY <3>8, <3>9
  <2> QED
    BY <2>1, <2>2 DEF OneLineEach
<1> QED
  BY <1>3, <1>4, <1>5, <1>6

LEMMA MatchDocumentKeeps ==
  ASSUME MatchInvariant, MatchDocument
  PROVE  MatchInvariant'
<1> DEFINE i == FirstFound(documents[next])
<1>1. /\ pc = "match" /\ next <= Len(documents)
      /\ next' = next + 1 /\ UNCHANGED <<possible, documents, pc>>
      /\ i = 0 => UNCHANGED <<snippets, matched>>
      /\ i # 0 => snippets' = RemoveAt(snippets, i) /\ matched' = Append(matched, next)
  BY DEF MatchDocument, RemoveFound
<1>2. snippets \in Seq(Lines)
  BY DEF MatchInvariant, MatchTypeOK
<1>3. \/ i = 0 /\ \A k \in DOMAIN snippets : snippets[k] \notin documents[next]
      \/ i \in 1..Len(snippets) /\ snippets[i] \in documents[next]
  BY <1>2, FirstFoundIs
<1> HIDE DEF i
<1>4. CASE i = 0 /\ \A k \in DOMAIN snippets : snippets[k] \notin documents[next]
  BY <1>1, <1>4, PassedKeeps
<1>5. CASE i \in 1..Len(snippets) /\ snippets[i] \in documents[next]
  BY <1>1, <1>5, TakenKeeps
<1> QED
  BY <1>3, <1>4, <1>5

(* Whoever calls: a step of the matching keeps the invariant, and so does the  *)
(* caller that takes the result, or that does something else.                *)
LEMMA MatchingKeeps ==
  ASSUME MatchInvariant, MatchStep \/ MatchReturned \/ UNCHANGED matchVars
  PROVE  MatchInvariant'
<1>1. CASE Return
  BY <1>1 DEF Return, MatchInvariant, MatchTypeOK, MatchedBehind, OneLineEach, OrderKept,
              NoEvidenceLost
<1>2. CASE UNCHANGED matchVars
  BY <1>2 DEF matchVars, MatchInvariant, MatchTypeOK, MatchedBehind, OneLineEach, OrderKept,
              NoEvidenceLost
<1> QED
  BY <1>1, <1>2, SanitizeKeeps, MatchDocumentKeeps, ReturnedKeeps DEF MatchStep

LEMMA MatchInitially == MatchInit => MatchInvariant
<1> SUFFICES ASSUME MatchInit PROVE MatchInvariant
  OBVIOUS
<1>1. <<>> \in Seq(Snippets) /\ Sanitized(<<>>) = <<>>
  BY SanitizedNone
<1>2. MatchTypeOK
  BY DEF MatchInit, MatchTypeOK
<1>3. MatchedBehind /\ OrderKept /\ NoEvidenceLost
  BY DEF MatchInit, MatchedBehind, OrderKept, NoEvidenceLost
<1>4. OneLineEach
  <2>1. ASSUME NEW line
        PROVE  Times(line, snippets) \in Nat
    <3>1. snippets \in Seq(Lines)
      BY DEF MatchInit
    <3> QED
      BY <3>1, TimesFinite
  <2>2. ASSUME NEW line
        PROVE  Cardinality({k \in DOMAIN matched : line \in documents[matched[k]]}) = 0
    <3>1. {k \in DOMAIN matched : line \in documents[matched[k]]} = {}
      BY DEF MatchInit
    <3> QED
      BY <3>1, FS_EmptySet
  <2>3. Len(matched) + Len(snippets) = Len(Sanitized(possible)) /\ snippets = Sanitized(possible)
    BY <1>1 DEF MatchInit
  <2>4. ASSUME NEW line \in Lines
        PROVE  /\ Times(line, snippets) <= Times(line, Sanitized(possible))
               /\ Times(line, Sanitized(possible)) - Times(line, snippets)
                    <= Cardinality({k \in DOMAIN matched : line \in documents[matched[k]]})
    <3>1. Times(line, Sanitized(possible)) = Times(line, snippets)
      BY <2>3
    <3> QED
      BY <2>1, <2>2, <3>1
  <2> QED
    BY <2>3, <2>4 DEF OneLineEach
<1> QED
  BY <1>2, <1>3, <1>4 DEF MatchInvariant

LEMMA MatchNextKeeps ==
  ASSUME MatchInvariant, [MatchNext]_matchVars
  PROVE  MatchInvariant'
<1>1. ASSUME NEW p \in BoundedSeq(Snippets, MaxSnippets),
             NEW d \in BoundedSeq(SUBSET (Lines \ {Blank}), MaxDocuments),
             MatchSnippetsToDocuments(p, d)
      PROVE  MatchInvariant'
  <2>1. p \in Seq(Snippets) /\ d \in Seq(SUBSET (Lines \ {Blank}))
    BY ConstantsAssumption, BoundedSeqType
  <2> QED
    BY <1>1, <2>1, CallKeeps
<1> QED
  BY <1>1, MatchingKeeps DEF MatchNext

(* A document used as evidence has used up one line of its own, the evidence is *)
(* in the order of the search, and none of it is lost, in any number of calls.  *)
THEOREM MatchingCorrect == MatchSpec => [](OneLineEach /\ OrderKept /\ NoEvidenceLost)
<1>1. MatchInvariant => OneLineEach /\ OrderKept /\ NoEvidenceLost
  BY DEF MatchInvariant
<1> QED
  BY MatchInitially, MatchNextKeeps, <1>1, PTL DEF MatchSpec
===============================================================================
