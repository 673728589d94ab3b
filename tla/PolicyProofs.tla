---------------------------- MODULE PolicyProofs ----------------------------
(***************************************************************************)
(* Proofs about Policy.tla, for any base, any number of releases and texts *)
(* of any length.                                                          *)
(*                                                                         *)
(* Texts are reasoned about by induction over their characters.  The       *)
(* induction is over a SET of sequences and follows from the library's     *)
(* theorem that < is well-founded on Nat, so that no theorem with an       *)
(* operator for a parameter is needed; a recursive function is unfolded    *)
(* by showing that the function its definition chooses exists.             *)
(***************************************************************************)
EXTENDS Policy, FiniteSetTheorems, SequenceTheorems, WellFoundedInduction, TLAPS

-----------------------------------------------------------------------------
(* Arithmetic *)

\* What is carried by a higher place outweighs any lower one.
LEMMA HigherPlaceWins ==
  ASSUME NEW a \in Nat, NEW b \in Nat, NEW shift \in Nat,
         NEW c \in Nat, NEW d \in Nat, a < b, c < shift
  PROVE  a * shift + c < b * shift + d
  <1>1. PICK k \in Nat : b = a + 1 + k
    <2>1. b - a - 1 \in Nat /\ b = a + 1 + (b - a - 1)
      OBVIOUS
    <2> QED
      BY <2>1
  <1>2. b * shift = a * shift + shift + k * shift
    BY <1>1
  <1>3. k * shift \in Nat /\ a * shift \in Nat
    BY <1>1
  <1> QED
    BY <1>2, <1>3

\* A component is less than what the next place counts.
LEMMA ShiftFacts ==
  ASSUME NEW c \in Component
  PROVE  c \in Nat /\ Shift(c) \in Nat /\ c < Shift(c)
  <1>1. c \in Nat /\ c < Base * Base
    <2>1. Base * Base \in Nat
      BY BaseAssumption
    <2>2. MaxComponent \in Nat /\ MaxComponent < Base * Base
      BY <2>1, MaxComponentAssumption
    <2> QED
      BY <2>1, <2>2 DEF Component
  <1> QED
    BY <1>1, BaseAssumption DEF Shift

\* Between two versions with as many digits in each component, the one
\* released first has the smaller number.
LEMMA OrderKept ==
  ASSUME NEW v \in Versions, NEW w \in Versions, SameWidths(v, w), Before(v, w)
  PROVE  RunTogether(v) < RunTogether(w)
  <1> DEFINE s == Shift(v.minor)
             t == Shift(v.patch)
             High(u) == u.major * s + u.minor
  <1>1. /\ v.major \in Nat /\ w.major \in Nat
        /\ v.minor \in Component /\ w.minor \in Component
        /\ v.patch \in Component /\ w.patch \in Component
    BY MaxMajorAssumption DEF Versions
  <1>2. /\ s \in Nat /\ t \in Nat /\ s = Shift(w.minor) /\ t = Shift(w.patch)
        /\ v.minor \in Nat /\ w.minor \in Nat /\ v.patch \in Nat /\ w.patch \in Nat
        /\ v.minor < s /\ v.patch < t
    BY <1>1, ShiftFacts DEF SameWidths
  <1>3. High(v) \in Nat /\ High(w) \in Nat
    BY <1>1, <1>2
  <1>4. RunTogether(v) = High(v) * t + v.patch /\ RunTogether(w) = High(w) * t + w.patch
    BY <1>2 DEF RunTogether
  <1> HIDE DEF s, t
  <1>5. CASE v.major < w.major
    <2>1. High(v) < High(w)
      BY <1>1, <1>2, <1>5, HigherPlaceWins
    <2> HIDE DEF High
    <2>2. High(v) * t + v.patch < High(w) * t + w.patch
      BY <1>2, <1>3, <2>1, HigherPlaceWins
    <2> QED
      BY <1>4, <2>2
  <1>6. CASE v.major = w.major /\ v.minor < w.minor
    <2>1. v.major * s \in Nat
      BY <1>1, <1>2
    <2>2. High(v) < High(w)
      BY <1>1, <1>2, <1>6, <2>1
    <2> HIDE DEF High
    <2>3. High(v) * t + v.patch < High(w) * t + w.patch
      BY <1>2, <1>3, <2>2, HigherPlaceWins
    <2> QED
      BY <1>4, <2>3
  <1>7. CASE v.major = w.major /\ v.minor = w.minor /\ v.patch < w.patch
    <2>1. High(v) = High(w)
      BY <1>7
    <2>2. High(v) * t \in Nat
      BY <1>2, <1>3
    <2> HIDE DEF High
    <2> QED
      BY <1>2, <1>4, <1>7, <2>1, <2>2
  <1> QED
    BY <1>5, <1>6, <1>7 DEF Before

-----------------------------------------------------------------------------
(* The order of releases *)

LEMMA BeforeIsTransitive ==
  ASSUME NEW u \in Versions, NEW v \in Versions, NEW w \in Versions,
         u = v \/ Before(u, v), Before(v, w)
  PROVE  Before(u, w)
  <1>1. \A x \in Versions : x.major \in Nat /\ x.minor \in Nat /\ x.patch \in Nat
    BY MaxMajorAssumption, ShiftFacts DEF Versions
  <1> QED
    BY <1>1 DEF Before

LEMMA ReleaseIsLater ==
  ASSUME latest \in Versions, Release
  PROVE  latest' \in Versions /\ Before(latest, latest')
  <1>1. latest' \in Versions
    BY DEF Release
  <1>2. latest.major \in Nat /\ latest.minor \in Nat /\ latest.patch \in Nat
    BY MaxMajorAssumption, ShiftFacts DEF Versions
  <1>3. /\ latest = [major |-> latest.major, minor |-> latest.minor, patch |-> latest.patch]
        /\ DOMAIN latest = {"major", "minor", "patch"}
    BY DEF Versions
  <1>4. CASE latest' = [latest EXCEPT !.patch = @ + 1]
    BY <1>1, <1>2, <1>3, <1>4 DEF Before
  <1>5. CASE latest' = [latest EXCEPT !.minor = @ + 1, !.patch = 0]
    BY <1>1, <1>2, <1>3, <1>5 DEF Before
  <1>6. CASE latest' = [latest EXCEPT !.major = @ + 1, !.minor = 0, !.patch = 0]
    BY <1>1, <1>2, <1>3, <1>6 DEF Before
  <1> QED
    BY <1>1, <1>4, <1>5, <1>6 DEF Release

LEMMA InitVersions == Init => VersionsOK
  <1>1. 0 \in 0 .. MaxMajor /\ 0 \in Component
    <2>1. MaxComponent \in Nat
      BY MaxComponentAssumption, BaseAssumption
    <2> QED
      BY <2>1, MaxMajorAssumption DEF Component
  <1> QED
    BY <1>1 DEF Init, VersionsOK, Versions, FirstVersion

LEMMA NextVersions == VersionsOK /\ [Next]_vars => VersionsOK'
  <1> SUFFICES ASSUME VersionsOK, [Next]_vars
               PROVE  VersionsOK'
    OBVIOUS
  <1>1. CASE Release
    <2>1. latest' \in Versions /\ Before(latest, latest') /\ UNCHANGED current
      BY <1>1, ReleaseIsLater DEF VersionsOK, Release
    <2>2. Before(current, latest')
      BY <2>1, BeforeIsTransitive DEF VersionsOK
    <2> QED
      BY <2>1, <2>2 DEF VersionsOK
  <1>2. CASE Install
    BY <1>2 DEF Install, VersionsOK
  <1>3. CASE UNCHANGED <<current, latest>>
    BY <1>3 DEF VersionsOK, Before
  <1>4. Release \/ Install \/ UNCHANGED <<current, latest>>
    BY DEF Next, Type, SendTitle, vars
  <1> QED
    BY <1>1, <1>2, <1>3, <1>4

\* The text keeps within its bound, and nothing older than what is installed is
\* ever the version tagged last.
THEOREM TypeCorrect == Spec => []TypeOK
  <1>1. Init => TypeOK
    BY InitVersions, MaxTextAssumption DEF Init, TypeOK
  <1>2. TypeOK /\ [Next]_vars => TypeOK'
    <2> SUFFICES ASSUME TypeOK, [Next]_vars
                 PROVE  TypeOK'
      OBVIOUS
    <2>1. VersionsOK'
      BY NextVersions DEF TypeOK
    <2>2. text' \in Seq(Chars) /\ Len(text') <= MaxText
      <3>1. CASE UNCHANGED text
        BY <3>1 DEF TypeOK
      <3>2. ASSUME NEW c \in Chars, Type(c)
            PROVE  text' \in Seq(Chars) /\ Len(text') <= MaxText
        BY <3>2, MaxTextAssumption DEF Type, TypeOK
      <3> QED
        BY <3>1, <3>2 DEF Next, SendTitle, Release, Install, vars
    <2>3. request' \in {"none", "sent", "threw"}
      BY DEF TypeOK, Next, Type, SendTitle, Release, Install, vars
    <2> QED
      BY <2>1, <2>2, <2>3 DEF TypeOK
  <1> QED
    BY <1>1, <1>2, PTL DEF Spec

\* isOlderVersion notices every newer release whose components have as many
\* digits as those of the version installed, and no other.
THEOREM NoticeIsRight == Spec => []NewerIsNoticed
  <1>1. VersionsOK => NewerIsNoticed
    <2> SUFFICES ASSUME VersionsOK, SameWidths(current, latest)
                 PROVE  IsOlderVersion(current, latest) <=> current # latest
      BY DEF NewerIsNoticed
    <2>1. CASE current = latest
      <3>1. RunTogether(current) \in Nat
        <4>1. current.major \in Nat
          BY MaxMajorAssumption DEF VersionsOK, Versions
        <4>2. current.minor \in Component /\ current.patch \in Component
          BY DEF VersionsOK, Versions
        <4>3. /\ current.minor \in Nat /\ Shift(current.minor) \in Nat
              /\ current.patch \in Nat /\ Shift(current.patch) \in Nat
          BY <4>2, ShiftFacts
        <4>4. current.major * Shift(current.minor) + current.minor \in Nat
          BY <4>1, <4>3
        <4> QED
          BY <4>3, <4>4 DEF RunTogether
      <3> QED
        BY <2>1, <3>1 DEF IsOlderVersion
    <2>2. CASE Before(current, latest)
      <3>1. RunTogether(current) < RunTogether(latest)
        BY <2>2, OrderKept DEF VersionsOK
      <3>2. current # latest
        <4>1. \A x \in Versions : x.major \in Nat /\ x.minor \in Nat /\ x.patch \in Nat
          BY MaxMajorAssumption, ShiftFacts DEF Versions
        <4> QED
          BY <2>2, <4>1 DEF Before, VersionsOK
      <3> QED
        BY <3>1, <3>2 DEF IsOlderVersion
    <2> QED
      BY <2>1, <2>2 DEF VersionsOK
  <1>2. Spec => []VersionsOK
    BY InitVersions, NextVersions, PTL DEF Spec
  <1> QED
    BY <1>1, <1>2, PTL

-----------------------------------------------------------------------------
(* Induction *)

\* Every set of naturals that has an element has a least one.
LEMMA LeastElement ==
  ASSUME NEW T, T \subseteq Nat, T # {}
  PROVE  \E n \in T : \A m \in T : n <= m
  <1> DEFINE R == OpToRel(<, Nat)
  <1>1. IsWellFoundedOn(R, Nat)
    BY NatLessThanWellFounded
  <1>2. \A m, n \in Nat : <<m, n>> \in R <=> m < n
    BY DEF OpToRel
  <1> HIDE DEF R
  <1>3. PICK n \in T : \A m \in T : <<m, n>> \notin R
    BY <1>1, WFMin
  <1>4. \A m \in T : m \in Nat /\ n \in Nat /\ ~(m < n)
    BY <1>2, <1>3
  <1>5. \A m \in T : n <= m
    BY <1>4
  <1> QED
    BY <1>5

\* Induction over the naturals: a set with 0 that is closed under successor.
LEMMA Induction ==
  ASSUME NEW T, 0 \in T, \A n \in Nat : n \in T => n + 1 \in T
  PROVE  Nat \subseteq T
  <1> SUFFICES ASSUME Nat \ T # {}  PROVE FALSE
    OBVIOUS
  <1>1. PICK n \in Nat \ T : \A m \in Nat \ T : n <= m
    BY LeastElement
  <1>2. n # 0 /\ n - 1 \in Nat
    BY <1>1
  <1>3. n - 1 \in T
    BY <1>1, <1>2
  <1> QED
    BY <1>1, <1>2, <1>3

\* Induction over the sequences: a set with the empty one that is closed under
\* Append.
LEMMA SeqInduction ==
  ASSUME NEW S, NEW T, <<>> \in T, \A s \in Seq(S), e \in S : s \in T => Append(s, e) \in T
  PROVE  Seq(S) \subseteq T
  <1> DEFINE N == {n \in Nat : \A s \in Seq(S) : Len(s) = n => s \in T}
  <1>1. 0 \in N
    <2>1. \A s \in Seq(S) : Len(s) = 0 => s = <<>>
      OBVIOUS
    <2> QED
      BY <2>1
  <1>2. ASSUME NEW n \in Nat, n \in N  PROVE n + 1 \in N
    <2> SUFFICES ASSUME NEW s \in Seq(S), Len(s) = n + 1  PROVE s \in T
      OBVIOUS
    <2>1. s # <<>>
      OBVIOUS
    <2>2. PICK front \in Seq(S), e \in S : s = Append(front, e)
      BY <2>1, SequenceEmptyOrAppend
    <2>3. Len(front) = n
      BY <2>2
    <2> QED
      BY <1>2, <2>2, <2>3
  <1> HIDE DEF N
  <1>3. Nat \subseteq N
    BY <1>1, <1>2, Induction
  <1> QED
    BY <1>3 DEF N

-----------------------------------------------------------------------------
(* FlattenSeq *)

\* What FlattenSeq has put together after each of the sequences.
Flattens(f, seqs) ==
  f = [i \in 1 .. Len(seqs) |-> IF i = 1 THEN seqs[i] ELSE f[i - 1] \o seqs[i]]

\* One sequence more is joined to what the others gave.
LEMMA FlattensExtends ==
  ASSUME NEW S, NEW seqs \in Seq(S), NEW last \in S, NEW f, Flattens(f, seqs)
  PROVE  \E g : /\ Flattens(g, Append(seqs, last))
                /\ g[Len(seqs) + 1] = IF seqs = <<>> THEN last ELSE f[Len(seqs)] \o last
  <1> DEFINE n == Len(seqs)
             all == Append(seqs, last)
             g == [i \in 1 .. n + 1 |-> IF i <= n THEN f[i] ELSE IF i = 1 THEN last ELSE f[n] \o last]
  <1>1. n \in Nat /\ Len(all) = n + 1 /\ all[n + 1] = last /\ \A i \in 1 .. n : all[i] = seqs[i]
    OBVIOUS
  <1>2. \A i \in 1 .. n : f[i] = IF i = 1 THEN seqs[i] ELSE f[i - 1] \o seqs[i]
    BY Zenon DEF Flattens
  <1>3. \A i \in 1 .. n : g[i] = f[i]
    BY <1>1
  <1>4. g[n + 1] = IF n + 1 = 1 THEN last ELSE f[n] \o last
    BY <1>1
  <1>5. g = [i \in 1 .. n + 1 |-> g[i]]
    OBVIOUS
  <1> HIDE DEF g, all
  <1>6. ASSUME NEW i \in 1 .. n + 1
        PROVE  g[i] = IF i = 1 THEN all[i] ELSE g[i - 1] \o all[i]
    <2>1. CASE i \in 1 .. n
      <3>1. g[i] = f[i] /\ all[i] = seqs[i] /\ (i # 1 => g[i - 1] = f[i - 1])
        BY <1>1, <1>3, <2>1
      <3> QED
        BY <1>2, <2>1, <3>1
    <2>2. CASE i = n + 1
      <3>1. n # 0 => g[i - 1] = f[n]
        BY <1>1, <1>3, <2>2
      <3> QED
        BY <1>1, <1>4, <2>2, <3>1
    <2> QED
      BY <1>1, <2>1, <2>2
  <1>7. Flattens(g, all)
    BY <1>1, <1>5, <1>6 DEF Flattens
  <1>8. g[n + 1] = IF seqs = <<>> THEN last ELSE f[n] \o last
    BY <1>1, <1>4
  <1> QED
    BY <1>7, <1>8 DEF all

\* There is such a function for any sequence of sequences,
LEMMA FlattensExists ==
  ASSUME NEW S, NEW seqs \in Seq(S)
  PROVE  \E f : Flattens(f, seqs)
  <1> DEFINE T == {s \in Seq(S) : \E f : Flattens(f, s)}
  <1>1. <<>> \in T
    <2> DEFINE f == <<>>
    <2>1. Flattens(f, <<>>)
      BY DEF Flattens
    <2> QED
      BY <2>1
  <1>2. ASSUME NEW s \in Seq(S), NEW e \in S, s \in T  PROVE Append(s, e) \in T
    BY <1>2, FlattensExtends
  <1> HIDE DEF T
  <1>3. seqs \in T
    BY <1>1, <1>2, SeqInduction
  <1> QED
    BY <1>3 DEF T

\* and only one,
LEMMA FlattensUnique ==
  ASSUME NEW S, NEW seqs \in Seq(S), NEW f, NEW g, Flattens(f, seqs), Flattens(g, seqs)
  PROVE  f = g
  <1> DEFINE T == {i \in Nat : i + 1 \in 1 .. Len(seqs) => f[i + 1] = g[i + 1]}
  <1>1. \A i \in 1 .. Len(seqs) :
          /\ f[i] = IF i = 1 THEN seqs[i] ELSE f[i - 1] \o seqs[i]
          /\ g[i] = IF i = 1 THEN seqs[i] ELSE g[i - 1] \o seqs[i]
    BY Zenon DEF Flattens
  <1>2. 0 \in T
    BY <1>1
  <1>3. ASSUME NEW i \in Nat, i \in T  PROVE i + 1 \in T
    BY <1>1, <1>3
  <1> HIDE DEF T
  <1>4. Nat \subseteq T
    BY <1>2, <1>3, Induction
  <1>5. ASSUME NEW i \in 1 .. Len(seqs)  PROVE f[i] = g[i]
    <2>1. i - 1 \in T
      BY <1>4
    <2> QED
      BY <2>1 DEF T
  <1>6. f = [i \in 1 .. Len(seqs) |-> f[i]] /\ g = [i \in 1 .. Len(seqs) |-> g[i]]
    BY DEF Flattens
  <1> QED
    BY <1>5, <1>6

\* so that it is the one FlattenSeq chooses.
LEMMA FlattenSeqIs ==
  ASSUME NEW S, NEW seqs \in Seq(S), seqs # <<>>, NEW f, Flattens(f, seqs)
  PROVE  FlattenSeq(seqs) = f[Len(seqs)]
  <1> DEFINE g == CHOOSE h : Flattens(h, seqs)
  <1>1. FlattenSeq(seqs) = g[Len(seqs)]
    BY DEF FlattenSeq, Flattens
  <1>2. Flattens(g, seqs)
    BY FlattensExists
  <1> QED
    BY <1>1, <1>2, FlattensUnique

\* Nothing joined is nothing.
LEMMA FlattenEmpty == FlattenSeq(<<>>) = <<>>
  BY DEF FlattenSeq

\* FlattenSeq joins the last of the sequences to those before it.
LEMMA FlattenAppend ==
  ASSUME NEW S, NEW seqs \in Seq(Seq(S)), NEW last \in Seq(S)
  PROVE  FlattenSeq(Append(seqs, last)) = FlattenSeq(seqs) \o last
  <1>1. PICK f : Flattens(f, seqs)
    BY FlattensExists
  <1>2. PICK g : /\ Flattens(g, Append(seqs, last))
                 /\ g[Len(seqs) + 1] = IF seqs = <<>> THEN last ELSE f[Len(seqs)] \o last
    BY <1>1, FlattensExtends
  <1>3. FlattenSeq(Append(seqs, last)) = g[Len(seqs) + 1]
    <2>1. Append(seqs, last) \in Seq(Seq(S)) /\ Append(seqs, last) # <<>>
          /\ Len(Append(seqs, last)) = Len(seqs) + 1
      <3> DEFINE T == Seq(S)
      <3> HIDE DEF T
      <3>1. ASSUME NEW ss \in Seq(T), NEW e \in T
            PROVE  Append(ss, e) \in Seq(T) /\ Append(ss, e) # <<>> /\ Len(Append(ss, e)) = Len(ss) + 1
        BY AppendProperties
      <3>2. seqs \in Seq(T) /\ last \in T
        BY DEF T
      <3> QED
        BY <3>1, <3>2 DEF T
    <2> QED
      BY <1>2, <2>1, FlattenSeqIs
  <1>4. CASE seqs = <<>>
    BY <1>2, <1>3, <1>4, FlattenEmpty
  <1>5. CASE seqs # <<>>
    BY <1>1, <1>2, <1>3, <1>5, FlattenSeqIs
  <1> QED
    BY <1>4, <1>5

\* What is joined has the elements of the sequences.
LEMMA FlattenType ==
  ASSUME NEW S, NEW seqs \in Seq(Seq(S))
  PROVE  FlattenSeq(seqs) \in Seq(S)
  <1> DEFINE T == {s \in Seq(Seq(S)) : FlattenSeq(s) \in Seq(S)}
  <1>1. <<>> \in T
    BY FlattenEmpty, EmptySeq, Zenon
  <1>2. ASSUME NEW s \in Seq(Seq(S)), NEW e \in Seq(S), s \in T  PROVE Append(s, e) \in T
    <2>1. Append(s, e) \in Seq(Seq(S))
      BY AppendProperties, Zenon
    <2>2. FlattenSeq(s) \in Seq(S) /\ FlattenSeq(Append(s, e)) = FlattenSeq(s) \o e
      BY <1>2, FlattenAppend, Zenon
    <2>3. FlattenSeq(s) \o e \in Seq(S)
      BY <2>2, ConcatProperties, Zenon
    <2> QED
      BY <2>1, <2>2, <2>3
  <1> HIDE DEF T
  <1>3. seqs \in T
    BY <1>1, <1>2, SeqInduction, Zenon
  <1> QED
    BY <1>3 DEF T

-----------------------------------------------------------------------------
(* Texts spelt character by character *)

\* A text whose characters are spelt by a map.
Spell(chars, m) == FlattenSeq([i \in DOMAIN chars |-> m[chars[i]]])

\* Mapping keeps the type,
LEMMA MapType ==
  ASSUME NEW S, NEW T, NEW m \in [S -> T], NEW s \in Seq(S)
  PROVE  [i \in DOMAIN s |-> m[s[i]]] \in Seq(T)
  OBVIOUS

\* and goes element by element.
LEMMA MapAppend ==
  ASSUME NEW S, NEW m, NEW s \in Seq(S), NEW c \in S
  PROVE  [i \in DOMAIN Append(s, c) |-> m[Append(s, c)[i]]]
           = Append([i \in DOMAIN s |-> m[s[i]]], m[c])
  <1> DEFINE T == {m[d] : d \in S}
             of(t) == [i \in DOMAIN t |-> m[t[i]]]
             sc == Append(s, c)
  <1>1. /\ s \in [1 .. Len(s) -> S] /\ Len(s) \in Nat /\ DOMAIN s = 1 .. Len(s)
        /\ sc \in Seq(S) /\ Len(sc) = Len(s) + 1 /\ DOMAIN sc = 1 .. Len(s) + 1
        /\ sc[Len(s) + 1] = c /\ \A i \in 1 .. Len(s) : sc[i] = s[i]
    BY AppendProperties, LenProperties
  <1> HIDE DEF sc
  <1>2. ASSUME NEW t \in Seq(S)
        PROVE  of(t) \in Seq(T) /\ Len(of(t)) = Len(t) /\ \A i \in 1 .. Len(t) : of(t)[i] = m[t[i]]
    OBVIOUS
  <1>3. of(s) \in Seq(T) /\ of(sc) \in Seq(T) /\ m[c] \in T
    BY <1>1, <1>2
  <1>4. /\ Append(of(s), m[c]) \in Seq(T) /\ Len(Append(of(s), m[c])) = Len(of(s)) + 1
        /\ \A i \in 1 .. Len(of(s)) : Append(of(s), m[c])[i] = of(s)[i]
        /\ Append(of(s), m[c])[Len(of(s)) + 1] = m[c]
    BY <1>3, AppendProperties
  <1>5. Len(of(s)) = Len(s) /\ Len(of(sc)) = Len(s) + 1
    BY <1>1, <1>2
  <1>6. ASSUME NEW i \in 1 .. Len(s) + 1  PROVE of(sc)[i] = Append(of(s), m[c])[i]
    <2>1. of(sc)[i] = m[sc[i]]
      BY <1>1, <1>2
    <2>2. CASE i \in 1 .. Len(s)
      BY <1>1, <1>2, <1>4, <1>5, <2>1, <2>2
    <2>3. CASE i = Len(s) + 1
      BY <1>1, <1>4, <1>5, <2>1, <2>3
    <2> QED
      BY <1>1, <2>2, <2>3
  <1> HIDE DEF of
  <1>7. of(sc) = Append(of(s), m[c])
    BY <1>3, <1>4, <1>5, <1>6, SeqEqual
  <1> QED
    BY <1>7 DEF of, sc

\* An empty text is spelt by nothing.
LEMMA SpellEmpty ==
  ASSUME NEW m
  PROVE  Spell(<<>>, m) = <<>>
  <1>1. [i \in DOMAIN <<>> |-> m[<<>>[i]]] = <<>>
    OBVIOUS
  <1> QED
    BY <1>1, FlattenEmpty DEF Spell

\* A spelling has the type of its pieces.
LEMMA SpellType ==
  ASSUME NEW S, NEW T, NEW m \in [S -> Seq(T)], NEW s \in Seq(S)
  PROVE  Spell(s, m) \in Seq(T)
  <1>1. [i \in DOMAIN s |-> m[s[i]]] \in Seq(Seq(T))
    BY MapType, Zenon
  <1> QED
    BY <1>1, FlattenType, Zenon DEF Spell

\* A text is spelt character by character,
LEMMA SpellAppend ==
  ASSUME NEW S, NEW T, NEW m \in [S -> Seq(T)], NEW s \in Seq(S), NEW c \in S
  PROVE  Spell(Append(s, c), m) = Spell(s, m) \o m[c]
  <1> DEFINE spelt == [i \in DOMAIN s |-> m[s[i]]]
  <1>1. m[c] \in Seq(T)
    OBVIOUS
  <1>2. spelt \in Seq(Seq(T))
    BY MapType, Zenon
  <1>3. [i \in DOMAIN Append(s, c) |-> m[Append(s, c)[i]]] = Append(spelt, m[c])
    <2>1. [i \in DOMAIN Append(s, c) |-> m[Append(s, c)[i]]]
             = Append([i \in DOMAIN s |-> m[s[i]]], m[c])
      BY MapAppend
    <2> QED
      BY <2>1, Zenon
  <1> HIDE DEF spelt
  <1>4. FlattenSeq(Append(spelt, m[c])) = FlattenSeq(spelt) \o m[c]
    BY <1>1, <1>2, FlattenAppend
  <1> QED
    BY <1>3, <1>4, Zenon DEF Spell, spelt

\* and text by text.
LEMMA SpellConcat ==
  ASSUME NEW S, NEW T, NEW m \in [S -> Seq(T)], NEW s \in Seq(S), NEW t \in Seq(S)
  PROVE  Spell(s \o t, m) = Spell(s, m) \o Spell(t, m)
  <1> DEFINE U == {u \in Seq(S) : Spell(s \o u, m) = Spell(s, m) \o Spell(u, m)}
  <1>0. Spell(s, m) \in Seq(T)
    BY SpellType
  <1>1. <<>> \in U
    BY <1>0, SpellEmpty
  <1>2. ASSUME NEW u \in Seq(S), NEW c \in S, u \in U  PROVE Append(u, c) \in U
    <2>1. s \o Append(u, c) = Append(s \o u, c) /\ s \o u \in Seq(S) /\ Append(u, c) \in Seq(S)
      OBVIOUS
    <2>0. m[c] \in Seq(T)
      OBVIOUS
    <2>2. Spell(Append(s \o u, c), m) = Spell(s \o u, m) \o m[c]
      BY <2>0, <2>1, SpellAppend, Zenon
    <2>3. Spell(Append(u, c), m) = Spell(u, m) \o m[c]
      BY SpellAppend, Zenon
    <2>5. Spell(u, m) \in Seq(T)
      BY SpellType, Zenon
    <2>4. Spell(s \o u, m) = Spell(s, m) \o Spell(u, m)
      BY <1>2
    <2>6. (Spell(s, m) \o Spell(u, m)) \o m[c] = Spell(s, m) \o (Spell(u, m) \o m[c])
      BY <1>0, <2>0, <2>5, ConcatAssociative
    <2> QED
      BY <2>1, <2>2, <2>3, <2>4, <2>6
  <1> HIDE DEF U
  <1>3. t \in U
    BY <1>1, <1>2, SeqInduction
  <1> QED
    BY <1>3 DEF U

\* A text of one character is spelt as the character is.
LEMMA SpellOne ==
  ASSUME NEW S, NEW T, NEW m \in [S -> Seq(T)], NEW c \in S
  PROVE  Spell(<<c>>, m) = m[c]
  <1>1. <<c>> = Append(<<>>, c) /\ <<>> \in Seq(S)
    OBVIOUS
  <1>2. m[c] \in Seq(T)
    OBVIOUS
  <1>3. Spell(<<c>>, m) = Spell(<<>>, m) \o m[c]
    BY <1>1, SpellAppend, Zenon
  <1> QED
    BY <1>2, <1>3, SpellEmpty

\* The bytes of a std::string.
Bytes == {"space", "tab", "hash", "letter", "lead", "cont"}

\* How Encode and Without spell a character.
CharMap == [c \in Chars |-> EncodeChar(c)]

KeepMap(set) == [c \in Chars |-> IF c \in set THEN <<>> ELSE <<c>>]

\* Both maps are into sequences.
LEMMA Maps ==
  /\ CharMap \in [Chars -> Seq(Bytes)]
  /\ \A set : KeepMap(set) \in [Chars -> Seq(Chars)]
  <1>1. \A c \in Chars : EncodeChar(c) \in Seq(Bytes)
    <2>1. \A c \in Chars \ {"wide"} : c \in Bytes
      BY DEF Chars, Bytes
    <2>2. <<"lead", "cont">> \in Seq(Bytes)
      BY DEF Bytes
    <2> QED
      BY <2>1, <2>2 DEF EncodeChar
  <1>2. \A set, c \in Chars : (IF c \in set THEN <<>> ELSE <<c>>) \in Seq(Chars)
    OBVIOUS
  <1> QED
    BY <1>1, <1>2 DEF CharMap, KeepMap

\* Encode and Without are spellings.
LEMMA IsSpelt ==
  ASSUME NEW s \in Seq(Chars)
  PROVE  /\ Encode(s) = Spell(s, CharMap)
         /\ \A set : Without(s, set) = Spell(s, KeepMap(set))
  <1>1. \A i \in DOMAIN s : s[i] \in Chars
    OBVIOUS
  <1>2. Encode(s) = Spell(s, CharMap)
    <2>1. [i \in DOMAIN s |-> EncodeChar(s[i])] = [i \in DOMAIN s |-> CharMap[s[i]]]
      BY <1>1 DEF CharMap
    <2> QED
      BY <2>1, Zenon DEF Encode, Spell
  <1>3. ASSUME NEW set  PROVE Without(s, set) = Spell(s, KeepMap(set))
    <2>1. [i \in DOMAIN s |-> IF s[i] \in set THEN <<>> ELSE <<s[i]>>]
             = [i \in DOMAIN s |-> KeepMap(set)[s[i]]]
      BY <1>1 DEF KeepMap
    <2> QED
      BY <2>1, Zenon DEF Without, Spell
  <1> QED
    BY <1>2, <1>3

\* Of an empty text nothing is left.
LEMMA EncodeEmpty == Encode(<<>>) = <<>> /\ \A set : Without(<<>>, set) = <<>>
  <1>1. <<>> \in Seq(Chars)
    OBVIOUS
  <1> QED
    BY <1>1, IsSpelt, SpellEmpty

\* The bytes of a text are those of its characters, in their order.
LEMMA EncodeFacts ==
  ASSUME NEW s \in Seq(Chars), NEW t \in Seq(Chars), NEW c \in Chars
  PROVE  /\ Encode(<<>>) = <<>>
         /\ Encode(s) \in Seq(Bytes)
         /\ Encode(s \o t) = Encode(s) \o Encode(t)
         /\ Encode(Append(s, c)) = Encode(s) \o EncodeChar(c)
         /\ Encode(<<c>>) = EncodeChar(c)
  <1>1. /\ <<>> \in Seq(Chars) /\ s \o t \in Seq(Chars)
        /\ Append(s, c) \in Seq(Chars) /\ <<c>> \in Seq(Chars)
    OBVIOUS
  <1>2. CharMap[c] = EncodeChar(c)
    BY DEF CharMap
  <1>3. Spell(s, CharMap) \in Seq(Bytes)
    BY Maps, SpellType
  <1>4. Spell(s \o t, CharMap) = Spell(s, CharMap) \o Spell(t, CharMap)
    BY Maps, SpellConcat
  <1>5. Spell(Append(s, c), CharMap) = Spell(s, CharMap) \o EncodeChar(c)
    BY <1>2, Maps, SpellAppend, Zenon
  <1>6. Spell(<<c>>, CharMap) = CharMap[c]
    BY Maps, SpellOne
  <1> QED
    BY <1>1, <1>2, <1>3, <1>4, <1>5, <1>6, IsSpelt, SpellEmpty

\* Erasing makes no new character.
LEMMA WithoutType ==
  ASSUME NEW set, NEW s \in Seq(Chars)
  PROVE  Without(s, set) \in Seq(Chars)
  <1>1. KeepMap(set) \in [Chars -> Seq(Chars)]
    BY Maps
  <1>2. Spell(s, KeepMap(set)) \in Seq(Chars)
    BY <1>1, SpellType
  <1> QED
    BY <1>2, IsSpelt

\* Characters are erased one by one.
LEMMA WithoutAppend ==
  ASSUME NEW set, NEW s \in Seq(Chars), NEW c \in Chars
  PROVE  Without(Append(s, c), set) = IF c \in set THEN Without(s, set) ELSE Without(s, set) \o <<c>>
  <1> DEFINE m == KeepMap(set)
             kept == Without(s, set)
  <1>1. Append(s, c) \in Seq(Chars)
    OBVIOUS
  <1>2. m[c] = IF c \in set THEN <<>> ELSE <<c>>
    BY DEF KeepMap
  <1>3. kept = Spell(s, m) /\ Without(Append(s, c), set) = Spell(Append(s, c), m)
    BY <1>1, IsSpelt
  <1>4. Spell(Append(s, c), m) = Spell(s, m) \o m[c]
    <2>1. m \in [Chars -> Seq(Chars)]
      BY Maps
    <2> HIDE DEF m
    <2> QED
      BY <2>1, SpellAppend, Zenon
  <1>5. kept \in Seq(Chars)
    BY WithoutType
  <1>6. kept \o <<>> = kept
    BY <1>5, ConcatEmptySeq
  <1> HIDE DEF m, kept
  <1>7. Without(Append(s, c), set) = kept \o m[c]
    BY <1>3, <1>4
  <1> QED
    BY <1>2, <1>6, <1>7, Zenon DEF kept

-----------------------------------------------------------------------------
(* Titles *)

\* Nothing but spaces.
Blank(s) == \A i \in DOMAIN s : IsSpace(s[i])

\* A blank text is its own bytes.
LEMMA BlankEncodes ==
  ASSUME NEW s \in Seq(Chars), Blank(s)
  PROVE  Encode(s) = s
  <1> DEFINE T == {t \in Seq(Chars) : Blank(t) => Encode(t) = t}
  <1>1. <<>> \in T
    BY EncodeEmpty, EmptySeq
  <1>2. ASSUME NEW t \in Seq(Chars), NEW c \in Chars, t \in T  PROVE Append(t, c) \in T
    <2> SUFFICES ASSUME Blank(Append(t, c))  PROVE Encode(Append(t, c)) = Append(t, c)
      OBVIOUS
    <2>1. /\ Append(t, c) \in Seq(Chars) /\ Len(Append(t, c)) = Len(t) + 1
          /\ Append(t, c)[Len(t) + 1] = c
          /\ \A i \in 1 .. Len(t) : Append(t, c)[i] = t[i]
      OBVIOUS
    <2>2. \A i \in 1 .. Len(t) + 1 : IsSpace(Append(t, c)[i])
      BY <2>1 DEF Blank
    <2>3. IsSpace(c) /\ Blank(t)
      BY <2>1, <2>2 DEF Blank
    <2>4. EncodeChar(c) = <<c>>
      BY <2>3 DEF IsSpace, Spaces, EncodeChar
    <2>5. Encode(Append(t, c)) = Encode(t) \o EncodeChar(c)
      BY EncodeFacts
    <2>6. Append(t, c) = t \o <<c>>
      BY AppendIsConcat
    <2> QED
      BY <1>2, <2>3, <2>4, <2>5, <2>6
  <1> HIDE DEF T
  <1>3. s \in T
    BY <1>1, <1>2, SeqInduction
  <1> QED
    BY <1>3 DEF T

\* The least and the greatest of a set of naturals are what Min and Max choose.
LEMMA MinMaxIs ==
  ASSUME NEW T \in SUBSET Nat, NEW n \in T
  PROVE  /\ (\A m \in T : n <= m) => Min(T) = n
         /\ (\A m \in T : n >= m) => Max(T) = n
  <1>1. ASSUME \A m \in T : n <= m  PROVE Min(T) = n
    <2>1. Min(T) \in T /\ \A m \in T : Min(T) <= m
      BY <1>1 DEF Min
    <2>2. Min(T) \in Nat /\ n \in Nat
      BY <2>1
    <2>3. Min(T) <= n /\ n <= Min(T)
      BY <1>1, <2>1
    <2> QED
      BY <2>2, <2>3
  <1>2. ASSUME \A m \in T : n >= m  PROVE Max(T) = n
    <2>1. Max(T) \in T /\ \A m \in T : Max(T) >= m
      BY <1>2 DEF Max
    <2>2. Max(T) \in Nat /\ n \in Nat
      BY <2>1
    <2>3. Max(T) >= n /\ n >= Max(T)
      BY <1>2, <2>1
    <2> QED
      BY <2>2, <2>3
  <1> QED
    BY <1>1, <1>2

\* Trim finds the bytes between spaces, when they begin and end with none.
LEMMA TrimIs ==
  ASSUME NEW S, NEW p \in Seq(S), NEW b \in Seq(S), NEW q \in Seq(S),
         Blank(p), Blank(q), b # <<>>, ~IsSpace(b[1]), ~IsSpace(b[Len(b)])
  PROVE  Trim((p \o b) \o q) = b
  <1> DEFINE all == (p \o b) \o q
             first == Len(p) + 1
             last == Len(p) + Len(b)
             I == {i \in 1 .. Len(all) : NotSpace(all[i])}
  <1>1. Len(p) \in Nat /\ Len(q) \in Nat /\ Len(b) \in Nat \ {0}
    BY EmptySeq, LenProperties
  <1>2. p \o b \in Seq(S) /\ Len(p \o b) = last
        /\ \A i \in 1 .. last : (p \o b)[i] = IF i <= Len(p) THEN p[i] ELSE b[i - Len(p)]
    BY ConcatProperties
  <1>3. all \in Seq(S) /\ Len(all) = last + Len(q)
        /\ \A i \in 1 .. last + Len(q) : all[i] = IF i <= last THEN (p \o b)[i] ELSE q[i - last]
    BY <1>2, ConcatProperties
  <1>4. /\ \A i \in 1 .. Len(p) : IsSpace(p[i])
        /\ \A i \in 1 .. Len(q) : IsSpace(q[i])
    BY LenProperties DEF Blank
  <1> HIDE DEF all
  <1>5. \A i \in 1 .. Len(p) : IsSpace(all[i])
    <2> TAKE i \in 1 .. Len(p)
    <2>1. all[i] = (p \o b)[i]
      BY <1>1, <1>3
    <2>2. (p \o b)[i] = p[i]
      BY <1>1, <1>2
    <2> QED
      BY <1>4, <2>1, <2>2
  <1>6. \A i \in last + 1 .. last + Len(q) : IsSpace(all[i])
    <2> TAKE i \in last + 1 .. last + Len(q)
    <2>1. all[i] = q[i - last] /\ i - last \in 1 .. Len(q)
      BY <1>1, <1>3
    <2> QED
      BY <1>4, <2>1
  <1>7. \A i \in 1 .. Len(b) : all[Len(p) + i] = b[i]
    <2> TAKE i \in 1 .. Len(b)
    <2>1. all[Len(p) + i] = (p \o b)[Len(p) + i]
      BY <1>1, <1>3
    <2> QED
      BY <1>1, <1>2, <2>1
  <1>8. ~IsSpace(all[first]) /\ ~IsSpace(all[last])
    <2>1. all[first] = b[1] /\ all[last] = b[Len(b)]
      BY <1>1, <1>7
    <2> QED
      BY <2>1
  <1>9. first \in I /\ last \in I /\ \A i \in I : first <= i /\ last >= i /\ i \in Nat
    <2>1. first \in 1 .. Len(all) /\ last \in 1 .. Len(all)
      BY <1>1, <1>3
    <2>2. ASSUME NEW i \in 1 .. Len(all), ~IsSpace(all[i])
          PROVE  first <= i /\ last >= i
      <3>1. i \notin 1 .. Len(p) /\ i \notin last + 1 .. last + Len(q)
        BY <1>5, <1>6, <2>2
      <3> QED
        BY <1>1, <1>3, <3>1
    <2> QED
      BY <1>8, <2>1, <2>2 DEF NotSpace
  <1>10. SelectInSeq(all, NotSpace) = first
    <2> HIDE DEF first
    <2>1. SelectInSeq(all, NotSpace) = Min(I)
      BY <1>9 DEF SelectInSeq
    <2> HIDE DEF I
    <2> QED
      BY <1>9, <2>1, MinMaxIs
  <1>11. SelectLastInSeq(all, NotSpace) = last
    <2> HIDE DEF last
    <2>1. SelectLastInSeq(all, NotSpace) = Max(I)
      BY <1>9 DEF SelectLastInSeq
    <2> HIDE DEF I
    <2> QED
      BY <1>9, <2>1, MinMaxIs
  <1>12. Trim(all) = SubSeq(all, first, last)
    <2>1. first \in DOMAIN all /\ ~IsSpace(all[first])
      BY <1>1, <1>3, <1>8
    <2> QED
      BY <1>10, <1>11, <2>1 DEF Trim
  <1>13. SubSeq(all, first, last) = b
    <2>1. \A i \in first .. last : all[i] \in S
      BY <1>1, <1>3, ElementOfSeq
    <2>2. /\ SubSeq(all, first, last) \in Seq(S)
          /\ Len(SubSeq(all, first, last)) = Len(b)
          /\ \A i \in 1 .. Len(b) : SubSeq(all, first, last)[i] = all[Len(p) + i]
      BY <1>1, <2>1, SubSeqProperties
    <2> QED
      BY <1>7, <2>2, SeqEqual
  <1> QED
    BY <1>12, <1>13 DEF all

\* What annotateTitle returns is a prefix of the trimmed title, or of the
\* default: all of it, or as much as fits.
LEMMA Annotated ==
  ASSUME NEW bytes, NEW long \in Seq(Bytes), long # <<>>,
         long = IF Trim(bytes) = <<>> THEN DefaultTitle ELSE Trim(bytes),
         NEW title, title = AnnotateTitle(bytes)
  PROVE  /\ title # <<>> /\ Len(title) <= MaxTitleLength
         /\ IsPrefix(title, long)
         /\ title = long \/ Len(title) = MaxTitleLength
         /\ title \in Seq(Bytes)
  <1>1. Len(long) \in Nat \ {0} /\ MaxTitleLength \in Nat \ {0}
    BY MaxTitleLengthAssumption, EmptySeq
  <1>2. title = IF Len(long) > MaxTitleLength THEN SubSeq(long, 1, MaxTitleLength) ELSE long
    BY DEF AnnotateTitle
  <1>3. CASE Len(long) > MaxTitleLength
    <2>1. title = SubSeq(long, 1, MaxTitleLength)
      BY <1>2, <1>3
    <2>2. title \in Seq(Bytes) /\ Len(title) = MaxTitleLength
      <3>1. \A i \in 1 .. MaxTitleLength : long[i] \in Bytes
        BY <1>1, <1>3, ElementOfSeq
      <3> QED
        BY <1>1, <2>1, <3>1, SubSeqProperties
    <2>3. title # <<>>
      BY <1>1, <2>2
    <2>4. SubSeq(title, 1, Len(title)) = title
      BY <2>2, SubSeqFull
    <2>5. IsPrefix(title, long)
      BY <1>1, <1>3, <2>1, <2>2, <2>4 DEF IsPrefix
    <2> QED
      BY <1>1, <2>2, <2>3, <2>5
  <1>4. CASE ~(Len(long) > MaxTitleLength)
    <2>1. title = long
      BY <1>2, <1>4
    <2> QED
      BY <1>1, <1>4, <2>1 DEF IsPrefix
  <1> QED
    BY <1>3, <1>4

\* A text that is not blank has a first and a last character that is no space.
LEMMA Framed ==
  ASSUME NEW s \in Seq(Chars), ~Blank(s)
  PROVE  \E i, j \in DOMAIN s :
           /\ i <= j
           /\ ~IsSpace(s[i]) /\ Blank(SubSeq(s, 1, i - 1))
           /\ ~IsSpace(s[j]) /\ Blank(SubSeq(s, j + 1, Len(s)))
  <1> DEFINE I == {i \in 1 .. Len(s) : ~IsSpace(s[i])}
             J == {k \in Nat : k < Len(s) /\ ~IsSpace(s[Len(s) - k])}
  <1>1. Len(s) \in Nat /\ DOMAIN s = 1 .. Len(s)
    OBVIOUS
  <1>2. PICK k \in 1 .. Len(s) : ~IsSpace(s[k])
    BY <1>1 DEF Blank
  <1>3. PICK i \in I : \A m \in I : i <= m
    <2>1. I \subseteq Nat /\ I # {}
      BY <1>2
    <2> QED
      BY <2>1, LeastElement
  <1>4. PICK d \in J : \A m \in J : d <= m
    <2>1. Len(s) - k \in Nat /\ Len(s) - k < Len(s) /\ Len(s) - (Len(s) - k) = k
      BY <1>1
    <2>2. Len(s) - k \in J
      BY <1>2, <2>1
    <2>3. J \subseteq Nat /\ J # {}
      BY <2>2
    <2> HIDE DEF J
    <2> QED
      BY <2>3, LeastElement
  <1> DEFINE j == Len(s) - d
  <1>5. d \in Nat /\ d < Len(s) /\ ~IsSpace(s[j]) /\ j \in 1 .. Len(s)
    BY <1>1, <1>4
  <1>6. i <= j
    BY <1>3, <1>5
  <1>7. \A m \in 1 .. i - 1 : IsSpace(s[m])
    BY <1>1, <1>3
  <1>8. \A m \in j + 1 .. Len(s) : IsSpace(s[m])
    <2> SUFFICES ASSUME NEW m \in j + 1 .. Len(s), ~IsSpace(s[m])  PROVE FALSE
      OBVIOUS
    <2>1. Len(s) - m \in Nat /\ Len(s) - m < Len(s) /\ Len(s) - (Len(s) - m) = m
      BY <1>1, <1>5
    <2>2. Len(s) - m \in J
      BY <2>1
    <2> QED
      BY <1>1, <1>4, <1>5, <2>1, <2>2
  <1> HIDE DEF I, J, j
  <1>9. i \in 1 .. Len(s) /\ ~IsSpace(s[i])
    BY <1>3 DEF I
  <1>10. ASSUME NEW a \in Int, NEW b \in Int, a >= 1, b <= Len(s),
                \A m \in a .. b : IsSpace(s[m])
         PROVE  Blank(SubSeq(s, a, b))
    <2>1. \A m \in a .. b : s[m] \in Chars
      BY <1>1, <1>10, ElementOfSeq
    <2>2. /\ SubSeq(s, a, b) \in Seq(Chars)
          /\ Len(SubSeq(s, a, b)) = IF a <= b THEN b - a + 1 ELSE 0
          /\ \A m \in 1 .. b - a + 1 : SubSeq(s, a, b)[m] = s[a + m - 1]
      BY <2>1, SubSeqProperties
    <2>3. ASSUME NEW m \in DOMAIN SubSeq(s, a, b)  PROVE IsSpace(SubSeq(s, a, b)[m])
      <3>1. m \in 1 .. b - a + 1 /\ a + m - 1 \in a .. b
        BY <2>2, LenProperties
      <3> QED
        BY <1>10, <2>2, <3>1
    <2> QED
      BY <2>3 DEF Blank
  <1>11. Blank(SubSeq(s, 1, i - 1))
    BY <1>1, <1>7, <1>9, <1>10
  <1>12. Blank(SubSeq(s, j + 1, Len(s)))
    BY <1>1, <1>5, <1>8, <1>10
  <1> QED
    BY <1>1, <1>5, <1>6, <1>9, <1>11, <1>12

\* What lies between those two is encoded into what Trim finds.
LEMMA CoreIsTrimmed ==
  ASSUME NEW s \in Seq(Chars), NEW i \in DOMAIN s, NEW j \in DOMAIN s, i <= j,
         ~IsSpace(s[i]), Blank(SubSeq(s, 1, i - 1)),
         ~IsSpace(s[j]), Blank(SubSeq(s, j + 1, Len(s)))
  PROVE  /\ Encode(SubSeq(s, i, j)) \in Seq(Bytes)
         /\ Encode(SubSeq(s, i, j)) # <<>>
         /\ Trim(Encode(s)) = Encode(SubSeq(s, i, j))
  <1> DEFINE pre == SubSeq(s, 1, i - 1)
             core == SubSeq(s, i, j)
             post == SubSeq(s, j + 1, Len(s))
  <1>1. Len(s) \in Nat /\ i \in 1 .. Len(s) /\ j \in 1 .. Len(s)
    BY LenProperties
  <1>2. pre \in Seq(Chars) /\ core \in Seq(Chars) /\ post \in Seq(Chars)
    <2>1. \A m \in 1 .. Len(s) : s[m] \in Chars
      BY ElementOfSeq
    <2> QED
      BY <1>1, <2>1, SubSeqProperties
  <1>3. s = (pre \o core) \o post
    <2>1. pre \o core = SubSeq(s, 1, j)
      <3>1. 1 \in 1 .. Len(s) + 1 /\ i - 1 \in 1 - 1 .. Len(s) /\ j \in i - 1 .. Len(s) /\ (i - 1) + 1 = i
        BY <1>1
      <3>2. SubSeq(s, 1, i - 1) \o SubSeq(s, (i - 1) + 1, j) = SubSeq(s, 1, j)
        BY <3>1, ConcatAdjacentSubSeq
      <3> QED
        BY <3>1, <3>2
    <2>2. SubSeq(s, 1, j) \o post = SubSeq(s, 1, Len(s))
      <3>1. 1 \in 1 .. Len(s) + 1 /\ j \in 1 - 1 .. Len(s) /\ Len(s) \in j .. Len(s)
        BY <1>1
      <3> QED
        BY <3>1, ConcatAdjacentSubSeq
    <2> QED
      BY <2>1, <2>2, SubSeqFull
  <1>4. core = <<s[i]>> \o SubSeq(s, i + 1, j)
    <2>1. i \in 1 .. Len(s) /\ j \in i .. Len(s)
      BY <1>1
    <2> QED
      BY <2>1, SubSeqRecursiveFirst
  <1>5. core = SubSeq(s, i, j - 1) \o <<s[j]>>
    <2>1. i \in 1 .. Len(s) /\ j \in i .. Len(s)
      BY <1>1
    <2> QED
      BY <2>1, SubSeqRecursiveSecond
  <1>6. SubSeq(s, i + 1, j) \in Seq(Chars) /\ SubSeq(s, i, j - 1) \in Seq(Chars)
        /\ s[i] \in Chars /\ s[j] \in Chars
    <2>1. \A m \in 1 .. Len(s) : s[m] \in Chars
      BY ElementOfSeq
    <2> QED
      BY <1>1, <2>1, SubSeqProperties
  <1> HIDE DEF pre, core, post
  <1>7. Encode(s) = (pre \o Encode(core)) \o post
    <2>1. Encode(pre \o core) = Encode(pre) \o Encode(core) /\ pre \o core \in Seq(Chars)
      <3>1. Encode(pre \o core) = Encode(pre) \o Encode(core)
        BY <1>2, <1>6, EncodeFacts, Zenon
      <3> QED
        BY <1>2, <3>1
    <2>2. Encode((pre \o core) \o post) = Encode(pre \o core) \o Encode(post)
      BY <1>2, <1>6, <2>1, EncodeFacts
    <2>3. Encode(pre) = pre /\ Encode(post) = post
      BY <1>2, BlankEncodes DEF pre, post
    <2> QED
      BY <1>3, <2>1, <2>2, <2>3
  <1>8. pre \in Seq(Bytes) /\ post \in Seq(Bytes) /\ Encode(core) \in Seq(Bytes)
    <2>1. Encode(pre) \in Seq(Bytes) /\ Encode(post) \in Seq(Bytes) /\ Encode(core) \in Seq(Bytes)
      BY <1>2, <1>6, EncodeFacts
    <2>2. Encode(pre) = pre /\ Encode(post) = post
      BY <1>2, BlankEncodes DEF pre, post
    <2> QED
      BY <2>1, <2>2
  <1>9. \A c \in Chars : ~IsSpace(c) =>
          LET e == EncodeChar(c)
          IN e \in Seq(Bytes) /\ Len(e) \in Nat \ {0} /\ ~IsSpace(e[1]) /\ ~IsSpace(e[Len(e)])
    <2> TAKE c \in Chars
    <2> HAVE ~IsSpace(c)
    <2>1. CASE c = "wide"
      <3>1. EncodeChar(c) = <<"lead", "cont">>
        BY <2>1 DEF EncodeChar
      <3>2. ~IsSpace("lead") /\ ~IsSpace("cont")
        BY DEF IsSpace, Spaces
      <3>3. "lead" \in Bytes /\ "cont" \in Bytes
        BY DEF Bytes
      <3> QED
        BY <3>1, <3>2, <3>3
    <2>2. CASE c # "wide"
      <3>1. EncodeChar(c) = <<c>>
        BY <2>2 DEF EncodeChar
      <3>2. c \in Bytes
        BY <2>2 DEF Bytes, Chars
      <3> QED
        BY <3>1, <3>2
    <2> QED
      BY <2>1, <2>2
  <1>10. Len(Encode(core)) \in Nat \ {0} /\ ~IsSpace(Encode(core)[1])
    <2>1. Encode(core) = EncodeChar(s[i]) \o Encode(SubSeq(s, i + 1, j))
      <3>1. Encode(<<s[i]>>) = EncodeChar(s[i]) /\ <<s[i]>> \in Seq(Chars)
        BY <1>2, <1>6, EncodeFacts
      <3> QED
        BY <1>4, <1>6, <3>1, EncodeFacts
    <2>2. Encode(SubSeq(s, i + 1, j)) \in Seq(Bytes)
      BY <1>6, EncodeFacts
    <2>3. /\ EncodeChar(s[i]) \in Seq(Bytes) /\ Len(EncodeChar(s[i])) \in Nat \ {0}
          /\ ~IsSpace(EncodeChar(s[i])[1])
      BY <1>6, <1>9
    <2> DEFINE a == EncodeChar(s[i])
               e == Encode(SubSeq(s, i + 1, j))
    <2> HIDE DEF a, e
    <2>4. /\ a \in Seq(Bytes) /\ e \in Seq(Bytes) /\ Len(a) \in Nat \ {0}
          /\ ~IsSpace(a[1]) /\ Encode(core) = a \o e
      BY <2>1, <2>2, <2>3 DEF a, e
    <2>5. (a \o e)[1] = a[1] /\ Len(a \o e) \in Nat \ {0}
      <3>1. Len(e) \in Nat
        BY <2>4
      <3> QED
        BY <2>4, <3>1, ConcatProperties
    <2> QED
      BY <2>4, <2>5
  <1>11. ~IsSpace(Encode(core)[Len(Encode(core))])
    <2>1. Encode(core) = Encode(SubSeq(s, i, j - 1)) \o EncodeChar(s[j])
      <3>1. Encode(<<s[j]>>) = EncodeChar(s[j]) /\ <<s[j]>> \in Seq(Chars)
        BY <1>2, <1>6, EncodeFacts
      <3> QED
        BY <1>5, <1>6, <3>1, EncodeFacts
    <2>2. Encode(SubSeq(s, i, j - 1)) \in Seq(Bytes)
      BY <1>6, EncodeFacts
    <2>3. /\ EncodeChar(s[j]) \in Seq(Bytes) /\ Len(EncodeChar(s[j])) \in Nat \ {0}
          /\ ~IsSpace(EncodeChar(s[j])[Len(EncodeChar(s[j]))])
      BY <1>6, <1>9
    <2> DEFINE a == Encode(SubSeq(s, i, j - 1))
               e == EncodeChar(s[j])
    <2> HIDE DEF a, e
    <2>4. /\ a \in Seq(Bytes) /\ e \in Seq(Bytes) /\ Len(e) \in Nat \ {0}
          /\ ~IsSpace(e[Len(e)]) /\ Encode(core) = a \o e
      BY <2>1, <2>2, <2>3 DEF a, e
    <2>5. (a \o e)[Len(a \o e)] = e[Len(e)]
      BY <2>4, ConcatProperties
    <2> QED
      BY <2>4, <2>5
  <1>12. Encode(core) # <<>>
    BY <1>10
  <1>13. Trim(Encode(s)) = Encode(core)
    <2>1. Blank(pre) /\ Blank(post)
      BY DEF pre, post
    <2> QED
      BY <1>7, <1>8, <1>10, <1>11, <1>12, <2>1, TrimIs
  <1> QED
    BY <1>8, <1>12, <1>13 DEF core

\* So the title is that of the text, whatever the text.
LEMMA TitleOfText ==
  ASSUME text \in Seq(Chars)
  PROVE  TitleIsText
  <1> DEFINE title == AnnotateTitle(Encode(text))
  <1>1. CASE Blank(text)
    <2>1. Encode(text) = text
      BY <1>1, BlankEncodes
    <2>2. Trim(Encode(text)) = <<>>
      BY <1>1, <2>1 DEF Trim, Blank
    <2>3. DefaultTitle \in Seq(Bytes) /\ DefaultTitle # <<>> /\ Len(DefaultTitle) = 1
      BY DEF DefaultTitle, Bytes
    <2>4. title # <<>> /\ Len(title) <= MaxTitleLength
      BY <2>2, <2>3, Annotated
    <2>5. title = DefaultTitle
      <3>1. ~(1 > MaxTitleLength)
        BY MaxTitleLengthAssumption
      <3> QED
        BY <2>2, <2>3, <3>1, Zenon DEF AnnotateTitle
    <2> QED
      BY <1>1, <2>4, <2>5 DEF TitleIsText, Blank
  <1>2. CASE ~Blank(text)
    <2>1. PICK i, j \in DOMAIN text :
             /\ i <= j
             /\ ~IsSpace(text[i]) /\ Blank(SubSeq(text, 1, i - 1))
             /\ ~IsSpace(text[j]) /\ Blank(SubSeq(text, j + 1, Len(text)))
      BY <1>2, Framed
    <2> DEFINE core == Encode(SubSeq(text, i, j))
    <2>2. core \in Seq(Bytes) /\ core # <<>> /\ Trim(Encode(text)) = core
      BY <2>1, CoreIsTrimmed
    <2>3. /\ title # <<>> /\ Len(title) <= MaxTitleLength
          /\ IsPrefix(title, core)
          /\ title = core \/ Len(title) = MaxTitleLength
      BY <2>2, Annotated
    <2> HIDE DEF core, title
    <2>4. \E a, b \in DOMAIN text :
            /\ ~IsSpace(text[a]) /\ Blank(SubSeq(text, 1, a - 1))
            /\ ~IsSpace(text[b]) /\ Blank(SubSeq(text, b + 1, Len(text)))
            /\ IsPrefix(title, Encode(SubSeq(text, a, b)))
            /\ title = Encode(SubSeq(text, a, b)) \/ Len(title) = MaxTitleLength
      BY <2>1, <2>3, Zenon DEF core
    <2> QED
      BY <1>2, <2>3, <2>4, Zenon DEF TitleIsText, Blank, title
  <1> QED
    BY <1>1, <1>2

-----------------------------------------------------------------------------
(* Characters cut in two *)

\* The bytes of a text are well-formed.
LEMMA EncodedIsValid ==
  ASSUME NEW s \in Seq(Chars)
  PROVE  ValidUtf8(Encode(s))
  <1> DEFINE T == {t \in Seq(Chars) : ValidUtf8(Encode(t))}
  <1>1. <<>> \in T
    <2>1. ValidUtf8(<<>>)
      BY DEF ValidUtf8
    <2> QED
      BY <2>1, EncodeEmpty
  <1>2. ASSUME NEW t \in Seq(Chars), NEW c \in Chars, t \in T  PROVE Append(t, c) \in T
    <2> DEFINE a == Encode(t)
               e == EncodeChar(c)
               n == Len(a)
               all == a \o e
    <2>1. a \in Seq(Bytes) /\ Encode(Append(t, c)) = all
      BY EncodeFacts
    <2>2. ValidUtf8(a)
      BY <1>2
    <2>3. e \in Seq(Bytes) /\ ValidUtf8(e)
      <3>1. CASE c = "wide"
        <4>1. e = <<"lead", "cont">>
          BY <3>1 DEF EncodeChar
        <4>2. "lead" \in Bytes /\ "cont" \in Bytes
          BY DEF Bytes
        <4> QED
          BY <4>1, <4>2 DEF ValidUtf8
      <3>2. CASE c # "wide"
        <4>1. e = <<c>>
          BY <3>2 DEF EncodeChar
        <4>2. c \in Bytes /\ c # "lead" /\ c # "cont"
          BY <3>2 DEF Bytes, Chars
        <4> QED
          BY <4>1, <4>2 DEF ValidUtf8
      <3> QED
        BY <3>1, <3>2
    <2> HIDE DEF a, e
    <2>4. /\ n \in Nat /\ Len(e) \in Nat /\ Len(all) = n + Len(e) /\ all \in Seq(Bytes)
          /\ \A i \in 1 .. n + Len(e) : all[i] = IF i <= n THEN a[i] ELSE e[i - n]
      BY <2>1, <2>3, ConcatProperties, LenProperties
    <2> HIDE DEF all
    <2>5. /\ \A i \in 1 .. n : all[i] = a[i]
          /\ \A i \in n + 1 .. n + Len(e) : all[i] = e[i - n] /\ i - n \in 1 .. Len(e)
      BY <2>4
    <2>6. ASSUME NEW b \in Seq(Bytes)
          PROVE  ValidUtf8(b) <=>
                   \A i \in 1 .. Len(b) :
                     /\ b[i] = "lead" => i < Len(b) /\ b[i + 1] = "cont"
                     /\ b[i] = "cont" => i > 1 /\ b[i - 1] = "lead"
      BY LenProperties DEF ValidUtf8
    <2>7. \A i \in 1 .. n :
            /\ all[i] = "lead" => i < Len(all) /\ all[i + 1] = "cont"
            /\ all[i] = "cont" => i > 1 /\ all[i - 1] = "lead"
      <3> TAKE i \in 1 .. n
      <3>1. /\ a[i] = "lead" => i < n /\ a[i + 1] = "cont"
            /\ a[i] = "cont" => i > 1 /\ a[i - 1] = "lead"
        BY <2>1, <2>2, <2>6
      <3>2. /\ i < n => i < Len(all) /\ i + 1 \in 1 .. n
            /\ i > 1 => i - 1 \in 1 .. n
        BY <2>4
      <3> QED
        BY <2>5, <3>1, <3>2
    <2>8. \A i \in n + 1 .. n + Len(e) :
            /\ all[i] = "lead" => i < Len(all) /\ all[i + 1] = "cont"
            /\ all[i] = "cont" => i > 1 /\ all[i - 1] = "lead"
      <3> TAKE i \in n + 1 .. n + Len(e)
      <3>1. /\ e[i - n] = "lead" => i - n < Len(e) /\ e[(i - n) + 1] = "cont"
            /\ e[i - n] = "cont" => i - n > 1 /\ e[(i - n) - 1] = "lead"
        BY <2>3, <2>5, <2>6
      <3>2. /\ (i + 1) - n = (i - n) + 1 /\ (i - 1) - n = (i - n) - 1
            /\ i - n < Len(e) => i < Len(all) /\ i + 1 \in n + 1 .. n + Len(e)
            /\ i - n > 1 => i > 1 /\ i - 1 \in n + 1 .. n + Len(e)
        BY <2>4
      <3> QED
        BY <2>5, <3>1, <3>2
    <2>9. ValidUtf8(all)
      BY <2>4, <2>6, <2>7, <2>8
    <2> QED
      BY <2>1, <2>9
  <1> HIDE DEF T
  <1>3. s \in T
    BY <1>1, <1>2, SeqInduction
  <1> QED
    BY <1>3 DEF T

\* A prefix of well-formed bytes is ill-formed only when its last byte is the
\* first of two.
LEMMA CutThroughCharacter ==
  ASSUME NEW core \in Seq(Bytes), ValidUtf8(core), NEW title \in Seq(Bytes), title # <<>>,
         IsPrefix(title, core), ~ValidUtf8(title)
  PROVE  title[Len(title)] = "lead"
  <1> DEFINE n == Len(title)
  <1>1. n \in Nat \ {0} /\ Len(core) \in Nat /\ n <= Len(core)
    BY EmptySeq DEF IsPrefix
  <1>2. \A i \in 1 .. n : title[i] = core[i]
    <2>1. SubSeq(title, 1, n) = SubSeq(core, 1, n)
      BY DEF IsPrefix
    <2>2. /\ \A i \in 1 .. n : title[i] \in Bytes /\ core[i] \in Bytes
      BY <1>1, ElementOfSeq
    <2>3. \A i \in 1 .. n - 1 + 1 : SubSeq(title, 1, n)[i] = title[1 + i - 1] /\ SubSeq(core, 1, n)[i] = core[1 + i - 1]
      BY <1>1, <2>2, SubSeqProperties
    <2> QED
      BY <1>1, <2>1, <2>3
  <1> SUFFICES ASSUME title[n] # "lead"  PROVE ValidUtf8(title)
    OBVIOUS
  <1>3. \A i \in 1 .. n :
          /\ core[i] = "lead" => core[i + 1] = "cont"
          /\ core[i] = "cont" => i > 1 /\ core[i - 1] = "lead"
    <2>1. DOMAIN core = 1 .. Len(core)
      BY LenProperties
    <2>2. \A i \in 1 .. n : i \in DOMAIN core
      BY <1>1, <2>1
    <2> QED
      BY <2>2 DEF ValidUtf8
  <1>4. ASSUME NEW i \in 1 .. n
        PROVE  /\ title[i] = "lead" => i < n /\ title[i + 1] = "cont"
               /\ title[i] = "cont" => i > 1 /\ title[i - 1] = "lead"
    BY <1>1, <1>2, <1>3
  <1>5. DOMAIN title = 1 .. n
    BY LenProperties
  <1> QED
    BY <1>4, <1>5 DEF ValidUtf8

\* So an ill-formed title has been cut through a character.
LEMMA InvalidIsCut ==
  ASSUME text \in Seq(Chars), NEW title, title = AnnotateTitle(Encode(text)), ~ValidUtf8(title)
  PROVE  Len(title) = MaxTitleLength /\ title[MaxTitleLength] = "lead"
  <1>1. CASE Blank(text)
    <2>1. title = DefaultTitle
      BY <1>1, TitleOfText DEF TitleIsText, Blank
    <2>2. ValidUtf8(DefaultTitle)
      BY DEF DefaultTitle, ValidUtf8
    <2> QED
      BY <2>1, <2>2
  <1>2. CASE ~Blank(text)
    <2>1. PICK i, j \in DOMAIN text :
             /\ i <= j
             /\ ~IsSpace(text[i]) /\ Blank(SubSeq(text, 1, i - 1))
             /\ ~IsSpace(text[j]) /\ Blank(SubSeq(text, j + 1, Len(text)))
      BY <1>2, Framed
    <2> DEFINE core == Encode(SubSeq(text, i, j))
    <2>2. core \in Seq(Bytes) /\ core # <<>> /\ Trim(Encode(text)) = core
      BY <2>1, CoreIsTrimmed
    <2>3. /\ title \in Seq(Bytes) /\ title # <<>> /\ IsPrefix(title, core)
          /\ title = core \/ Len(title) = MaxTitleLength
      BY <2>2, Annotated
    <2>4. ValidUtf8(core)
      <3>1. SubSeq(text, i, j) \in Seq(Chars)
        <4>1. \A m \in i .. j : text[m] \in Chars
          BY ElementOfSeq
        <4> QED
          BY <4>1, SubSeqProperties
      <3> QED
        BY <3>1, EncodedIsValid
    <2> QED
      BY <2>2, <2>3, <2>4, CutThroughCharacter
  <1> QED
    BY <1>1, <1>2

-----------------------------------------------------------------------------
(* Hashtags *)

\* Nothing is erased from a text that has none of the characters.
LEMMA NothingWithout ==
  ASSUME NEW set, NEW s \in Seq(Chars), \A i \in DOMAIN s : s[i] \notin set
  PROVE  Without(s, set) = s
  <1> DEFINE T == {t \in Seq(Chars) : (\A i \in DOMAIN t : t[i] \notin set) => Without(t, set) = t}
  <1>1. <<>> \in T
    BY EncodeEmpty, EmptySeq
  <1>2. ASSUME NEW t \in Seq(Chars), NEW c \in Chars, t \in T  PROVE Append(t, c) \in T
    <2> SUFFICES ASSUME \A i \in DOMAIN Append(t, c) : Append(t, c)[i] \notin set
                 PROVE  Without(Append(t, c), set) = Append(t, c)
      <3>1. Append(t, c) \in Seq(Chars)
        OBVIOUS
      <3> QED
        BY <3>1, Zenon
    <2>1. /\ DOMAIN Append(t, c) = 1 .. Len(t) + 1 /\ DOMAIN t = 1 .. Len(t) /\ Len(t) \in Nat
          /\ Append(t, c)[Len(t) + 1] = c
          /\ \A i \in 1 .. Len(t) : Append(t, c)[i] = t[i]
      OBVIOUS
    <2>2. c \notin set /\ \A i \in 1 .. Len(t) : t[i] \notin set
      BY <2>1
    <2>3. Without(t, set) = t
      BY <1>2, <2>1, <2>2
    <2>4. Without(Append(t, c), set) = Without(t, set) \o <<c>>
      BY <2>2, WithoutAppend
    <2>5. Append(t, c) = t \o <<c>>
      BY AppendIsConcat
    <2> QED
      BY <2>3, <2>4, <2>5
  <1> HIDE DEF T
  <1>3. s \in T
    BY <1>1, <1>2, SeqInduction
  <1> QED
    BY <1>3 DEF T

\* What Push adds to the tokens.
LEMMA PushFacts ==
  ASSUME NEW tokens \in Seq(Seq(Chars)), NEW token \in Seq(Chars)
  PROVE  /\ Push(tokens, token) \in Seq(Seq(Chars))
         /\ FlattenSeq(Push(tokens, token)) = FlattenSeq(tokens) \o Without(token, Spaces)
         /\ Len(Push(tokens, token)) = Len(tokens) + (IF token = <<>> THEN 0 ELSE 1)
         /\ Without(token, Spaces) = token /\ (\A i \in 1 .. Len(tokens) : tokens[i] # <<>>)
              => \A i \in 1 .. Len(Push(tokens, token)) : Push(tokens, token)[i] # <<>>
  <1> DEFINE SS == Seq(Chars)
             last == Without(token, Spaces)
  <1>1. last \in Seq(Chars)
    BY WithoutType
  <1>2. FlattenSeq(tokens) \in Seq(Chars)
    BY FlattenType, Zenon
  <1>3. Len(tokens) \in Nat
    <2>1. tokens \in Seq(SS)
      OBVIOUS
    <2> HIDE DEF SS
    <2> QED
      BY <2>1
  <1>4. CASE token = <<>>
    <2>1. Push(tokens, token) = tokens
      BY <1>4 DEF Push
    <2>2. last = <<>>
      BY <1>4, EncodeEmpty
    <2>3. FlattenSeq(tokens) \o last = FlattenSeq(tokens)
      BY <1>2, <2>2, ConcatEmptySeq
    <2>4. Len(Push(tokens, token)) = Len(tokens) + (IF token = <<>> THEN 0 ELSE 1)
      BY <1>3, <1>4, <2>1
    <2> QED
      BY <2>1, <2>3, <2>4, Zenon
  <1>5. CASE token # <<>>
    <2>1. Push(tokens, token) = Append(tokens, last)
      BY <1>5 DEF Push
    <2>2. tokens \in Seq(SS) /\ last \in SS
      BY <1>1
    <2>3. FlattenSeq(Append(tokens, last)) = FlattenSeq(tokens) \o last
      BY <1>1, FlattenAppend
    <2> HIDE DEF SS, last
    <2>4. /\ Append(tokens, last) \in Seq(SS) /\ Len(Append(tokens, last)) = Len(tokens) + 1
          /\ \A i \in 1 .. Len(tokens) : Append(tokens, last)[i] = tokens[i]
          /\ Append(tokens, last)[Len(tokens) + 1] = last
      BY <2>2, AppendProperties
    <2>5. ASSUME last = token, \A i \in 1 .. Len(tokens) : tokens[i] # <<>>,
                 NEW i \in 1 .. Len(tokens) + 1
          PROVE  Append(tokens, last)[i] # <<>>
      BY <1>3, <1>5, <2>4, <2>5
    <2>6. Len(Push(tokens, token)) = Len(tokens) + (IF token = <<>> THEN 0 ELSE 1)
      BY <1>3, <1>5, <2>1, <2>4
    <2>7. Push(tokens, token) \in Seq(SS)
      BY <2>1, <2>4
    <2>8. last = token /\ (\A i \in 1 .. Len(tokens) : tokens[i] # <<>>)
            => \A i \in 1 .. Len(Push(tokens, token)) : Push(tokens, token)[i] # <<>>
      BY <2>1, <2>4, <2>5
    <2> QED
      BY <2>1, <2>3, <2>6, <2>7, <2>8, Zenon DEF SS, last
  <1> QED
    BY <1>4, <1>5

\* What is left of a stream of getline after each of the characters.
Reads(after, chars, k) ==
  after = [n \in 0 .. k |->
             IF n = 0 THEN NothingRead
             ELSE Read(after[n - 1], ReplaceAll(chars, "space", "hash")[n])]

\* One character more is read from where the others were left.
LEMMA ReadsExtend ==
  ASSUME NEW chars, NEW k \in Nat, NEW f, Reads(f, chars, k)
  PROVE  \E g : Reads(g, chars, k + 1)
  <1> DEFINE sep(n) == ReplaceAll(chars, "space", "hash")[n]
             g == [n \in 0 .. k + 1 |-> IF n <= k THEN f[n] ELSE Read(f[k], sep(n))]
  <1> HIDE DEF sep
  <1>1. \A n \in 0 .. k : f[n] = IF n = 0 THEN NothingRead ELSE Read(f[n - 1], sep(n))
    BY Zenon DEF Reads, sep
  <1>2. \A n \in 0 .. k : g[n] = f[n]
    OBVIOUS
  <1>3. g[k + 1] = Read(f[k], sep(k + 1))
    OBVIOUS
  <1>4. g = [n \in 0 .. k + 1 |-> g[n]]
    OBVIOUS
  <1> HIDE DEF g
  <1>5. ASSUME NEW n \in 0 .. k + 1
        PROVE  g[n] = IF n = 0 THEN NothingRead ELSE Read(g[n - 1], sep(n))
    <2>1. CASE n \in 0 .. k
      <3>1. g[n] = f[n] /\ (n # 0 => g[n - 1] = f[n - 1])
        BY <1>2, <2>1
      <3> QED
        BY <1>1, <2>1, <3>1
    <2>2. CASE n = k + 1
      <3>1. n # 0 /\ g[n - 1] = f[k]
        BY <1>2, <2>2
      <3> QED
        BY <1>3, <2>2, <3>1
    <2> QED
      BY <2>1, <2>2
  <1>6. Reads(g, chars, k + 1)
    BY <1>4, <1>5, Zenon DEF Reads, sep
  <1> QED
    BY <1>6

\* There is such a function for any text.
LEMMA ReadsExist ==
  ASSUME NEW chars, NEW k \in Nat
  PROVE  \E f : Reads(f, chars, k)
  <1> DEFINE T == {n \in Nat : \E f : Reads(f, chars, n)}
  <1>1. 0 \in T
    <2> DEFINE f == [n \in 0 .. 0 |-> NothingRead]
    <2>1. f = [n \in 0 .. 0 |-> IF n = 0 THEN NothingRead
                                 ELSE Read(f[n - 1], ReplaceAll(chars, "space", "hash")[n])]
      OBVIOUS
    <2>2. Reads(f, chars, 0)
      BY <2>1, Zenon DEF Reads
    <2> QED
      BY <2>2
  <1>2. ASSUME NEW n \in Nat, n \in T  PROVE n + 1 \in T
    BY <1>2, ReadsExtend
  <1> HIDE DEF T
  <1>3. k \in T
    BY <1>1, <1>2, Induction
  <1> QED
    BY <1>3 DEF T

\* splitHashtags returns what such a function has read at the end of the text.
LEMMA SplitIs ==
  ASSUME NEW chars, Len(chars) \in Nat
  PROVE  \E after : /\ Reads(after, chars, Len(chars))
                    /\ SplitHashtags(chars) = Push(after[Len(chars)].tokens, after[Len(chars)].token)
  <1> DEFINE after == CHOOSE f : Reads(f, chars, Len(chars))
  <1>1. Reads(after, chars, Len(chars))
    BY ReadsExist
  <1>2. SplitHashtags(chars) = Push(after[Len(chars)].tokens, after[Len(chars)].token)
    BY Zenon DEF SplitHashtags, Reads
  <1> QED
    BY <1>1, <1>2

\* What ends a token: the delimiter, and what is made one.
Separators == {"hash", "space"}

\* The words of the text that start in its first n characters.
StartsUpTo(chars, n) == {i \in WordStarts(chars, Separators) : i <= n}

\* No tab, which a token may hold.
NoTab(chars) == \A i \in DOMAIN chars : chars[i] # "tab"

\* What has been read after n characters.
ReadOK(read, chars, n) ==
  /\ read.tokens \in Seq(Seq(Chars))
  /\ read.token \in Seq(Chars)
  /\ FlattenSeq(read.tokens) \o Without(read.token, Spaces)
       = Without(SubSeq(chars, 1, n), {"hash"} \cup Spaces)
  /\ read.token = <<>> <=> n = 0 \/ chars[n] \in Separators
  /\ IsFiniteSet(StartsUpTo(chars, n))
  /\ Len(read.tokens) + (IF read.token = <<>> THEN 0 ELSE 1) = Cardinality(StartsUpTo(chars, n))
  /\ NoTab(chars) => /\ \A i \in 1 .. Len(read.tokens) : read.tokens[i] # <<>>
                     /\ \A i \in DOMAIN read.token : read.token[i] \notin Spaces

\* Nothing has been read before the first character.
LEMMA ReadNothing ==
  ASSUME NEW chars \in Seq(Chars)
  PROVE  ReadOK(NothingRead, chars, 0)
  <1>1. SubSeq(chars, 1, 0) = <<>>
    BY SubSeqEmpty
  <1>2. StartsUpTo(chars, 0) = {}
    BY LenProperties DEF StartsUpTo, WordStarts
  <1>3. <<>> \in Seq(Seq(Chars)) /\ <<>> \in Seq(Chars) /\ <<>> \o <<>> = <<>> /\ Len(<<>>) = 0
    BY EmptySeq, ConcatEmptySeq, Zenon
  <1>4. NothingRead.tokens = <<>> /\ NothingRead.token = <<>>
    BY DEF NothingRead
  <1>5. IsFiniteSet(StartsUpTo(chars, 0)) /\ Cardinality(StartsUpTo(chars, 0)) = 0
    BY <1>2, FS_EmptySet, Zenon
  <1>6. FlattenSeq(<<>>) \o Without(<<>>, Spaces) = Without(SubSeq(chars, 1, 0), {"hash"} \cup Spaces)
    BY <1>1, <1>3, FlattenEmpty, EncodeEmpty, Zenon
  <1>7. Len(<<>>) + (IF <<>> = <<>> THEN 0 ELSE 1) = Cardinality(StartsUpTo(chars, 0))
    BY <1>5
  <1>8. \A i \in 1 .. Len(<<>>) : <<>>[i] # <<>>
    OBVIOUS
  <1>9. \A i \in DOMAIN <<>> : <<>>[i] \notin Spaces
    OBVIOUS
  <1> QED
    BY <1>3, <1>4, <1>5, <1>6, <1>7, <1>8, <1>9, Zenon DEF ReadOK

\* A prefix with one character more.
LEMMA PrefixGrows ==
  ASSUME NEW chars \in Seq(Chars), NEW n \in Nat, n + 1 \in 1 .. Len(chars)
  PROVE  /\ chars[n + 1] \in Chars
         /\ SubSeq(chars, 1, n) \in Seq(Chars)
         /\ SubSeq(chars, 1, n + 1) = Append(SubSeq(chars, 1, n), chars[n + 1])
  <1>1. chars[n + 1] \in Chars
    BY ElementOfSeq
  <1>2. SubSeq(chars, 1, n + 1) = SubSeq(chars, 1, (n + 1) - 1) \o <<chars[n + 1]>>
    <2>1. 1 \in 1 .. Len(chars) /\ n + 1 \in 1 .. Len(chars)
      BY LenProperties
    <2> QED
      BY <2>1, SubSeqRecursiveSecond
  <1>3. SubSeq(chars, 1, n) \in Seq(Chars)
    <2>1. \A i \in 1 .. n : chars[i] \in Chars
      BY LenProperties
    <2> QED
      BY <2>1, SubSeqProperties
  <1>4. (n + 1) - 1 = n
    OBVIOUS
  <1> QED
    BY <1>1, <1>2, <1>3, <1>4, AppendIsConcat

\* The piece between two separators is pushed.
LEMMA ReadSeparator ==
  ASSUME NEW chars \in Seq(Chars), NEW n \in Nat, n + 1 \in 1 .. Len(chars), NEW read,
         ReadOK(read, chars, n), chars[n + 1] \in Separators
  PROVE  ReadOK(Read(read, "hash"), chars, n + 1)
  <1> DEFINE tokens == read.tokens
             token == read.token
             next == Read(read, "hash")
             set == {"hash"} \cup Spaces
             c == chars[n + 1]
  <1>1. next.tokens = Push(tokens, token) /\ next.token = <<>>
    BY DEF Read
  <1>2. tokens \in Seq(Seq(Chars)) /\ token \in Seq(Chars)
    BY Zenon DEF ReadOK
  <1>3. /\ Push(tokens, token) \in Seq(Seq(Chars))
        /\ FlattenSeq(Push(tokens, token)) = FlattenSeq(tokens) \o Without(token, Spaces)
        /\ Len(Push(tokens, token)) = Len(tokens) + (IF token = <<>> THEN 0 ELSE 1)
        /\ Without(token, Spaces) = token /\ (\A i \in 1 .. Len(tokens) : tokens[i] # <<>>)
             => \A i \in 1 .. Len(Push(tokens, token)) : Push(tokens, token)[i] # <<>>
    BY <1>2, PushFacts
  <1>4. FlattenSeq(next.tokens) \o Without(next.token, Spaces) = Without(SubSeq(chars, 1, n + 1), set)
    <2>1. c \in Chars /\ c \in set
      BY LenProperties DEF Separators, Spaces
    <2>2. SubSeq(chars, 1, n) \in Seq(Chars) /\ SubSeq(chars, 1, n + 1) = Append(SubSeq(chars, 1, n), c)
      BY PrefixGrows
    <2>3. Without(SubSeq(chars, 1, n + 1), set) = Without(SubSeq(chars, 1, n), set)
      <3> DEFINE pre == SubSeq(chars, 1, n)
                 post == SubSeq(chars, 1, n + 1)
      <3>1. pre \in Seq(Chars) /\ post = Append(pre, c)
        BY <2>2
      <3> HIDE DEF c, set, pre, post
      <3>2. Without(Append(pre, c), set) = Without(pre, set)
        BY <2>1, <3>1, WithoutAppend
      <3> QED
        BY <3>1, <3>2 DEF pre, post
    <2>4. FlattenSeq(next.tokens) = Without(SubSeq(chars, 1, n), set)
      BY <1>1, <1>3, Zenon DEF ReadOK
    <2>5. Without(SubSeq(chars, 1, n), set) \in Seq(Chars)
      BY <2>2, WithoutType
    <2>6. FlattenSeq(next.tokens) \o <<>> = FlattenSeq(next.tokens)
      BY <2>4, <2>5, ConcatEmptySeq
    <2> QED
      BY <1>1, <2>3, <2>4, <2>6, EncodeEmpty, Zenon
  <1>5. next.token = <<>> <=> n + 1 = 0 \/ chars[n + 1] \in Separators
    BY <1>1
  <1>6. StartsUpTo(chars, n + 1) = StartsUpTo(chars, n)
    BY LenProperties DEF StartsUpTo, WordStarts
  <1>7. IsFiniteSet(StartsUpTo(chars, n))
        /\ Len(tokens) + (IF token = <<>> THEN 0 ELSE 1) = Cardinality(StartsUpTo(chars, n))
    BY Zenon DEF ReadOK
  <1>8. Len(next.tokens) + (IF next.token = <<>> THEN 0 ELSE 1) = Cardinality(StartsUpTo(chars, n + 1))
    <2>1. Cardinality(StartsUpTo(chars, n)) \in Nat
      BY <1>7, FS_CardinalityType
    <2>2. Len(next.tokens) = Cardinality(StartsUpTo(chars, n))
      BY <1>1, <1>3, <1>7, Zenon
    <2>3. Len(next.tokens) + (IF next.token = <<>> THEN 0 ELSE 1) = Len(next.tokens)
      BY <1>1, <2>1, <2>2
    <2> QED
      BY <1>6, <2>2, <2>3, Zenon
  <1>9. ASSUME NoTab(chars)
        PROVE  /\ \A i \in 1 .. Len(next.tokens) : next.tokens[i] # <<>>
               /\ \A i \in DOMAIN next.token : next.token[i] \notin Spaces
    <2>1. (\A i \in 1 .. Len(tokens) : tokens[i] # <<>>) /\ \A i \in DOMAIN token : token[i] \notin Spaces
      BY <1>9, Zenon DEF ReadOK
    <2>2. Without(token, Spaces) = token
      BY <1>2, <2>1, NothingWithout
    <2>3. \A i \in 1 .. Len(next.tokens) : next.tokens[i] # <<>>
      BY <1>1, <1>3, <2>1, <2>2, Zenon
    <2>4. \A i \in DOMAIN next.token : next.token[i] \notin Spaces
      BY <1>1
    <2> QED
      BY <2>3, <2>4
  <1>10. next.tokens \in Seq(Seq(Chars)) /\ next.token \in Seq(Chars)
    BY <1>1, <1>3, EmptySeq, Zenon
  <1> HIDE DEF next, tokens, token, set, c
  <1> QED
    BY <1>4, <1>5, <1>6, <1>7, <1>8, <1>9, <1>10, Zenon DEF ReadOK, next, set

\* Concatenation of texts is associative.
LEMMA CharsAssociative ==
  \A x, y, z \in Seq(Chars) : (x \o y) \o z = x \o (y \o z)
  BY ConcatAssociative

\* A character that is none joins the token.
LEMMA ReadCharacter ==
  ASSUME NEW chars \in Seq(Chars), NEW n \in Nat, n + 1 \in 1 .. Len(chars), NEW read,
         read = [tokens |-> read.tokens, token |-> read.token],
         ReadOK(read, chars, n), chars[n + 1] \notin Separators
  PROVE  ReadOK(Read(read, chars[n + 1]), chars, n + 1)
  <1> DEFINE tokens == read.tokens
             token == read.token
             next == Read(read, chars[n + 1])
             set == {"hash"} \cup Spaces
             c == chars[n + 1]
             pre == SubSeq(chars, 1, n)
             post == SubSeq(chars, 1, n + 1)
  <1>1. c # "hash" /\ c # "space"
    BY DEF Separators
  <1>2. next.tokens = tokens /\ next.token = Append(token, c)
    <2>1. next = [read EXCEPT !.token = Append(@, c)]
      BY <1>1 DEF Read
    <2> HIDE DEF next
    <2> QED
      BY <2>1
  <1>3. tokens \in Seq(Seq(Chars)) /\ token \in Seq(Chars)
    BY Zenon DEF ReadOK
  <1>4. c \in Chars /\ pre \in Seq(Chars) /\ post = Append(pre, c)
    BY PrefixGrows
  <1>5. FlattenSeq(tokens) \o Without(token, Spaces) = Without(pre, set)
    BY Zenon DEF ReadOK
  <1> HIDE DEF c, next, set, tokens, token, pre, post
  <1>6. FlattenSeq(tokens) \o Without(Append(token, c), Spaces) = Without(post, set)
    <2> DEFINE f == FlattenSeq(tokens)
               w == Without(token, Spaces)
               v == Without(pre, set)
    <2>1. f \in Seq(Chars) /\ w \in Seq(Chars) /\ v \in Seq(Chars)
      BY <1>3, <1>4, FlattenType, WithoutType, Zenon
    <2>2. Without(Append(token, c), Spaces) = IF c \in Spaces THEN w ELSE w \o <<c>>
      BY <1>3, <1>4, WithoutAppend
    <2>3. Without(post, set) = IF c \in set THEN v ELSE v \o <<c>>
      BY <1>4, WithoutAppend
    <2>4. c \in set <=> c \in Spaces
      BY <1>1 DEF set
    <2>5. f \o w = v
      BY <1>5
    <2> HIDE DEF f, w, v
    <2>6. (f \o w) \o <<c>> = f \o (w \o <<c>>)
      <3> DEFINE last == <<c>>
      <3>1. last \in Seq(Chars)
        BY <1>4
      <3> HIDE DEF last
      <3>2. (f \o w) \o last = f \o (w \o last)
        BY <2>1, <3>1, CharsAssociative, Zenon
      <3> QED
        BY <3>2 DEF last
    <2>7. f \o (IF c \in Spaces THEN w ELSE w \o <<c>>) = IF c \in set THEN v ELSE v \o <<c>>
      BY <2>4, <2>5, <2>6, Zenon
    <2> QED
      BY <2>2, <2>3, <2>7, Zenon DEF f
  <1>7. /\ Append(token, c) # <<>> /\ Append(token, c) \in Seq(Chars)
        /\ Len(Append(token, c)) = Len(token) + 1 /\ Append(token, c)[Len(token) + 1] = c
        /\ \A i \in 1 .. Len(token) : Append(token, c)[i] = token[i]
    BY <1>3, <1>4, AppendProperties
  <1>8. next.token = <<>> <=> n + 1 = 0 \/ chars[n + 1] \in Separators
    BY <1>2, <1>7
  <1>9. /\ token = <<>> <=> n = 0 \/ chars[n] \in Separators
        /\ IsFiniteSet(StartsUpTo(chars, n))
        /\ Len(tokens) + (IF token = <<>> THEN 0 ELSE 1) = Cardinality(StartsUpTo(chars, n))
    BY Zenon DEF ReadOK, tokens, token
  <1>10. Len(tokens) \in Nat
    <2> DEFINE SS == Seq(Chars)
    <2>1. tokens \in Seq(SS)
      BY <1>3
    <2> HIDE DEF SS
    <2> QED
      BY <2>1
  <1>11. IsFiniteSet(StartsUpTo(chars, n + 1))
        /\ Len(tokens) + 1 = Cardinality(StartsUpTo(chars, n + 1))
    <2>1. DOMAIN chars = 1 .. Len(chars) /\ Len(chars) \in Nat
      BY LenProperties
    <2>2. CASE token = <<>>
      <3>1. n + 1 \in WordStarts(chars, Separators)
        BY <1>9, <2>1, <2>2 DEF WordStarts
      <3>2. StartsUpTo(chars, n + 1) = StartsUpTo(chars, n) \cup {n + 1}
        BY <2>1, <3>1 DEF StartsUpTo, WordStarts
      <3>3. n + 1 \notin StartsUpTo(chars, n)
        BY DEF StartsUpTo
      <3>4. Cardinality(StartsUpTo(chars, n)) = Len(tokens)
        BY <1>9, <1>10, <2>2
      <3>5. IsFiniteSet(StartsUpTo(chars, n))
        BY <1>9
      <3>6. IsFiniteSet(StartsUpTo(chars, n) \cup {n + 1})
            /\ Cardinality(StartsUpTo(chars, n) \cup {n + 1}) = Cardinality(StartsUpTo(chars, n)) + 1
        BY <3>3, <3>5, FS_AddElement, Zenon
      <3> QED
        BY <3>2, <3>4, <3>6, Zenon
    <2>3. CASE token # <<>>
      <3>1. n + 1 \notin WordStarts(chars, Separators)
        BY <1>9, <2>1, <2>3 DEF WordStarts
      <3>2. StartsUpTo(chars, n + 1) = StartsUpTo(chars, n)
        BY <2>1, <3>1 DEF StartsUpTo, WordStarts
      <3> QED
        BY <1>9, <1>10, <2>3, <3>2
    <2> QED
      BY <2>2, <2>3
  <1>12. Len(next.tokens) + (IF next.token = <<>> THEN 0 ELSE 1) = Cardinality(StartsUpTo(chars, n + 1))
    BY <1>2, <1>7, <1>11, Zenon
  <1>13. ASSUME NoTab(chars)
        PROVE  /\ \A i \in 1 .. Len(next.tokens) : next.tokens[i] # <<>>
               /\ \A i \in DOMAIN next.token : next.token[i] \notin Spaces
    <2>1. (\A i \in 1 .. Len(tokens) : tokens[i] # <<>>) /\ \A i \in DOMAIN token : token[i] \notin Spaces
      BY <1>13, Zenon DEF ReadOK, tokens, token
    <2>2. c \notin Spaces
      <3>1. c # "tab"
        BY <1>13, LenProperties DEF NoTab, c
      <3> QED
        BY <1>1, <3>1 DEF Spaces
    <2>3. \A i \in 1 .. Len(token) + 1 : Append(token, c)[i] \notin Spaces
      BY <1>3, <1>7, <2>1, <2>2, LenProperties
    <2>4. DOMAIN Append(token, c) = 1 .. Len(token) + 1
      BY <1>7, LenProperties
    <2> QED
      BY <1>2, <2>1, <2>3, <2>4, Zenon
  <1>14. next.tokens \in Seq(Seq(Chars)) /\ next.token \in Seq(Chars)
    BY <1>2, <1>3, <1>7, Zenon
  <1>15. FlattenSeq(next.tokens) \o Without(next.token, Spaces) = Without(post, set)
    BY <1>2, <1>6, Zenon
  <1> QED
    BY <1>8, <1>11, <1>12, <1>13, <1>14, <1>15, Zenon DEF ReadOK, next, set, post

\* So what has been read is right at the end of the text.
LEMMA AfterIsOK ==
  ASSUME NEW chars \in Seq(Chars), NEW after, Reads(after, chars, Len(chars))
  PROVE  ReadOK(after[Len(chars)], chars, Len(chars))
  <1> DEFINE sep == ReplaceAll(chars, "space", "hash")
             Whole(read) == read = [tokens |-> read.tokens, token |-> read.token]
             T == {n \in Nat : n <= Len(chars) => Whole(after[n]) /\ ReadOK(after[n], chars, n)}
  <1>1. Len(chars) \in Nat
    BY LenProperties
  <1>2. \A n \in 0 .. Len(chars) : after[n] = IF n = 0 THEN NothingRead ELSE Read(after[n - 1], sep[n])
    BY Zenon DEF Reads
  <1>3. 0 \in T
    <2>1. after[0] = NothingRead
      BY <1>1, <1>2
    <2>2. Whole(NothingRead)
      BY DEF NothingRead
    <2>3. Whole(after[0]) /\ ReadOK(after[0], chars, 0)
      BY <2>1, <2>2, ReadNothing, Zenon
    <2> QED
      BY <2>3
  <1>4. ASSUME NEW n \in Nat, n \in T  PROVE n + 1 \in T
    <2> SUFFICES ASSUME n + 1 <= Len(chars)
                 PROVE  Whole(after[n + 1]) /\ ReadOK(after[n + 1], chars, n + 1)
      <3>1. n + 1 \in Nat
        OBVIOUS
      <3> QED
        BY <3>1, Zenon
    <2>1. n + 1 \in 1 .. Len(chars) /\ n <= Len(chars) /\ n + 1 # 0 /\ (n + 1) - 1 = n
      BY <1>1
    <2>2. Whole(after[n]) /\ ReadOK(after[n], chars, n)
      BY <1>4, <2>1, Zenon
    <2>3. after[n + 1] = Read(after[n], sep[n + 1])
      BY <1>1, <1>2, <2>1
    <2>4. sep[n + 1] = IF chars[n + 1] = "space" THEN "hash" ELSE chars[n + 1]
      BY <2>1 DEF ReplaceAll
    <2> HIDE DEF sep
    <2>5. CASE chars[n + 1] \in Separators
      <3>1. sep[n + 1] = "hash"
        BY <2>4, <2>5 DEF Separators
      <3>2. Whole(Read(after[n], "hash"))
        BY DEF Read
      <3> QED
        BY <2>1, <2>2, <2>3, <2>5, <3>1, <3>2, ReadSeparator, Zenon
    <2>6. CASE chars[n + 1] \notin Separators
      <3>1. sep[n + 1] = chars[n + 1] /\ chars[n + 1] # "hash"
        BY <2>4, <2>6 DEF Separators
      <3>2. Whole(Read(after[n], chars[n + 1]))
        BY <2>2, <3>1 DEF Read
      <3> QED
        BY <2>1, <2>2, <2>3, <2>6, <3>1, <3>2, ReadCharacter, Zenon
    <2> QED
      BY <2>5, <2>6
  <1> HIDE DEF T
  <1>5. Len(chars) \in T
    BY <1>1, <1>3, <1>4, Induction
  <1> QED
    BY <1>1, <1>5 DEF T

\* What splitHashtags returns of any text.
LEMMA TagsFacts ==
  ASSUME NEW chars \in Seq(Chars), NEW tags, tags = SplitHashtags(chars)
  PROVE  /\ FlattenSeq(tags) = Without(chars, {"hash"} \cup Spaces)
         /\ IsFiniteSet(WordStarts(chars, Separators))
         /\ Len(tags) = Cardinality(WordStarts(chars, Separators))
         /\ NoTab(chars) => \A i \in 1 .. Len(tags) : tags[i] # <<>>
  <1> DEFINE n == Len(chars)
             set == {"hash"} \cup Spaces
  <1>1. n \in Nat /\ DOMAIN chars = 1 .. n
    BY LenProperties
  <1>2. PICK after : Reads(after, chars, n) /\ tags = Push(after[n].tokens, after[n].token)
    BY <1>1, SplitIs
  <1> DEFINE tokens == after[n].tokens
             token == after[n].token
  <1>3. ReadOK(after[n], chars, n)
    BY <1>2, AfterIsOK
  <1>4. StartsUpTo(chars, n) = WordStarts(chars, Separators)
    BY <1>1 DEF StartsUpTo, WordStarts
  <1>5. SubSeq(chars, 1, n) = chars
    BY SubSeqFull
  <1>6. /\ tokens \in Seq(Seq(Chars))
        /\ token \in Seq(Chars)
        /\ FlattenSeq(tokens) \o Without(token, Spaces) = Without(chars, set)
        /\ IsFiniteSet(WordStarts(chars, Separators))
        /\ Len(tokens) + (IF token = <<>> THEN 0 ELSE 1) = Cardinality(WordStarts(chars, Separators))
        /\ NoTab(chars) => /\ \A i \in 1 .. Len(tokens) : tokens[i] # <<>>
                           /\ \A i \in DOMAIN token : token[i] \notin Spaces
    BY <1>3, <1>4, <1>5, Zenon DEF ReadOK
  <1> HIDE DEF tokens, token, set
  <1>7. /\ FlattenSeq(Push(tokens, token)) = FlattenSeq(tokens) \o Without(token, Spaces)
        /\ Len(Push(tokens, token)) = Len(tokens) + (IF token = <<>> THEN 0 ELSE 1)
        /\ Without(token, Spaces) = token /\ (\A i \in 1 .. Len(tokens) : tokens[i] # <<>>)
             => \A i \in 1 .. Len(Push(tokens, token)) : Push(tokens, token)[i] # <<>>
    BY <1>6, PushFacts, Zenon
  <1>8. tags = Push(tokens, token)
    BY <1>2 DEF tokens, token
  <1>9. NoTab(chars) => Without(token, Spaces) = token
    BY <1>6, NothingWithout, Zenon
  <1> QED
    BY <1>6, <1>7, <1>8, <1>9, Zenon DEF set

\* So the tags are the words of the text, whatever the text.
LEMMA TagsOfText ==
  ASSUME text \in Seq(Chars)
  PROVE  TagsAreWords
  <1> DEFINE tags == SplitHashtags(text)
             all == Append(text, "letter")
             starts == WordStarts(text, Separators)
             wider == WordStarts(all, {"hash"} \cup Spaces)
  <1>1. /\ FlattenSeq(tags) = Without(text, {"hash"} \cup Spaces)
        /\ IsFiniteSet(starts)
        /\ Len(tags) = Cardinality(starts)
        /\ NoTab(text) => \A i \in 1 .. Len(tags) : tags[i] # <<>>
    BY TagsFacts
  <1>2. ASSUME Accepts(text), NoTab(text)  PROVE Len(tags) <= MaxWords
    <2>1. /\ DOMAIN text = 1 .. Len(text) /\ Len(text) \in Nat
          /\ DOMAIN all = 1 .. Len(text) + 1
          /\ \A i \in 1 .. Len(text) : all[i] = text[i]
      <3>1. "letter" \in Chars
        BY DEF Chars
      <3> QED
        BY <3>1, LenProperties, AppendProperties
    <2> HIDE DEF all
    <2>2. starts \subseteq wider
      <3> SUFFICES ASSUME NEW i \in starts  PROVE i \in wider
        OBVIOUS
      <3>1. i \in 1 .. Len(text) /\ text[i] \notin Separators /\ (i = 1 \/ text[i - 1] \in Separators)
        BY <2>1 DEF WordStarts
      <3>2. text[i] # "tab"
        BY <1>2, <2>1, <3>1 DEF NoTab
      <3>3. i = 1 \/ i - 1 \in 1 .. Len(text)
        BY <3>1
      <3> QED
        BY <2>1, <3>1, <3>2, <3>3 DEF WordStarts, Separators, Spaces
    <2>3. wider \subseteq 1 .. Len(text) + 1
      BY <2>1 DEF WordStarts
    <2>4. IsFiniteSet(wider) /\ Cardinality(wider) \in Nat
      <3>1. IsFiniteSet(1 .. Len(text) + 1)
        BY <2>1, FS_Interval
      <3>2. IsFiniteSet(wider)
        BY <2>3, <3>1, FS_Subset, Zenon
      <3> QED
        BY <3>2, FS_CardinalityType
    <2>5. Cardinality(starts) <= Cardinality(wider)
      BY <2>2, <2>4, FS_Subset, Zenon
    <2>6. Cardinality(wider) <= MaxWords
      BY <1>2, Zenon DEF Accepts, all
    <2>7. Cardinality(starts) \in Nat /\ MaxWords \in Nat
      BY <1>1, FS_CardinalityType, MaxWordsAssumption
    <2> HIDE DEF starts, wider, tags
    <2> QED
      BY <1>1, <2>4, <2>5, <2>6, <2>7
  <1>3. ~Contains(text, "tab") => NoTab(text)
    BY LenProperties DEF Contains, NoTab
  <1>4. NoTab(text) => ~Contains(tags, <<>>)
    BY <1>1, Zenon DEF Contains
  <1>5. Separators = {"hash", "space"}
    BY DEF Separators
  <1> QED
    BY <1>1, <1>2, <1>3, <1>4, <1>5, Zenon DEF TagsAreWords

-----------------------------------------------------------------------------
(* Titles and hashtags of the typed text *)

\* Whatever is typed, the title sent is the text without the spaces around it,
\* or as much of that as fits, and the default when the text is blank.
THEOREM TitleIsRight == Spec => []TitleIsText
  <1>1. TypeOK => TitleIsText
    BY TitleOfText DEF TypeOK
  <1> QED
    BY <1>1, TypeCorrect, PTL

\* Whatever is typed, what the validator accepts becomes one tag for each of its
\* words, none empty and at most MaxWords unless there is a tab.
THEOREM TagsAreRight == Spec => []TagsAreWords
  <1>1. TypeOK => TagsAreWords
    BY TagsOfText DEF TypeOK
  <1> QED
    BY <1>1, TypeCorrect, PTL

\* The title that made a request throw is still the one of the text.
ThrewInvalid == request = "threw" => ~ValidUtf8(AnnotateTitle(Encode(text)))

\* The request of a title throws only when the cut at maxTitleLength went
\* through a character.
THEOREM ThrowsAreCuts == Spec => []ThrowsOnlyWhenCut
  <1>1. Init => ThrewInvalid
    BY DEF Init, ThrewInvalid
  <1>2. ThrewInvalid /\ [Next]_vars => ThrewInvalid'
    <2> SUFFICES ASSUME ThrewInvalid, [Next]_vars
                 PROVE  ThrewInvalid'
      OBVIOUS
    <2>1. ASSUME NEW c \in Chars, Type(c)
          PROVE  ThrewInvalid'
      BY <2>1 DEF Type, ThrewInvalid
    <2>2. CASE SendTitle
      BY <2>2 DEF SendTitle, ThrewInvalid
    <2>3. CASE UNCHANGED <<text, request>>
      BY <2>3 DEF ThrewInvalid
    <2>4. Release \/ Install => UNCHANGED <<text, request>>
      BY DEF Release, Install
    <2> QED
      BY <2>1, <2>2, <2>3, <2>4 DEF Next, vars
  <1>3. TypeOK /\ ThrewInvalid => ThrowsOnlyWhenCut
    BY InvalidIsCut DEF TypeOK, ThrewInvalid, ThrowsOnlyWhenCut
  <1> QED
    BY <1>1, <1>2, <1>3, TypeCorrect, PTL DEF Spec
=============================================================================
