----------------------------- MODULE TextProofs -----------------------------
(***************************************************************************)
(* Proofs about what becomes of text: what is stored of a call, what the   *)
(* voice is given, the points told to the people, the labels taken out of  *)
(* a reply, and the words and lines read of it.  For any recordings,       *)
(* letters, people, entries, words and lines; each component's proof       *)
(* stands alone, and none of the properties is inductive as it stands.     *)
(* AfterCallInd adds which files the jobs of a rendering took so far;      *)
(* StreamsInd, that what is kept back is the end of what came, and that    *)
(* what the voice got is one sentence, a flush, and the words behind it;   *)
(* NotesInd, that what was sent was made of the answer and of the notes    *)
(* taken, which EverybodysPoints follows from by counting the entries;     *)
(* LabelsInd, that what was passed on is what stands outside the labels up *)
(* to where something is held; WordingInd, that a case is a pair of words, *)
(* a text or a line and was read as that, and its loops are counted by     *)
(* their rounds.                                                           *)
(***************************************************************************)
EXTENDS AfterCall, Streams, Notes, Labels, Wording, FiniteSetTheorems, SequenceTheorems,
        WellFoundedInduction, TLAPS

\* A set of numbers that is not empty has a least: the numbers are well founded.
LEMMA LeastIsThere ==
  ASSUME NEW S \in SUBSET Nat, S # {}
  PROVE  \E n \in S : \A k \in S : n <= k
<1> DEFINE Less == {ss \in Nat \X Nat : ss[1] < ss[2]}
<1>1. IsWellFoundedOn(Less, Nat)
  BY NatLessThanWellFounded DEF OpToRel
<1>2. \A k, n \in Nat : <<k, n>> \in Less <=> k < n
  OBVIOUS
<1> HIDE DEF Less
<1>3. PICK n \in S : \A k \in S : ~(<<k, n>> \in Less)
  BY <1>1, WFMin
<1> SUFFICES ASSUME NEW k \in S PROVE n <= k
  OBVIOUS
<1>4. ~(k < n) /\ k \in Nat /\ n \in Nat
  BY <1>2, <1>3
<1> QED  BY <1>4

-----------------------------------------------------------------------------
(***************************************************************************)
(* AfterCall.  The jobs of a rendering take the sources one part after the *)
(* other, so once no source is left its results are of all of them; and a  *)
(* place in an order is the number of what is not after it, which is       *)
(* different for each of finitely many and leaves no place out.            *)
(***************************************************************************)

TotalOrder(R, S) ==
  /\ R \in SUBSET (S \X S)
  /\ \A a \in S : <<a, a>> \notin R
  /\ \A a, b \in S : a # b => <<a, b>> \in R \/ <<b, a>> \in R
  /\ \A a, b, c \in S : <<a, b>> \in R /\ <<b, c>> \in R => <<a, c>> \in R

\* At n is a member that is before all but n of S, if there is one.
RankedBy(R, S, s) ==
  /\ s = [n \in 1 .. Cardinality(S) |-> s[n]]
  /\ \A n \in 1 .. Cardinality(S) : \A a \in S :
       Cardinality({b \in S : <<a, b>> \notin R}) = n =>
         s[n] \in S /\ Cardinality({b \in S : <<s[n], b>> \notin R}) = n

Ordered(R, S, s) ==
  /\ Cardinality(S) \in Nat /\ s \in [1 .. Cardinality(S) -> S]
  /\ \A a \in S : \E n \in 1 .. Cardinality(S) : s[n] = a
  /\ \A i, j \in 1 .. Cardinality(S) : i < j => <<s[i], s[j]>> \in R

\* Ranked by a total order, all have a place, and later ones are after.
LEMMA RankedInOrder ==
  ASSUME NEW S, IsFiniteSet(S), NEW R, TotalOrder(R, S), NEW s, RankedBy(R, S, s)
  PROVE  Ordered(R, S, s)
<1> USE DEF TotalOrder, RankedBy
<1> DEFINE down(a) == {b \in S : <<a, b>> \notin R}
           rank == [a \in S |-> Cardinality(down(a))]
           c == Cardinality(S)
<1>1. c \in Nat
  BY FS_CardinalityType
<1>2. \A a \in S : rank[a] \in 1 .. c /\ IsFiniteSet(down(a))
  <2> SUFFICES ASSUME NEW a \in S PROVE rank[a] \in 1 .. c /\ IsFiniteSet(down(a))
    OBVIOUS
  <2>1. down(a) \in SUBSET S /\ a \in down(a)
    OBVIOUS
  <2>2. rank[a] = Cardinality(down(a))
    OBVIOUS
  <2> HIDE DEF down, rank
  <2>3. IsFiniteSet(down(a)) /\ Cardinality(down(a)) <= c
    BY <2>1, FS_Subset
  <2>4. Cardinality(down(a)) \in Nat /\ Cardinality(down(a)) # 0
    BY <2>1, <2>3, FS_CardinalityType, FS_EmptySet
  <2> HIDE DEF c
  <2> QED  BY <1>1, <2>2, <2>3, <2>4
<1>3. ASSUME NEW a \in S, NEW b \in S, <<a, b>> \in R PROVE rank[a] < rank[b]
  <2>1. \A d \in S : <<a, d>> \notin R => <<b, d>> \notin R
    BY <1>3
  <2>2. down(a) \in SUBSET down(b) /\ b \notin down(a) /\ b \in down(b)
    BY <1>3, <2>1
  <2>3. rank[a] = Cardinality(down(a)) /\ rank[b] = Cardinality(down(b))
    OBVIOUS
  <2>4. IsFiniteSet(down(b)) /\ rank[a] \in Nat /\ rank[b] \in Nat
    BY <1>2
  <2> HIDE DEF down, rank
  <2>5. Cardinality(down(a)) <= Cardinality(down(b))
        /\ Cardinality(down(a)) # Cardinality(down(b))
    BY <2>2, <2>4, FS_Subset
  <2> QED  BY <2>3, <2>4, <2>5
<1>4. rank \in Injection(S, 1 .. c)
  <2>1. \A a, b \in S : rank[a] = rank[b] => a = b
    <3> SUFFICES ASSUME NEW a \in S, NEW b \in S, rank[a] = rank[b], a # b PROVE FALSE
      OBVIOUS
    <3>1. rank[a] < rank[b] \/ rank[b] < rank[a]
      BY <1>3
    <3>2. rank[a] \in Nat /\ rank[b] \in Nat
      BY <1>2
    <3> HIDE DEF rank
    <3> QED  BY <3>1, <3>2
  <2>2. rank \in [S -> 1 .. c]
    BY <1>2
  <2> HIDE DEF rank
  <2> QED  BY <2>1, <2>2 DEF Injection, IsInjective
<1>5. rank \in Surjection(S, 1 .. c)
  <2>1. IsFiniteSet(1 .. c) /\ Cardinality(1 .. c) = c
    <3> HIDE DEF c
    <3> QED  BY <1>1, FS_Interval
  <2> HIDE DEF rank
  <2> QED  BY <1>4, <2>1, FS_Injection
<1>6. \A n \in 1 .. c : \E a \in S : rank[a] = n
  <2> HIDE DEF rank
  <2> QED  BY <1>5 DEF Surjection
<1>7. \A n \in 1 .. c : s[n] \in S /\ rank[s[n]] = n
  <2> SUFFICES ASSUME NEW n \in 1 .. c PROVE s[n] \in S /\ rank[s[n]] = n
    OBVIOUS
  <2>1. PICK a \in S : Cardinality(down(a)) = n
    BY <1>6
  <2>2. s[n] \in S /\ Cardinality(down(s[n])) = n
    BY <2>1
  <2> QED  BY <2>2
<1>8. \A a \in S : s[rank[a]] = a
  <2> HIDE DEF rank
  <2> QED  BY <1>2, <1>4, <1>7 DEF Injection, IsInjective
<1>9. \A i, j \in 1 .. c : i < j => <<s[i], s[j]>> \in R
  <2> SUFFICES ASSUME NEW i \in 1 .. c, NEW j \in 1 .. c, i < j, <<s[i], s[j]>> \notin R
               PROVE  FALSE
    OBVIOUS
  <2>1. s[i] \in S /\ s[j] \in S /\ rank[s[i]] = i /\ rank[s[j]] = j
    BY <1>7
  <2>2. s[i] # s[j] /\ ~(j < i)
    <3> HIDE DEF rank, c
    <3> QED  BY <1>1, <2>1
  <2>3. <<s[j], s[i]>> \in R
    BY <2>1, <2>2
  <2>4. rank[s[j]] < rank[s[i]]
    BY <1>3, <2>1, <2>3
  <2> HIDE DEF rank
  <2> QED  BY <2>1, <2>2, <2>4
<1>10. s \in [1 .. c -> S]
  <2>1. s = [n \in 1 .. c |-> s[n]]
    OBVIOUS
  <2> HIDE DEF c
  <2> QED  BY <1>7, <2>1
<1> HIDE DEF rank
<1> QED  BY <1>1, <1>2, <1>8, <1>9, <1>10 DEF Ordered

\* What is put in a total order is all there, later ones after earlier ones.
LEMMA InOrderIsOrdered ==
  ASSUME NEW S, IsFiniteSet(S), NEW R, TotalOrder(R, S), NEW s, s = inOrder(S, R)
  PROVE  Ordered(R, S, s)
<1> DEFINE c == Cardinality(S)
           notBefore(a) == Cardinality({b \in S : <<a, b>> \notin R})
           place(n) == CHOOSE a \in S : notBefore(a) = n
<1>1. s = [n \in 1 .. c |-> place(n)]
  BY DEF inOrder
<1>2. /\ s = [n \in 1 .. c |-> s[n]]
      /\ \A n \in 1 .. c : s[n] = place(n)
  <2> HIDE DEF place, c
  <2> QED  BY <1>1
<1>3. ASSUME NEW n \in 1 .. c, NEW a \in S, notBefore(a) = n
      PROVE  s[n] \in S /\ notBefore(s[n]) = n
  <2>1. s[n] = CHOOSE d \in S : notBefore(d) = n
    BY <1>2
  <2> HIDE DEF notBefore, c
  <2> QED  BY <1>3, <2>1
<1>4. RankedBy(R, S, s)
  BY <1>2, <1>3 DEF RankedBy
<1> QED  BY <1>4, RankedInOrder

\* The numbers of a finite set, the least first.
LEMMA NumbersInOrder ==
  ASSUME NEW S \in SUBSET Nat, IsFiniteSet(S), NEW s, s = leastFirst(S)
  PROVE  s \in Seq(S) /\ ToSet(s) = S
<1> DEFINE R == {p \in S \X S : p[1] < p[2]}
           c == Cardinality(S)
<1>1. TotalOrder(R, S)
  <2>1. \A a, b \in S : <<a, b>> \in R <=> a < b
    OBVIOUS
  <2>2. R \in SUBSET (S \X S)
    OBVIOUS
  <2> HIDE DEF R
  <2> QED  BY <2>1, <2>2 DEF TotalOrder
<1>2. s = inOrder(S, R)
  BY DEF leastFirst
<1> HIDE DEF R
<1>3. /\ c \in Nat /\ s \in [1 .. c -> S]
      /\ \A a \in S : \E n \in 1 .. c : s[n] = a
  BY <1>1, <1>2, InOrderIsOrdered DEF Ordered
<1> HIDE DEF c
<1>4. s \in Seq(S) /\ Len(s) = c /\ DOMAIN s = 1 .. c
  BY <1>3
<1> QED  BY <1>3, <1>4 DEF ToSet

\* The pieces of what was heard, as they were said.
LEMMA PiecesInOrder ==
  ASSUME NEW heard, NEW s, s = transcriptLines(heard),
         IsFiniteSet(pieces(heard)),
         \A p \in pieces(heard) : at(p, heard) \in Nat /\ p \in Nat \X Nat
  PROVE  /\ s \in Seq(pieces(heard)) /\ ToSet(s) = pieces(heard)
         /\ \A i, j \in 1 .. Len(s) : i < j => at(s[i], heard) <= at(s[j], heard)
<1> DEFINE S == pieces(heard)
           R == {e \in S \X S : earlier(e[1], e[2], heard)}
           c == Cardinality(S)
<1>1. s = inOrder(S, R)
  BY DEF transcriptLines
<1>2. /\ \A a, b \in S : <<a, b>> \in R <=> earlier(a, b, heard)
      /\ R \in SUBSET (S \X S)
  <2> HIDE DEF S
  <2> QED  OBVIOUS
<1>3. \A a \in S : at(a, heard) \in Nat /\ a[1] \in Nat /\ a[2] \in Nat /\ a = <<a[1], a[2]>>
  OBVIOUS
<1> HIDE DEF S, R
<1>4. \A a \in S : <<a, a>> \notin R
  BY <1>2, <1>3 DEF earlier
<1>5. \A a, b \in S : a # b => <<a, b>> \in R \/ <<b, a>> \in R
  <2> SUFFICES ASSUME NEW a \in S, NEW b \in S, a # b
               PROVE  earlier(a, b, heard) \/ earlier(b, a, heard)
    BY <1>2
  <2>1. a[1] # b[1] \/ a[2] # b[2]
    BY <1>3
  <2> DEFINE t == at(a, heard)
             u == at(b, heard)
  <2>2. /\ t \in Nat /\ a[1] \in Nat /\ a[2] \in Nat
        /\ u \in Nat /\ b[1] \in Nat /\ b[2] \in Nat
    BY <1>3
  <2> HIDE DEF t, u
  <2>3. t < u \/ u < t \/ t = u
    BY <2>2
  <2>4. a[1] < b[1] \/ b[1] < a[1] \/ (a[1] = b[1] /\ (a[2] < b[2] \/ b[2] < a[2]))
    BY <2>1, <2>2
  <2> QED  BY <2>3, <2>4 DEF earlier, t, u
<1>6. \A a, b, d \in S : <<a, b>> \in R /\ <<b, d>> \in R => <<a, d>> \in R
  <2> SUFFICES ASSUME NEW a \in S, NEW b \in S, NEW d \in S,
                      earlier(a, b, heard), earlier(b, d, heard)
               PROVE  earlier(a, d, heard)
    BY <1>2
  <2> DEFINE t == at(a, heard)
             u == at(b, heard)
             v == at(d, heard)
  <2>1. /\ t \in Nat /\ a[1] \in Nat /\ a[2] \in Nat
        /\ u \in Nat /\ b[1] \in Nat /\ b[2] \in Nat
        /\ v \in Nat /\ d[1] \in Nat /\ d[2] \in Nat
    BY <1>3
  <2>2. /\ t < u \/ (t = u /\ (a[1] < b[1] \/ (a[1] = b[1] /\ a[2] < b[2])))
        /\ u < v \/ (u = v /\ (b[1] < d[1] \/ (b[1] = d[1] /\ b[2] < d[2])))
    BY DEF earlier
  <2> HIDE DEF t, u, v
  <2>3. t < v \/ (t = v /\ (a[1] < d[1] \/ (a[1] = d[1] /\ a[2] < d[2])))
    BY <2>1, <2>2
  <2> QED  BY <2>3 DEF earlier, t, v
<1>7. /\ c \in Nat /\ s \in [1 .. c -> S]
       /\ \A a \in S : \E n \in 1 .. c : s[n] = a
       /\ \A i, j \in 1 .. c : i < j => <<s[i], s[j]>> \in R
  <2>1. IsFiniteSet(S)
    BY DEF S
  <2>2. TotalOrder(R, S)
    BY <1>2, <1>4, <1>5, <1>6 DEF TotalOrder
  <2> QED  BY <1>1, <2>1, <2>2, InOrderIsOrdered DEF Ordered
<1> HIDE DEF c
<1>8. s \in Seq(S) /\ Len(s) = c /\ DOMAIN s = 1 .. c
  BY <1>7
<1>9. \A i, j \in 1 .. c : i < j => at(s[i], heard) <= at(s[j], heard)
  <2> SUFFICES ASSUME NEW i \in 1 .. c, NEW j \in 1 .. c, i < j
               PROVE  at(s[i], heard) <= at(s[j], heard)
    OBVIOUS
  <2>1. s[i] \in S /\ s[j] \in S /\ earlier(s[i], s[j], heard)
    BY <1>2, <1>7
  <2>2. at(s[i], heard) \in Nat /\ at(s[j], heard) \in Nat
    BY <1>3, <2>1
  <2> QED  BY <2>1, <2>2 DEF earlier
<1>10. ToSet(s) = S
  BY <1>7, <1>8 DEF ToSet
<1> QED  BY <1>8, <1>9, <1>10 DEF S

\* What may be heard: of some recordings, one of the things that may be said.
Heard == UNION {[D -> Said0] : D \in SUBSET Recordings}

LEMMA PiecesAreFinite ==
  ASSUME NEW heard \in Heard
  PROVE  /\ IsFiniteSet(pieces(heard))
         /\ \A p \in pieces(heard) : at(p, heard) \in Nat /\ p \in Nat \X Nat
<1> DEFINE D == DOMAIN heard
           ofOne(r) == {<<r, i>> : i \in 1 .. Len(heard[r])}
           ofAll == {ofOne(r) : r \in D}
           P == [r \in D |-> ofOne(r)]
<1>1. /\ D \in SUBSET Recordings /\ IsFiniteSet(Recordings) /\ Recordings \subseteq Nat
      /\ \A r \in D : heard[r] \in Seq(Nat) /\ Began[r] \in Nat
  <2>1. PICK E \in SUBSET Recordings : heard \in [E -> Said0]
    BY DEF Heard
  <2>2. DOMAIN heard = E
    BY <2>1
  <2>3. \A r \in E : heard[r] \in Seq(Nat)
    BY <2>1, AfterCallAssumption
  <2>4. \A r \in E : Began[r] \in Nat
    BY AfterCallAssumption
  <2>5. IsFiniteSet(Recordings) /\ Recordings \subseteq Nat
    BY AfterCallAssumption
  <2> QED  BY <2>2, <2>3, <2>4, <2>5
<1>2. \A r \in D : IsFiniteSet(ofOne(r))
  <2> SUFFICES ASSUME NEW r \in D PROVE IsFiniteSet(ofOne(r))
    OBVIOUS
  <2>1. Len(heard[r]) \in Nat
    BY <1>1
  <2> DEFINE R == {r}
             T == 1 .. Len(heard[r])
  <2>2. IsFiniteSet(R) /\ IsFiniteSet(T)
    <3>1. IsFiniteSet(R)
      BY FS_Singleton
    <3>2. IsFiniteSet(T)
      <4> DEFINE m == Len(heard[r])
      <4>1. m \in Int /\ 1 \in Int
        BY <2>1
      <4> HIDE DEF m
      <4>2. IsFiniteSet(1 .. m)
        BY <4>1, FS_Interval
      <4> QED  BY <4>2 DEF m
    <3> QED  BY <3>1, <3>2
  <2>3. ofOne(r) = R \X T
    OBVIOUS
  <2>4. IsFiniteSet(R \X T)
    <3> HIDE DEF R, T
    <3> QED  BY <2>2, FS_Product
  <2> QED  BY <2>3, <2>4
<1>3. IsFiniteSet(D)
  <2> HIDE DEF D
  <2> QED  BY <1>1, FS_Subset
<1>4. P \in Surjection(D, ofAll)
  <2> HIDE DEF ofOne, D
  <2> QED  BY DEF Surjection
<1>5. IsFiniteSet(ofAll)
  <2> HIDE DEF P, ofAll, D
  <2> QED  BY <1>3, <1>4, FS_Surjection
<1>6. \A s \in ofAll : IsFiniteSet(s)
  <2> HIDE DEF ofOne, D
  <2> QED  BY <1>2
<1>7. pieces(heard) = UNION ofAll
  BY DEF pieces
<1>8. IsFiniteSet(pieces(heard))
  <2> HIDE DEF ofAll
  <2> QED  BY <1>5, <1>6, <1>7, FS_UNION
<1>9. \A p \in pieces(heard) : \E r \in D : \E i \in 1 .. Len(heard[r]) : p = <<r, i>>
  BY DEF pieces
<1>10. \A p \in pieces(heard) : at(p, heard) \in Nat /\ p \in Nat \X Nat
  <2> SUFFICES ASSUME NEW p \in pieces(heard) PROVE at(p, heard) \in Nat /\ p \in Nat \X Nat
    OBVIOUS
  <2>1. PICK r \in D : \E i \in 1 .. Len(heard[r]) : p = <<r, i>>
    BY <1>9
  <2>2. PICK i \in 1 .. Len(heard[r]) : p = <<r, i>>
    BY <2>1
  <2>3. heard[r] \in Seq(Nat) /\ Began[r] \in Nat /\ r \in Nat
    BY <1>1
  <2>4. heard[r][i] \in Nat /\ i \in Nat
    BY <2>3
  <2> HIDE DEF D
  <2> QED  BY <2>2, <2>3, <2>4 DEF at
<1> QED  BY <1>8, <1>10

AfterCallTypeOK ==
  /\ file \in [Recordings -> {"running", "finished", "skipped"}]
  /\ sources \in Seq(Recordings)
  /\ job \in [Renderings -> {"none", "created", "started", "completed", "done"}]
  /\ jobsDone \in [Renderings -> Nat]
  /\ jobFiles \in [Renderings -> SUBSET Recordings]
  /\ results \in [Renderings -> Heard]

\* The files of the jobs before the k-th.
filesBefore(k) == {sources[i] : i \in {i \in 1 .. Len(sources) : i <= k * FilesPerJob}}

JobInOrder(m) ==
  /\ job[m] = "none" => DOMAIN results[m] = filesBefore(jobsDone[m])
  /\ job[m] \in {"created", "started", "completed"} =>
       /\ jobFiles[m] = nextFiles(m)
       /\ filesBefore(jobsDone[m]) \subseteq DOMAIN results[m]
       /\ DOMAIN results[m] \subseteq filesBefore(jobsDone[m]) \cup jobFiles[m]
  /\ job[m] = "done" => DOMAIN results[m] = ToSet(sources)

Early == {"minutes", "polling", "reading"}
NoJobYet ==
  doing \in Early =>
    \A m \in Renderings : job[m] = "none" /\ jobsDone[m] = 0 /\ DOMAIN results[m] = {}

SourcesStand ==
  doing \in {"fetching", "transcribing"} \cup Stored =>
    stillRunning = {} /\ ToSet(sources) = finishedFiles

StoredAsHeard ==
  /\ doing \in Stored => /\ \A m \in Renderings : job[m] = "done"
                         /\ stored = [m \in Renderings |-> transcriptLines(results[m])]
  /\ doing \notin Stored => stored = NothingStored

AfterCallInd ==
  /\ AfterCallTypeOK /\ (\A m \in Renderings : JobInOrder(m))
  /\ NoJobYet /\ SourcesStand /\ StoredAsHeard

\* So a stored transcript is whole, and in order.
LEMMA StoredWholeInOrder == ASSUME AfterCallInd PROVE AfterCallInv
<1>1. CASE doing \in Stored
  <2>1. /\ \A m \in Renderings : job[m] = "done"
        /\ stored = [m \in Renderings |-> transcriptLines(results[m])]
    BY <1>1 DEF AfterCallInd, StoredAsHeard
  <2>2. ASSUME NEW m \in Renderings
        PROVE  /\ DOMAIN results[m] = finishedFiles
               /\ ToSet(stored[m]) = pieces(results[m])
               /\ \A i, j \in 1 .. Len(stored[m]) :
                    i < j => at(stored[m][i], results[m]) <= at(stored[m][j], results[m])
    <3>1. DOMAIN results[m] = ToSet(sources) /\ ToSet(sources) = finishedFiles
      BY <1>1, <2>1 DEF AfterCallInd, JobInOrder, SourcesStand
    <3>2. results[m] \in Heard
      BY DEF AfterCallInd, AfterCallTypeOK
    <3> DEFINE heard == results[m]
    <3>3. stored[m] = transcriptLines(heard)
      BY <2>1
    <3>4. /\ IsFiniteSet(pieces(heard))
          /\ \A p \in pieces(heard) : at(p, heard) \in Nat /\ p \in Nat \X Nat
      BY <3>2, PiecesAreFinite
    <3> HIDE DEF heard
    <3>5. /\ ToSet(stored[m]) = pieces(heard)
          /\ \A i, j \in 1 .. Len(stored[m]) :
               i < j => at(stored[m][i], heard) <= at(stored[m][j], heard)
      BY <3>3, <3>4, PiecesInOrder
    <3> QED  BY <3>1, <3>5 DEF heard
  <2>3. DOMAIN stored = Renderings
    BY <2>1
  <2> QED  BY <2>2, <2>3 DEF AfterCallInv, StoredIsWhole, LinesInOrder
<1>2. CASE doing \notin Stored
  <2>1. DOMAIN stored = {}
    BY <1>2 DEF AfterCallInd, StoredAsHeard, NothingStored
  <2> QED  BY <1>2, <2>1 DEF AfterCallInv, StoredIsWhole, LinesInOrder
<1> QED  BY <1>1, <1>2

\* Nothing of the jobs changes.
LEMMA JobsStay ==
  ASSUME AfterCallInd, UNCHANGED <<sources, jobVars>>
  PROVE  \A m \in Renderings : JobInOrder(m)'
BY DEF AfterCallInd, JobInOrder, nextFiles, filesBefore, jobVars

\* Recordings end, the minutes are kept, or it all ends.
LEMMA WaitingKeeps ==
  ASSUME AfterCallInd,
         \/ polled \/ (\E b \in BOOLEAN : keep(b)) \/ (\E r \in Recordings : download(r))
         \/ gaveUp("not made") \/ gaveUp("abandoned")
         \/ \E r \in Recordings : recordingEnds(r)
  PROVE  AfterCallInd'
<1> USE DEF AfterCallInd
<1>1. UNCHANGED <<sources, jobVars, stored>>
  BY DEF polled, keep, download, gaveUp, recordingEnds, fileVars
<1>2. UNCHANGED <<job, jobsDone, jobFiles, uploaded, results>>
  BY <1>1 DEF jobVars
<1>3. \A m \in Renderings : JobInOrder(m)'
  BY <1>1, JobsStay
<1>4. AfterCallTypeOK' /\ SourcesStand' /\ (doing' \in Early => doing \in Early)
      /\ (doing' \in Stored <=> doing \in Stored)
  <2>1. ASSUME NEW r \in Recordings, recordingEnds(r)
        PROVE  /\ AfterCallTypeOK' /\ SourcesStand' /\ doing' = doing
    <3>1. /\ doing' = doing /\ file[r] = "running"
          /\ \E f \in {"finished", "skipped"} : file' = [file EXCEPT ![r] = f]
      BY <2>1 DEF recordingEnds
    <3>2. r \in stillRunning
      BY <3>1 DEF stillRunning
    <3> QED  BY <1>1, <1>2, <3>1, <3>2 DEF AfterCallTypeOK, SourcesStand, Stored
  <2>2. CASE polled \/ (\E b \in BOOLEAN : keep(b)) \/ (\E r \in Recordings : download(r))
             \/ gaveUp("not made") \/ gaveUp("abandoned")
    <3>1. /\ file' = file
          /\ doing' \in {"fetching", "transcribing"} => doing = "fetching"
          /\ doing' \in Early => doing \in Early
          /\ doing' \notin Stored /\ doing \notin Stored
      BY <2>2 DEF polled, keep, download, gaveUp, fileVars, Over, Stored, Early
    <3> QED  BY <1>1, <1>2, <3>1 DEF AfterCallTypeOK, SourcesStand, Stored, stillRunning, finishedFiles
  <2> QED  BY <2>1, <2>2
<1>5. NoJobYet' /\ StoredAsHeard'
  BY <1>1, <1>2, <1>4 DEF NoJobYet, StoredAsHeard, Stored
<1> QED  BY <1>3, <1>4, <1>5

\* The recordings that finished are what is transcribed, the first first.
LEMMA ReadingKeeps == ASSUME AfterCallInd, readSources PROVE AfterCallInd'
<1> USE DEF AfterCallInd
<1>1. /\ doing = "reading" /\ UNCHANGED <<file, job, jobsDone, jobFiles, results, stored>>
      /\ sources' = leastFirst(finishedFiles)
      /\ doing' \in {"not made", "fetching"} /\ (doing' = "fetching" => stillRunning = {})
  BY DEF readSources, jobVars
<1>2. finishedFiles \in SUBSET Nat /\ IsFiniteSet(finishedFiles)
      /\ finishedFiles \in SUBSET Recordings
  <2>1. finishedFiles \in SUBSET Recordings
    BY DEF finishedFiles
  <2> QED  BY <2>1, AfterCallAssumption, FS_Subset
<1>3. sources' \in Seq(finishedFiles) /\ ToSet(sources') = finishedFiles
  BY <1>1, <1>2, NumbersInOrder
<1>4. sources' \in Seq(Recordings)
  <2> DEFINE s == sources'
             S == finishedFiles
  <2>1. s \in Seq(S) /\ S \subseteq Recordings
    BY <1>2, <1>3
  <2> HIDE DEF s, S
  <2>2. s \in [1 .. Len(s) -> S] /\ Len(s) \in Nat
    BY <2>1
  <2>3. s \in [1 .. Len(s) -> Recordings]
    BY <2>1, <2>2
  <2>4. s \in Seq(Recordings)
    BY <2>2, <2>3
  <2> QED  BY <2>4 DEF s
<1>5. AfterCallTypeOK'
  BY <1>1, <1>4 DEF AfterCallTypeOK
<1>6. SourcesStand'
  <2>1. stillRunning' = stillRunning /\ finishedFiles' = finishedFiles
    BY <1>1 DEF stillRunning, finishedFiles
  <2> QED  BY <1>1, <1>3, <2>1 DEF SourcesStand, Stored
<1>7. ASSUME NEW m \in Renderings PROVE JobInOrder(m)'
  <2>1. job'[m] = "none" /\ jobsDone'[m] = 0 /\ DOMAIN results'[m] = {}
    BY <1>1 DEF NoJobYet, Early
  <2>2. {i \in 1 .. Len(sources') : i <= 0 * FilesPerJob} = {}
    <3>1. 0 * FilesPerJob = 0
      BY AfterCallAssumption
    <3> QED  BY <3>1
  <2> QED  BY <2>1, <2>2 DEF JobInOrder, filesBefore
<1>8. NoJobYet' /\ StoredAsHeard'
  BY <1>1 DEF NoJobYet, StoredAsHeard, Stored, Early
<1> QED  BY <1>5, <1>6, <1>7, <1>8

\* What the jobs before the next but one took is what those before the next
\* did, and the next.
LEMMA NextFilesNext ==
  ASSUME AfterCallTypeOK, NEW m \in Renderings
  PROVE  filesBefore(jobsDone[m] + 1) = filesBefore(jobsDone[m]) \cup nextFiles(m)
<1> DEFINE d == jobsDone[m]
           a == d * FilesPerJob
           b == (d + 1) * FilesPerJob
<1>1. d \in Nat /\ FilesPerJob \in Nat /\ Len(sources) \in Nat
  BY AfterCallAssumption DEF AfterCallTypeOK
<1>2. a \in Nat /\ b \in Nat /\ a <= b
  <2> HIDE DEF d
  <2>1. b = a + FilesPerJob
    BY <1>1
  <2>2. a \in Nat
    BY <1>1
  <2> HIDE DEF a, b
  <2> QED  BY <1>1, <2>1, <2>2
<1>3. /\ filesBefore(d + 1) = {sources[i] : i \in {i \in 1 .. Len(sources) : i <= b}}
      /\ filesBefore(d) = {sources[i] : i \in {i \in 1 .. Len(sources) : i <= a}}
      /\ nextFiles(m) = {sources[i] : i \in {i \in 1 .. Len(sources) : a < i /\ i <= b}}
  BY DEF filesBefore, nextFiles
<1> HIDE DEF a, b
<1>4. \A i \in 1 .. Len(sources) : i <= b <=> i <= a \/ (a < i /\ i <= b)
  BY <1>1, <1>2
<1> HIDE DEF d
<1>5. filesBefore(d + 1) = filesBefore(d) \cup nextFiles(m)
  BY <1>3, <1>4
<1> QED  BY <1>5 DEF d

\* What the jobs take stays while none of them ends.
LEMMA FilesStay ==
  ASSUME NEW m \in Renderings, sources' = sources, jobsDone' = jobsDone
  PROVE  /\ nextFiles(m)' = nextFiles(m)
         /\ filesBefore(jobsDone[m])' = filesBefore(jobsDone[m])
         /\ ToSet(sources)' = ToSet(sources)
<1>1. nextFiles(m)' = nextFiles(m)
  BY DEF nextFiles
<1>2. filesBefore(jobsDone[m])' = filesBefore(jobsDone[m])
  BY DEF filesBefore
<1>3. ToSet(sources)' = ToSet(sources)
  BY DEF ToSet
<1> QED  BY <1>1, <1>2, <1>3

\* A step of one rendering's jobs.
LEMMA JobStepKeeps ==
  ASSUME AfterCallInd, NEW m \in Renderings,
         \/ create(m) \/ startJob(m) \/ jobDone(m)
         \/ \E t \in SUBSET jobFiles[m] : waited(m, t)
         \/ \E r \in Recordings :
              upload(m, r) \/ \E s \in Said0 : downloadOutput(m, r, s)
  PROVE  AfterCallInd'
<1> USE DEF AfterCallInd
<1>1. /\ UNCHANGED <<file, sources, stored>> /\ doing = "transcribing"
      /\ doing' \in {"transcribing", "not made"}
  BY DEF create, startJob, jobDone, waited, upload, downloadOutput, jobStays, fileVars
<1>2. /\ job \in [Renderings -> {"none", "created", "started", "completed", "done"}]
      /\ jobsDone \in [Renderings -> Nat] /\ jobFiles \in [Renderings -> SUBSET Recordings]
      /\ results \in [Renderings -> Heard] /\ sources \in Seq(Recordings)
      /\ JobInOrder(m)
  BY DEF AfterCallTypeOK
<1> DEFINE Keeps ==
             /\ job' \in [Renderings -> {"none", "created", "started", "completed", "done"}]
             /\ jobsDone' \in [Renderings -> Nat]
             /\ jobFiles' \in [Renderings -> SUBSET Recordings]
             /\ results' \in [Renderings -> Heard]
             /\ \A n \in Renderings \ {m} :
                  job'[n] = job[n] /\ jobsDone'[n] = jobsDone[n]
                  /\ jobFiles'[n] = jobFiles[n] /\ results'[n] = results[n]
             /\ JobInOrder(m)'
<1>3. Keeps
  <2>1. ASSUME create(m) PROVE Keeps
    <3>1. /\ job[m] = "none" /\ job' = [job EXCEPT ![m] = "created"]
          /\ jobFiles' = [jobFiles EXCEPT ![m] = nextFiles(m)]
          /\ UNCHANGED <<jobsDone, results>>
      BY <2>1 DEF create, jobGoesTo
    <3>2. nextFiles(m) \in SUBSET Recordings
      BY <1>2 DEF nextFiles
    <3>3. /\ job'[m] = "created" /\ jobFiles'[m] = nextFiles(m)
          /\ results'[m] = results[m] /\ jobsDone'[m] = jobsDone[m]
      BY <1>2, <3>1
    <3>4. JobInOrder(m)'
      BY <1>1, <1>2, <3>1, <3>3, FilesStay DEF JobInOrder
    <3> QED  BY <1>2, <3>1, <3>2, <3>4
  <2>2. ASSUME startJob(m) PROVE Keeps
    <3>1. /\ job[m] = "created" /\ job' = [job EXCEPT ![m] = "started"]
          /\ UNCHANGED <<jobsDone, jobFiles, results>>
      BY <2>2 DEF startJob, jobGoesTo
    <3>2. /\ job'[m] = "started" /\ jobFiles'[m] = jobFiles[m]
          /\ results'[m] = results[m] /\ jobsDone'[m] = jobsDone[m]
      BY <1>2, <3>1
    <3>3. JobInOrder(m)'
      BY <1>1, <1>2, <3>1, <3>2, FilesStay DEF JobInOrder
    <3> QED  BY <1>2, <3>1, <3>3
  <2>3. ASSUME NEW t \in SUBSET jobFiles[m], waited(m, t) PROVE Keeps
    <3>1. UNCHANGED <<jobsDone, results>> /\ job[m] = "started"
      BY <2>3 DEF waited
    <3>2. \/ UNCHANGED <<job, jobFiles>>
          \/ /\ job' = [job EXCEPT ![m] = "completed"] /\ t = jobFiles[m]
             /\ jobFiles' = [jobFiles EXCEPT ![m] = t]
      BY <2>3 DEF waited, _outputs, jobGoesTo
    <3>3. jobFiles' = jobFiles
      BY <1>2, <3>2
    <3>4. JobInOrder(m)'
      <4>1. /\ job'[m] \in {"started", "completed"} /\ jobFiles'[m] = jobFiles[m]
            /\ results'[m] = results[m] /\ jobsDone'[m] = jobsDone[m]
        BY <1>2, <3>1, <3>2, <3>3
      <4> QED  BY <1>1, <1>2, <3>1, <4>1, FilesStay DEF JobInOrder
    <3> QED  BY <1>2, <3>1, <3>2, <3>3, <3>4
  <2>4. ASSUME NEW r \in Recordings, upload(m, r) PROVE Keeps
    <3>1. UNCHANGED <<job, jobsDone, jobFiles, results>>
      BY <2>4 DEF upload
    <3>2. JobInOrder(m)'
      BY <1>1, <1>2, <3>1 DEF JobInOrder, filesBefore, nextFiles
    <3> QED  BY <1>2, <3>1, <3>2
  <2>5. ASSUME NEW r \in Recordings, NEW s \in Said0, downloadOutput(m, r, s) PROVE Keeps
    <3> DEFINE new == [q \in DOMAIN results[m] \cup {r} |-> IF q = r THEN s ELSE results[m][q]]
    <3>1. /\ job[m] = "completed" /\ r \in jobFiles[m]
          /\ UNCHANGED <<job, jobsDone, jobFiles>>
      BY <2>5 DEF downloadOutput
    <3>2. results' = [results EXCEPT ![m] = new]
      BY <1>2, <2>5 DEF downloadOutput
    <3>3. new \in Heard /\ DOMAIN new = DOMAIN results[m] \cup {r}
      <4>1. PICK D \in SUBSET Recordings : results[m] \in [D -> Said0]
        BY <1>2 DEF Heard
      <4>2. D \cup {r} \in SUBSET Recordings /\ new \in [D \cup {r} -> Said0]
        BY <4>1
      <4> QED  BY <4>2 DEF Heard
    <3> HIDE DEF new
    <3>4. results'[m] = new
      BY <1>2, <3>2
    <3>5. JobInOrder(m)'
      <4>1. /\ job'[m] = "completed" /\ jobFiles'[m] = jobFiles[m]
            /\ jobsDone'[m] = jobsDone[m]
        BY <3>1
      <4>2. DOMAIN results'[m] = DOMAIN results[m] \cup {r}
        BY <3>3, <3>4
      <4> QED  BY <1>1, <1>2, <3>1, <4>1, <4>2, FilesStay DEF JobInOrder
    <3> QED  BY <1>2, <3>1, <3>2, <3>3, <3>5
  <2>6. ASSUME jobDone(m) PROVE Keeps
    <3> DEFINE to == IF Len(sources) <= jobsDone'[m] * FilesPerJob THEN "done" ELSE "none"
    <3>1. /\ job[m] = "completed" /\ jobFiles[m] \subseteq DOMAIN results[m]
          /\ jobsDone' = [jobsDone EXCEPT ![m] = @ + 1] /\ job' = [job EXCEPT ![m] = to]
          /\ UNCHANGED <<jobFiles, results>>
      BY <2>6 DEF jobDone, jobGoesTo
    <3>2. jobsDone'[m] = jobsDone[m] + 1 /\ job'[m] = to
      BY <1>2, <3>1
    <3>3. DOMAIN results[m] = filesBefore(jobsDone[m] + 1)
      <4>1. filesBefore(jobsDone[m] + 1) = filesBefore(jobsDone[m]) \cup nextFiles(m)
        BY NextFilesNext
      <4>2. /\ jobFiles[m] = nextFiles(m)
            /\ filesBefore(jobsDone[m]) \subseteq DOMAIN results[m]
            /\ DOMAIN results[m] \subseteq filesBefore(jobsDone[m]) \cup jobFiles[m]
            /\ jobFiles[m] \subseteq DOMAIN results[m]
        BY <1>2, <3>1 DEF JobInOrder
      <4> QED  BY <4>1, <4>2
    <3>4. to = "done" => filesBefore(jobsDone[m] + 1) = ToSet(sources)
      <4> SUFFICES ASSUME Len(sources) <= (jobsDone[m] + 1) * FilesPerJob
                   PROVE  filesBefore(jobsDone[m] + 1) = ToSet(sources)
        BY <3>2
      <4> DEFINE b == (jobsDone[m] + 1) * FilesPerJob
      <4>1. filesBefore(jobsDone[m] + 1) = {sources[i] : i \in {i \in 1 .. Len(sources) : i <= b}}
        BY DEF filesBefore
      <4>2. b \in Nat /\ Len(sources) <= b /\ Len(sources) \in Nat
        <5>1. jobsDone[m] + 1 \in Nat /\ FilesPerJob \in Nat
          BY <1>2, AfterCallAssumption
        <5> QED  BY <1>2, <5>1
      <4> HIDE DEF b
      <4>3. {i \in 1 .. Len(sources) : i <= b} = 1 .. Len(sources)
        BY <4>2
      <4>4. DOMAIN sources = 1 .. Len(sources)
        BY <1>2
      <4> QED  BY <4>1, <4>3, <4>4 DEF ToSet
    <3>5. to \in {"none", "done"}
      OBVIOUS
    <3> HIDE DEF to
    <3>6. JobInOrder(m)'
      <4>1. results'[m] = results[m] /\ sources' = sources
        BY <1>1, <3>1
      <4>2. DOMAIN results'[m] =
              {sources'[i] : i \in {i \in 1 .. Len(sources') : i <= jobsDone'[m] * FilesPerJob}}
        BY <3>2, <3>3, <4>1 DEF filesBefore
      <4>3. job'[m] \in {"none", "done"} /\ (job'[m] = "done" => DOMAIN results'[m] = ToSet(sources)')
        BY <3>2, <3>3, <3>4, <3>5, <4>1 DEF ToSet
      <4> QED  BY <4>2, <4>3 DEF JobInOrder, filesBefore
    <3> QED  BY <1>2, <3>1, <3>5, <3>6
  <2> QED  BY <2>1, <2>2, <2>3, <2>4, <2>5, <2>6
<1>4. ASSUME NEW n \in Renderings PROVE JobInOrder(n)'
  <2>1. CASE n = m
    BY <1>3, <2>1
  <2>2. CASE n # m
    <3>1. JobInOrder(n)
      OBVIOUS
    <3>2. /\ job'[n] = job[n] /\ jobsDone'[n] = jobsDone[n]
          /\ jobFiles'[n] = jobFiles[n] /\ results'[n] = results[n] /\ sources' = sources
      BY <1>1, <1>3, <2>2
    <3> QED  BY <3>1, <3>2 DEF JobInOrder, filesBefore, nextFiles
  <2> QED  BY <2>1, <2>2
<1>5. AfterCallTypeOK'
  BY <1>1, <1>3 DEF AfterCallTypeOK
<1>6. NoJobYet' /\ SourcesStand' /\ StoredAsHeard'
  BY <1>1 DEF NoJobYet, SourcesStand, StoredAsHeard, Stored, Early, stillRunning, finishedFiles
<1> QED  BY <1>4, <1>5, <1>6

LEMMA SubmitKeeps == ASSUME AfterCallInd, submit PROVE AfterCallInd'
<1> USE DEF AfterCallInd
<1>1. /\ doing = "transcribing" /\ doing' \in Stored
      /\ \A m \in Renderings : job[m] = "done"
      /\ stored' = [m \in Renderings |-> transcriptLines(results[m])]
      /\ UNCHANGED <<file, sources, jobVars>>
      /\ UNCHANGED <<job, jobsDone, jobFiles, results>>
  BY DEF submit, fileVars, jobVars
<1>2. \A m \in Renderings : JobInOrder(m)'
  BY <1>1, JobsStay
<1>3. AfterCallTypeOK' /\ SourcesStand' /\ NoJobYet'
  BY <1>1 DEF AfterCallTypeOK, SourcesStand, Stored, NoJobYet, Early, stillRunning, finishedFiles
<1>4. StoredAsHeard'
  BY <1>1 DEF StoredAsHeard
<1> QED  BY <1>2, <1>3, <1>4

LEMMA AfterCallStarts == AfterCallInit => AfterCallInd
<1> SUFFICES ASSUME AfterCallInit PROVE AfterCallInd
  OBVIOUS
<1>1. NoResults \in Heard /\ DOMAIN NoResults = {}
  <2>1. NoResults \in [{} -> Said0] /\ {} \in SUBSET Recordings
    BY DEF NoResults
  <2> QED  BY <2>1 DEF Heard, NoResults
<1>2. sources = <<>> /\ sources \in Seq(Recordings) /\ 1 .. Len(sources) = {}
  <2>1. sources = <<>>
    BY DEF AfterCallInit
  <2>2. Len(<<>>) = 0 /\ 1 .. 0 = {}
    OBVIOUS
  <2> QED  BY <2>1, <2>2
<1>3. AfterCallTypeOK
  BY <1>1, <1>2 DEF AfterCallInit, AfterCallTypeOK
<1>4. ASSUME NEW m \in Renderings PROVE JobInOrder(m)
  <2>1. job[m] = "none" /\ DOMAIN results[m] = {}
    BY <1>1 DEF AfterCallInit
  <2>2. filesBefore(jobsDone[m]) = {}
    BY <1>2 DEF filesBefore
  <2> QED  BY <2>1, <2>2 DEF JobInOrder
<1>5. NoJobYet /\ SourcesStand /\ StoredAsHeard
  BY <1>1 DEF AfterCallInit, NoJobYet, SourcesStand, StoredAsHeard, Stored
<1> QED  BY <1>3, <1>4, <1>5 DEF AfterCallInd

\* Whatever is late, fails or ends meanwhile, a transcript that is stored has all
\* that was heard in every finished recording, in both renderings and in the
\* order in which it was said.
THEOREM StoredWhole == AfterCallSpec => []AfterCallInv
<1>1. AfterCallInd /\ [AfterCallNext]_afterCallVars => AfterCallInd'
  <2> SUFFICES ASSUME AfterCallInd, [AfterCallNext]_afterCallVars PROVE AfterCallInd'
    OBVIOUS
  <2>1. CASE UNCHANGED afterCallVars
    <3>1. /\ UNCHANGED <<doing, file, sources, jobVars, stored>>
          /\ UNCHANGED <<job, jobsDone, jobFiles, results>>
      BY <2>1 DEF afterCallVars, fileVars, jobVars
    <3>2. \A m \in Renderings : JobInOrder(m)'
      BY <3>1, JobsStay
    <3> QED  BY <3>1, <3>2 DEF AfterCallInd, AfterCallTypeOK, NoJobYet, SourcesStand,
                               StoredAsHeard, stillRunning, finishedFiles
  <2> QED  BY <2>1, WaitingKeeps, ReadingKeeps, JobStepKeeps, SubmitKeeps
           DEF AfterCallNext, AfterCallStep
<1> QED  BY <1>1, AfterCallStarts, StoredWholeInOrder, PTL DEF AfterCallSpec

-----------------------------------------------------------------------------
(***************************************************************************)
(* Streams.  The places of a set of them are listed in one way only, so    *)
(* the letters of two texts are those of the one and then of the other,    *)
(* and leaving out what is no letter leaves out none.                      *)
(***************************************************************************)
Lists(f, n, S) ==
  /\ n \in Nat /\ f \in [1 .. n -> S]
  /\ \A k \in S : \E i \in 1 .. n : f[i] = k
  /\ \A i, j \in 1 .. n : i < j => f[i] < f[j]

LEMMA PlacedLists ==
  ASSUME NEW S \in SUBSET Nat, IsFiniteSet(S)
  PROVE  Lists(placed(S), Cardinality(S), S)
<1> DEFINE R == {e \in S \X S : e[1] < e[2]}
           c == Cardinality(S)
           upTo0(k) == Cardinality({j \in S : j <= k})
           place(n) == CHOOSE k \in S : upTo0(k) = n
           s == placed(S)
<1>1. \A a, b \in S : <<a, b>> \in R <=> a < b
  OBVIOUS
<1>2. R \in SUBSET (S \X S)
  OBVIOUS
<1>3. \A a \in S : {b \in S : <<a, b>> \notin R} = {j \in S : j <= a}
  <2> SUFFICES ASSUME NEW a \in S
               PROVE  \A b \in S : <<a, b>> \notin R <=> b <= a
    OBVIOUS
  <2> HIDE DEF R
  <2> QED  BY <1>1
<1>4. TotalOrder(R, S)
  <2> HIDE DEF R
  <2> QED  BY <1>1, <1>2 DEF TotalOrder
<1>5. s = [n \in 1 .. c |-> place(n)]
  BY DEF placed
<1>6. /\ s = [n \in 1 .. c |-> s[n]]
      /\ \A n \in 1 .. c : s[n] = place(n)
  <2> HIDE DEF place, c, s
  <2> QED  BY <1>5
<1> HIDE DEF R
<1>7. ASSUME NEW n \in 1 .. c, NEW a \in S, Cardinality({b \in S : <<a, b>> \notin R}) = n
      PROVE  s[n] \in S /\ Cardinality({b \in S : <<s[n], b>> \notin R}) = n
  <2>1. upTo0(a) = n
    BY <1>3, <1>7
  <2>2. s[n] \in S /\ upTo0(s[n]) = n
    <3>1. s[n] = CHOOSE d \in S : upTo0(d) = n
      BY <1>6
    <3> HIDE DEF upTo0, c, s
    <3> QED  BY <2>1, <3>1
  <2> HIDE DEF s, c
  <2> QED  BY <1>3, <2>2
<1>8. RankedBy(R, S, s)
  <2> HIDE DEF s, place
  <2> QED  BY <1>6, <1>7 DEF RankedBy
<1>9. Ordered(R, S, s)
  BY <1>4, <1>8, RankedInOrder
<1>10. \A i, j \in 1 .. c : i < j => s[i] < s[j]
  <2> HIDE DEF s
  <2> QED  BY <1>1, <1>9 DEF Ordered
<1> HIDE DEF s
<1> QED  BY <1>9, <1>10 DEF Ordered, Lists, s

LEMMA ListedOnce ==
  ASSUME NEW S \in SUBSET Nat, NEW n, NEW f, Lists(f, n, S)
  PROVE  /\ IsFiniteSet(S) /\ n = Cardinality(S)
         /\ \A i \in 1 .. n : placed(S)[i] = f[i]
<1> USE DEF Lists
<1>1. \A i, j \in 1 .. n : i # j => f[i] # f[j]
  <2> SUFFICES ASSUME NEW i \in 1 .. n, NEW j \in 1 .. n, i # j PROVE f[i] # f[j]
    OBVIOUS
  <2>1. f[i] \in Nat /\ f[j] \in Nat
    OBVIOUS
  <2>2. i < j \/ j < i
    OBVIOUS
  <2> QED  BY <2>1, <2>2
<1>2. f \in Bijection(1 .. n, S)
  BY <1>1 DEF Bijection, Injection, Surjection, IsInjective
<1>3. IsFiniteSet(S) /\ Cardinality(S) = n
  <2>1. IsFiniteSet(1 .. n) /\ Cardinality(1 .. n) = n
    BY FS_Interval
  <2> QED  BY <1>2, <2>1, FS_Bijection DEF ExistsBijection
<1> DEFINE g == placed(S)
           D == {i \in 1 .. n : f[i] # g[i]}
<1>4. Lists(g, n, S)
  BY <1>3, PlacedLists
<1> HIDE DEF g
<1>5. ASSUME D # {} PROVE FALSE
  <2>1. D \in SUBSET Nat
    OBVIOUS
  <2>2. PICK i \in D : \A k \in D : i <= k
    <3> HIDE DEF D
    <3> QED  BY <1>5, <2>1, LeastIsThere
  <2>3. \A m \in 1 .. n : m < i => f[m] = g[m]
    BY <2>2
  <2>4. /\ i \in 1 .. n /\ f[i] # g[i]
        /\ f[i] \in Nat /\ g[i] \in Nat /\ f[i] \in S /\ g[i] \in S
    BY <1>4
  <2>5. CASE f[i] < g[i]
    <3>1. PICK m \in 1 .. n : g[m] = f[i]
      BY <1>4, <2>4
    <3>2. CASE m < i
      BY <1>1, <2>3, <2>4, <3>1, <3>2
    <3>3. CASE m = i
      BY <2>4, <3>1, <3>3
    <3>4. CASE i < m
      BY <1>4, <2>4, <2>5, <3>1, <3>4
    <3> QED  BY <2>4, <3>2, <3>3, <3>4
  <2>6. CASE g[i] < f[i]
    <3>1. PICK m \in 1 .. n : f[m] = g[i]
      BY <2>4
    <3>2. CASE m < i
      <4>1. g[m] = g[i] /\ g[m] < g[i]
        BY <1>4, <2>3, <2>4, <3>1, <3>2
      <4> QED  BY <4>1, <2>4
    <3>3. CASE m = i
      BY <2>4, <3>1, <3>3
    <3>4. CASE i < m
      BY <2>4, <2>6, <3>1, <3>4
    <3> QED  BY <2>4, <3>2, <3>3, <3>4
  <2> QED  BY <2>4, <2>5, <2>6
<1>6. \A i \in 1 .. n : placed(S)[i] = f[i]
  BY <1>5 DEF g
<1> QED  BY <1>3, <1>6

letterPlaces(t) == {k \in DOMAIN t : t[k] \in Alphabet}

LEMMA SomePlaces ==
  ASSUME NEW M, NEW t \in Seq(M), NEW S \in SUBSET DOMAIN t
  PROVE  S \in SUBSET Nat /\ IsFiniteSet(S)
<1>1. Len(t) \in Nat /\ DOMAIN t = 1 .. Len(t)
  OBVIOUS
<1>2. S \in SUBSET Nat /\ \A k \in S : k <= Len(t)
  BY <1>1
<1> QED  BY <1>1, <1>2, FS_BoundedSetOfNaturals

LEMMA LettersListed ==
  ASSUME NEW M, NEW t \in Seq(M), NEW n, NEW f, Lists(f, n, letterPlaces(t))
  PROVE  letters(t) = [i \in 1 .. n |-> t[f[i]]]
<1> DEFINE S == letterPlaces(t)
<1>1. S \in SUBSET DOMAIN t
  BY DEF letterPlaces
<1> HIDE DEF S
<1>2. S \in SUBSET Nat
  BY <1>1, SomePlaces
<1>3. n = Cardinality(S) /\ \A i \in 1 .. n : placed(S)[i] = f[i]
  BY <1>2, ListedOnce DEF S
<1>4. letters(t) = [i \in 1 .. Cardinality(S) |-> t[placed(S)[i]]]
  BY DEF letters, standing, S, letterPlaces
<1> QED  BY <1>3, <1>4

LEMMA LettersAre ==
  ASSUME NEW M, NEW t \in Seq(M)
  PROVE  \E n, f : Lists(f, n, letterPlaces(t))
<1> DEFINE S == letterPlaces(t)
<1>1. S \in SUBSET DOMAIN t
  BY DEF letterPlaces
<1> HIDE DEF S
<1>2. S \in SUBSET Nat /\ IsFiniteSet(S)
  BY <1>1, SomePlaces
<1>3. Lists(placed(S), Cardinality(S), S)
  BY <1>2, PlacedLists
<1> QED  BY <1>3 DEF S

LEMMA LettersTyped ==
  ASSUME NEW M, NEW t \in Seq(M)
  PROVE  letters(t) \in Seq(M)
<1>1. PICK n, f : Lists(f, n, letterPlaces(t))
  BY LettersAre
<1>2. letters(t) = [i \in 1 .. n |-> t[f[i]]]
  BY <1>1, LettersListed
<1>3. n \in Nat /\ \A i \in 1 .. n : f[i] \in DOMAIN t
  BY <1>1 DEF Lists, letterPlaces
<1> QED  BY <1>2, <1>3

LEMMA NoLetters ==
  ASSUME NEW M, NEW t \in Seq(M), \A k \in DOMAIN t : t[k] \notin Alphabet
  PROVE  letters(t) = << >>
<1>1. Lists(<< >>, 0, letterPlaces(t))
  BY DEF Lists, letterPlaces
<1>2. letters(t) = [i \in 1 .. 0 |-> t[(<< >>)[i]]]
  BY <1>1, LettersListed
<1> QED  BY <1>2

LEMMA LettersOfBoth ==
  ASSUME NEW M, NEW s \in Seq(M), NEW t \in Seq(M)
  PROVE  letters(s \o t) = letters(s) \o letters(t)
<1>1. PICK m, f : Lists(f, m, letterPlaces(s))
  BY LettersAre
<1>2. PICK n, g : Lists(g, n, letterPlaces(t))
  BY LettersAre
<1> DEFINE l == Len(s)
           both == s \o t
           h == [i \in 1 .. m + n |-> IF i <= m THEN f[i] ELSE l + g[i - m]]
<1>3. /\ l \in Nat /\ Len(t) \in Nat /\ DOMAIN s = 1 .. l /\ DOMAIN t = 1 .. Len(t)
      /\ both \in Seq(M) /\ DOMAIN both = 1 .. l + Len(t)
  OBVIOUS
<1>4. /\ \A i \in 1 .. l : both[i] = s[i]
      /\ \A i \in 1 .. Len(t) : both[l + i] = t[i]
  OBVIOUS
<1> HIDE DEF both, l
<1>5. /\ m \in Nat /\ \A i \in 1 .. m : f[i] \in 1 .. l /\ s[f[i]] \in Alphabet
      /\ \A k \in 1 .. l : s[k] \in Alphabet => \E i \in 1 .. m : f[i] = k
      /\ \A i, j \in 1 .. m : i < j => f[i] < f[j]
  BY <1>1, <1>3 DEF Lists, letterPlaces
<1>6. /\ n \in Nat /\ \A i \in 1 .. n : g[i] \in 1 .. Len(t) /\ t[g[i]] \in Alphabet
      /\ \A k \in 1 .. Len(t) : t[k] \in Alphabet => \E i \in 1 .. n : g[i] = k
      /\ \A i, j \in 1 .. n : i < j => g[i] < g[j]
  BY <1>2, <1>3 DEF Lists, letterPlaces
<1>7. /\ m + n \in Nat /\ DOMAIN h = 1 .. m + n
      /\ \A i \in 1 .. m : h[i] = f[i]
      /\ \A i \in m + 1 .. m + n : i - m \in 1 .. n /\ h[i] = l + g[i - m]
  BY <1>5, <1>6
<1>8. h = [i \in 1 .. m + n |-> h[i]]
  OBVIOUS
<1> HIDE DEF h
<1>9. \A i \in 1 .. m + n : h[i] \in letterPlaces(both)
  <2> SUFFICES ASSUME NEW i \in 1 .. m + n
               PROVE  h[i] \in 1 .. l + Len(t) /\ both[h[i]] \in Alphabet
    BY <1>3 DEF letterPlaces
  <2>1. CASE i <= m
    <3>1. i \in 1 .. m
      BY <2>1, <1>5
    <3>2. h[i] = f[i] /\ f[i] \in 1 .. l /\ s[f[i]] \in Alphabet
      BY <3>1, <1>5, <1>7
    <3> QED  BY <3>2, <1>3, <1>4
  <2>2. CASE ~(i <= m)
    <3>1. i \in m + 1 .. m + n
      BY <2>2, <1>5, <1>6
    <3>2. i - m \in 1 .. n /\ h[i] = l + g[i - m]
      BY <3>1, <1>7
    <3>3. g[i - m] \in 1 .. Len(t) /\ t[g[i - m]] \in Alphabet
      BY <3>2, <1>6
    <3> QED  BY <3>2, <3>3, <1>3, <1>4
  <2> QED  BY <2>1, <2>2
<1>10. \A k \in letterPlaces(both) : \E i \in 1 .. m + n : h[i] = k
  <2> SUFFICES ASSUME NEW k \in 1 .. l + Len(t), both[k] \in Alphabet
               PROVE  \E i \in 1 .. m + n : h[i] = k
    BY <1>3 DEF letterPlaces
  <2>1. CASE k <= l
    <3>1. k \in 1 .. l /\ s[k] \in Alphabet
      BY <2>1, <1>3, <1>4
    <3>2. PICK i \in 1 .. m : f[i] = k
      BY <3>1, <1>5
    <3>3. i \in 1 .. m + n /\ h[i] = k
      BY <3>2, <1>5, <1>6, <1>7
    <3> QED  BY <3>3
  <2>2. CASE ~(k <= l)
    <3>1. k - l \in 1 .. Len(t) /\ l + (k - l) = k
      BY <2>2, <1>3
    <3>2. t[k - l] \in Alphabet
      BY <3>1, <1>4
    <3>3. PICK i \in 1 .. n : g[i] = k - l
      BY <3>1, <3>2, <1>6
    <3>4. m + i \in m + 1 .. m + n /\ m + i \in 1 .. m + n /\ (m + i) - m = i
      BY <1>5, <1>6
    <3>5. h[m + i] = k
      BY <3>1, <3>3, <3>4, <1>7
    <3> QED  BY <3>4, <3>5
  <2> QED  BY <2>1, <2>2
<1>11. \A i, j \in 1 .. m + n : i < j => h[i] < h[j]
  <2> SUFFICES ASSUME NEW i \in 1 .. m + n, NEW j \in 1 .. m + n, i < j PROVE h[i] < h[j]
    OBVIOUS
  <2>1. CASE j <= m
    <3>1. i \in 1 .. m /\ j \in 1 .. m
      BY <2>1, <1>5, <1>6
    <3> QED  BY <3>1, <1>5, <1>7
  <2>2. CASE i <= m /\ ~(j <= m)
    <3>1. i \in 1 .. m /\ j \in m + 1 .. m + n
      BY <2>2, <1>5, <1>6
    <3>2. h[i] \in 1 .. l /\ h[j] = l + g[j - m] /\ g[j - m] \in 1 .. Len(t)
      BY <3>1, <1>5, <1>6, <1>7
    <3> QED  BY <3>2, <1>3
  <2>3. CASE ~(i <= m)
    <3>1. i \in m + 1 .. m + n /\ j \in m + 1 .. m + n
      BY <2>3, <1>5, <1>6
    <3>2. i - m \in 1 .. n /\ j - m \in 1 .. n /\ i - m < j - m
      BY <3>1, <1>5, <1>6
    <3>3. g[i - m] < g[j - m] /\ g[i - m] \in Nat /\ g[j - m] \in Nat
      BY <3>2, <1>6
    <3> QED  BY <3>1, <3>3, <1>3, <1>7
  <2> QED  BY <2>1, <2>2, <2>3
<1>12. Lists(h, m + n, letterPlaces(both))
  BY <1>7, <1>8, <1>9, <1>10, <1>11 DEF Lists
<1>13. letters(both) = [i \in 1 .. m + n |-> both[h[i]]]
  BY <1>3, <1>12, LettersListed
<1>14. letters(s) = [i \in 1 .. m |-> s[f[i]]] /\ letters(t) = [i \in 1 .. n |-> t[g[i]]]
  BY <1>1, <1>2, LettersListed
<1>15. \A i \in 1 .. m + n :
         both[h[i]] = IF i <= m THEN letters(s)[i] ELSE letters(t)[i - m]
  <2> SUFFICES ASSUME NEW i \in 1 .. m + n
               PROVE  both[h[i]] = IF i <= m THEN letters(s)[i] ELSE letters(t)[i - m]
    OBVIOUS
  <2>1. CASE i <= m
    <3>1. i \in 1 .. m
      BY <2>1, <1>5
    <3>2. letters(s)[i] = s[f[i]]
      BY <3>1, <1>14
    <3> QED  BY <2>1, <3>1, <3>2, <1>4, <1>5, <1>7
  <2>2. CASE ~(i <= m)
    <3>1. i \in m + 1 .. m + n
      BY <2>2, <1>5, <1>6
    <3>2. i - m \in 1 .. n /\ h[i] = l + g[i - m]
      BY <3>1, <1>7
    <3>3. letters(t)[i - m] = t[g[i - m]]
      BY <3>2, <1>14
    <3> QED  BY <2>2, <3>2, <3>3, <1>4, <1>6
  <2> QED  BY <2>1, <2>2
<1>16. /\ letters(s) \in Seq(M) /\ letters(t) \in Seq(M)
       /\ Len(letters(s)) = m /\ Len(letters(t)) = n
  BY <1>5, <1>6, <1>14, LettersTyped
<1>17. letters(both) = letters(s) \o letters(t)
  <2> DEFINE a == letters(s)
             b == letters(t)
             w == letters(both)
             q == m + n
             e(i) == both[h[i]]
  <2>1. /\ w \in Seq(M) /\ Len(w) = q
        /\ \A i \in 1 .. q : w[i] = both[h[i]]
    <3>1. w \in Seq(M)
      BY <1>3, LettersTyped
    <3>2. q \in Nat /\ w = [i \in 1 .. q |-> e(i)]
      BY <1>7, <1>13
    <3> HIDE DEF w, q, e
    <3>3. Len(w) = q /\ \A i \in 1 .. q : w[i] = e(i)
      BY <3>1, <3>2
    <3> QED  BY <3>1, <3>3 DEF e
  <2>2. /\ a \in Seq(M) /\ b \in Seq(M) /\ Len(a) = m /\ Len(b) = n
        /\ \A i \in 1 .. q : w[i] = IF i <= m THEN a[i] ELSE b[i - m]
    BY <1>15, <1>16, <2>1
  <2> HIDE DEF a, b, w
  <2>3. /\ a \o b \in Seq(M) /\ Len(a \o b) = m + n
        /\ \A i \in 1 .. m + n : (a \o b)[i] = IF i <= m THEN a[i] ELSE b[i - m]
    BY <2>2, ConcatProperties
  <2>4. w = a \o b
    <3> DEFINE ab == a \o b
    <3>1. ab \in Seq(M) /\ Len(ab) = q /\ \A i \in 1 .. q : ab[i] = w[i]
      BY <2>2, <2>3
    <3> HIDE DEF ab, q
    <3> QED  BY <2>1, <3>1, SeqEqual DEF ab
  <2> QED  BY <2>4 DEF a, b, w
<1> QED  BY <1>17 DEF both

\* Whatever is left out of a text, if no letter is, its letters stay.
LEMMA LettersStay ==
  ASSUME NEW M, NEW t \in Seq(M), NEW S \in SUBSET DOMAIN t,
         \A k \in DOMAIN t : t[k] \in Alphabet => k \in S
  PROVE  standing(t, S) \in Seq(M) /\ letters(standing(t, S)) = letters(t)
<1> DEFINE c == Cardinality(S)
           g == placed(S)
           u == standing(t, S)
<1>1. Lists(g, c, S)
  BY SomePlaces, PlacedLists
<1>2. u = [i \in 1 .. c |-> t[g[i]]]
  BY DEF standing
<1> HIDE DEF g, u, c
<1>3. /\ c \in Nat /\ \A i \in 1 .. c : g[i] \in S /\ g[i] \in DOMAIN t /\ g[i] \in Nat
      /\ \A k \in S : \E i \in 1 .. c : g[i] = k
      /\ \A i, j \in 1 .. c : i < j => g[i] < g[j]
  BY <1>1 DEF Lists
<1>4. u \in Seq(M) /\ DOMAIN u = 1 .. c /\ \A i \in 1 .. c : u[i] = t[g[i]]
  BY <1>2, <1>3
<1>5. PICK n, h : Lists(h, n, letterPlaces(u))
  BY <1>4, LettersAre
<1>6. /\ n \in Nat /\ \A i \in 1 .. n : h[i] \in 1 .. c /\ t[g[h[i]]] \in Alphabet
      /\ \A k \in 1 .. c : t[g[k]] \in Alphabet => \E i \in 1 .. n : h[i] = k
      /\ \A i, j \in 1 .. n : i < j => h[i] < h[j]
  BY <1>4, <1>5 DEF Lists, letterPlaces
<1> DEFINE f == [i \in 1 .. n |-> g[h[i]]]
<1>7. f = [i \in 1 .. n |-> f[i]] /\ \A i \in 1 .. n : f[i] = g[h[i]]
  OBVIOUS
<1> HIDE DEF f
<1>8. \A i \in 1 .. n : f[i] \in letterPlaces(t)
  BY <1>3, <1>6, <1>7 DEF letterPlaces
<1>9. \A k \in letterPlaces(t) : \E i \in 1 .. n : f[i] = k
  <2> SUFFICES ASSUME NEW k \in DOMAIN t, t[k] \in Alphabet PROVE \E i \in 1 .. n : f[i] = k
    BY DEF letterPlaces
  <2>1. PICK j \in 1 .. c : g[j] = k
    BY <1>3
  <2>2. PICK i \in 1 .. n : h[i] = j
    BY <1>6, <2>1
  <2> QED  BY <1>7, <2>1, <2>2
<1>10. \A i, j \in 1 .. n : i < j => f[i] < f[j]
  <2> TAKE i, j \in 1 .. n
  <2> HAVE i < j
  <2>1. h[i] \in 1 .. c /\ h[j] \in 1 .. c /\ h[i] < h[j]
    BY <1>6
  <2>2. g[h[i]] < g[h[j]]
    BY <1>3, <2>1
  <2> QED  BY <1>7, <2>2
<1>11. Lists(f, n, letterPlaces(t))
  BY <1>6, <1>7, <1>8, <1>9, <1>10 DEF Lists
<1>12. letters(t) = [i \in 1 .. n |-> t[f[i]]]
  BY <1>11, LettersListed
<1>13. letters(u) = [i \in 1 .. n |-> u[h[i]]]
  <2>1. u \in Seq(M)
    BY <1>4
  <2> QED  BY <2>1, <1>5, LettersListed
<1>14. \A i \in 1 .. n : t[f[i]] = u[h[i]]
  BY <1>4, <1>6, <1>7
<1>15. letters(u) = letters(t)
  BY <1>12, <1>13, <1>14
<1> QED  BY <1>4, <1>15 DEF u

\* Of some numbers the least and the greatest are among them.
LEMMA MinIs ==
  ASSUME NEW S \in SUBSET Nat, S # {}
  PROVE  Min(S) \in S /\ \A y0 \in S : Min(S) <= y0
<1>1. \E n \in S : \A k \in S : n <= k
  BY LeastIsThere
<1> QED  BY <1>1 DEF Min

LEMMA MaxIs ==
  ASSUME NEW n \in Nat, NEW S \in SUBSET (1 .. n), S # {}
  PROVE  Max(S) \in S /\ \A y0 \in S : y0 <= Max(S)
<1> DEFINE over0 == {b \in 0 .. n : \A k \in S : k <= b}
<1>1. over0 \in SUBSET Nat /\ n \in over0
  OBVIOUS
<1>2. PICK b \in over0 : \A k \in over0 : b <= k
  <2> HIDE DEF over0
  <2> QED  BY <1>1, LeastIsThere
<1>3. b \in S
  <2> SUFFICES ASSUME b \notin S PROVE FALSE
    OBVIOUS
  <2>1. \A k \in S : k <= b /\ k # b /\ k \in 1 .. n
    BY <1>2
  <2>2. b \in 1 .. n
    <3>1. PICK k \in S : TRUE
      OBVIOUS
    <3>2. k <= b /\ k # b /\ k \in 1 .. n /\ b \in 0 .. n
      BY <1>2, <2>1
    <3> QED  BY <3>2
  <2>3. b - 1 \in 0 .. n /\ \A k \in S : k <= b - 1
    BY <2>1, <2>2
  <2>4. b <= b - 1
    BY <1>2, <2>3
  <2> QED  BY <2>2, <2>4
<1>4. \E m \in S : \A k \in S : m >= k
  BY <1>2, <1>3
<1>5. Max(S) \in S /\ \A y0 \in S : Max(S) >= y0
  BY <1>4 DEF Max
<1> QED  BY <1>5

\* A piece is cut behind a blank, behind a number or before one only where a
\* line ends, and never behind a first character that does not end one.
wellCut(t, cut) ==
  \/ t[cut] = "n"
  \/ /\ t[cut] = " " /\ cut # 1 /\ t[cut - 1] # "1"
     /\ cut < Len(t) => t[cut + 1] # "1"

LEMMA CutAtEnd ==
  ASSUME NEW M, NEW t \in Seq(M), NEW cut \in sentenceEnds(t)
  PROVE  cut \in 1 .. Len(t) /\ wellCut(t, cut)
<1>1. cut \in DOMAIN t /\ DOMAIN t = 1 .. Len(t) /\ Len(t) \in Nat
  <2>1. cut \in DOMAIN t
    BY Zenon DEF sentenceEnds
  <2>2. DOMAIN t = 1 .. Len(t) /\ Len(t) \in Nat
    BY LenProperties
  <2> QED  BY <2>1, <2>2
<1>2. CASE t[cut] = "n"
  BY <1>1, <1>2 DEF wellCut
<1>3. CASE t[cut] # "n"
  <2>1. /\ t[cut] = " " /\ (cut < Len(t) => t[cut + 1] # "1")
        /\ \E j \in 1 .. cut - 1 : t[j] = "." /\ \A k \in j + 1 .. cut : t[k] \in Blanks
    BY <1>3 DEF sentenceEnds
  <2>2. PICK j \in 1 .. cut - 1 : t[j] = "." /\ \A k \in j + 1 .. cut : t[k] \in Blanks
    BY <2>1
  <2>3. cut # 1 /\ (cut - 1 = j \/ cut - 1 \in j + 1 .. cut)
    <3> cut \in Nat /\ j \in 1 .. cut - 1
      BY <1>1
    <3> QED  OBVIOUS
  <2>4. CASE cut - 1 = j
    <3>1. t[cut - 1] = "."
      BY <2>2, <2>4
    <3> QED  BY <1>1, <2>1, <2>3, <3>1, Zenon DEF wellCut
  <2>5. CASE cut - 1 \in j + 1 .. cut
    <3>1. t[cut - 1] # "1"
      BY <2>2, <2>5 DEF Blanks
    <3> QED  BY <1>1, <2>1, <2>3, <3>1, Zenon DEF wellCut
  <2> QED  BY <2>3, <2>4, <2>5
<1> QED  BY <1>2, <1>3

LEMMA CutWell ==
  ASSUME NEW M, NEW t \in Seq(M), NEW cut, cut = sentence_cut(t)
  PROVE  cut \in 0 .. Len(t) /\ (cut > 0 => wellCut(t, cut))
<1> DEFINE S == sentenceEnds(t)
           P == {k \in 2 .. Len(t) : t[k] = " " /\ t[k - 1] # "1" /\ (k < Len(t) => t[k + 1] # "1")}
<1>1. Len(t) \in Nat
  OBVIOUS
<1>2. S \in SUBSET (1 .. Len(t))
  BY CutAtEnd
<1>3. P \in SUBSET (1 .. Len(t))
  <2>1. \A k \in 2 .. Len(t) : k \in 1 .. Len(t)
    BY <1>1
  <2>2. P \subseteq 2 .. Len(t)
    OBVIOUS
  <2> QED  BY <2>1, <2>2, Zenon
<1>4. CASE S # {}
  <2>1. cut = Max(S)
    BY <1>4 DEF sentence_cut
  <2>2. cut \in S
    <3> HIDE DEF S
    <3> QED  BY <1>1, <1>2, <1>4, <2>1, MaxIs
  <2>3. cut \in 1 .. Len(t) /\ wellCut(t, cut)
    BY <2>2, CutAtEnd
  <2> HIDE DEF S, P
  <2> QED  BY <1>1, <2>3
<1>5. CASE S = {} /\ (Len(t) <= MAX_HELD \/ P = {})
  <2>1. cut = 0
    BY <1>5 DEF sentence_cut
  <2> HIDE DEF S, P
  <2> QED  BY <1>1, <2>1
<1>6. CASE S = {} /\ ~(Len(t) <= MAX_HELD \/ P = {})
  <2>1. cut = Max(P)
    BY <1>6 DEF sentence_cut
  <2>2. cut \in P
    <3> HIDE DEF P, S
    <3> QED  BY <1>1, <1>3, <1>6, <2>1, MaxIs
  <2>3. /\ cut \in 2 .. Len(t) /\ t[cut] = " " /\ t[cut - 1] # "1"
        /\ cut < Len(t) => t[cut + 1] # "1"
    BY <2>2
  <2>4. cut \in 0 .. Len(t) /\ cut # 1
    <3>1. cut \in 2 .. Len(t)
      BY <2>3
    <3> HIDE DEF S, P
    <3> QED  BY <1>1, <3>1
  <2> QED  BY <2>3, <2>4, Zenon DEF wellCut
<1> QED  BY <1>4, <1>5, <1>6

\* Where a stop has a blank behind it, and where the first of them ends.
starts(t) == {k \in 2 .. Len(t) : t[k - 1] = "." /\ t[k] \in Blanks}
blanksFrom(t, k, e) ==
  /\ e \in k .. Len(t) /\ \A j \in k .. e : t[j] \in Blanks
  /\ e < Len(t) => t[e + 1] \notin Blanks
sentenceIs(t, e) ==
  \E k \in starts(t) : (\A j \in starts(t) : k <= j) /\ blanksFrom(t, k, e)

LEMMA BlanksEndOnce ==
  ASSUME NEW M, NEW t \in Seq(M), NEW k \in 1 .. Len(t), NEW d, NEW e,
         blanksFrom(t, k, d), blanksFrom(t, k, e)
  PROVE  d = e
<1>1. Len(t) \in Nat /\ d \in Nat /\ e \in Nat
  BY DEF blanksFrom
<1>2. CASE d < e
  <2>1. d + 1 \in k .. e /\ d < Len(t)
    BY <1>1, <1>2 DEF blanksFrom
  <2> QED  BY <2>1 DEF blanksFrom
<1>3. CASE e < d
  <2>1. e + 1 \in k .. d /\ e < Len(t)
    BY <1>1, <1>3 DEF blanksFrom
  <2> QED  BY <2>1 DEF blanksFrom
<1> QED  BY <1>1, <1>2, <1>3

LEMMA BlanksEnd ==
  ASSUME NEW M, NEW t \in Seq(M), NEW k \in 1 .. Len(t), t[k] \in Blanks
  PROVE  \E e \in k .. Len(t) : blanksFrom(t, k, e)
<1> DEFINE N == {n \in k .. Len(t) : n < Len(t) => t[n + 1] \notin Blanks}
<1>1. N \in SUBSET Nat /\ Len(t) \in N /\ Len(t) \in Nat
  OBVIOUS
<1>2. PICK e \in N : \A n \in N : e <= n
  <2> HIDE DEF N
  <2> QED  BY <1>1, LeastIsThere
<1>3. \A j \in k .. e : t[j] \in Blanks
  <2> TAKE j \in k .. e
  <2>1. CASE j = k
    BY <2>1
  <2>2. CASE j # k
    <3>1. j - 1 \in k .. Len(t) /\ j - 1 < e /\ (j - 1) + 1 = j /\ j - 1 < Len(t)
      BY <1>1, <1>2, <2>2
    <3>2. j - 1 \notin N
      BY <1>2, <3>1
    <3> QED  BY <3>1, <3>2
  <2> QED  BY <2>1, <2>2
<1> QED  BY <1>2, <1>3 DEF blanksFrom

LEMMA FirstSentence ==
  ASSUME NEW M, NEW t \in Seq(M)
  PROVE  /\ starts(t) = {} => firstSentence(t) = 0
         /\ starts(t) # {} => sentenceIs(t, firstSentence(t))
         /\ \A e : sentenceIs(t, e) => firstSentence(t) = e
<1> DEFINE S == starts(t)
           k == Min(S)
<1>1. S = {} => firstSentence(t) = 0
  BY DEF starts, firstSentence
<1>2. S \in SUBSET Nat /\ \A j \in S : j \in 1 .. Len(t) /\ t[j] \in Blanks
  BY DEF starts
<1>3. S # {} => firstSentence(t) = CHOOSE e \in k .. Len(t) :
                                     /\ \A j \in k .. e : t[j] \in Blanks
                                     /\ e < Len(t) => t[e + 1] \notin Blanks
  BY DEF starts, firstSentence
<1>4. S # {} => k \in S /\ \A j \in S : k <= j
  <2> HIDE DEF S
  <2> QED  BY <1>2, MinIs
<1> HIDE DEF S, k
<1>5. ASSUME S # {} PROVE blanksFrom(t, k, firstSentence(t))
  <2>1. \E e \in k .. Len(t) : blanksFrom(t, k, e)
    BY <1>2, <1>4, <1>5, BlanksEnd
  <2> QED  BY <1>3, <1>5, <2>1 DEF blanksFrom
<1>6. S # {} => sentenceIs(t, firstSentence(t))
  BY <1>4, <1>5 DEF sentenceIs, S
<1>7. ASSUME NEW e, sentenceIs(t, e) PROVE firstSentence(t) = e
  <2>1. PICK i \in S : (\A j \in S : i <= j) /\ blanksFrom(t, i, e)
    BY <1>7 DEF sentenceIs, S
  <2>2. i = k
    <3>1. i \in Nat /\ k \in Nat /\ i <= k /\ k <= i
      BY <1>2, <1>4, <2>1
    <3> QED  BY <3>1
  <2>3. k \in 1 .. Len(t) /\ blanksFrom(t, k, firstSentence(t))
    BY <1>2, <1>4, <1>5, <2>1
  <2> QED  BY <2>1, <2>2, <2>3, BlanksEndOnce
<1> QED  BY <1>1, <1>6, <1>7 DEF S
\* A text is its front and what comes after it.
LEMMA Halves ==
  ASSUME NEW M, NEW t \in Seq(M), NEW n \in 0 .. Len(t)
  PROVE  /\ SubSeq(t, 1, n) \in Seq(M) /\ after(t, n) \in Seq(M)
         /\ Len(SubSeq(t, 1, n)) = n /\ Len(after(t, n)) = Len(t) - n
         /\ \A i \in 1 .. n : SubSeq(t, 1, n)[i] = t[i]
         /\ \A i \in 1 .. Len(t) - n : after(t, n)[i] = t[n + i]
         /\ t = SubSeq(t, 1, n) \o after(t, n)
<1> DEFINE a == SubSeq(t, 1, n)
           b == after(t, n)
<1>1. Len(t) \in Nat /\ n \in Nat /\ n <= Len(t)
  OBVIOUS
<1>2. a \in Seq(M) /\ Len(a) = n /\ \A i \in 1 .. n : a[i] = t[i]
  BY <1>1
<1>3. b \in Seq(M) /\ Len(b) = Len(t) - n /\ \A i \in 1 .. Len(t) - n : b[i] = t[n + i]
  <2>1. b = SubSeq(t, n + 1, Len(t))
    BY DEF after
  <2> HIDE DEF b
  <2> QED  BY <1>1, <2>1
<1> HIDE DEF a, b
<1>4. /\ a \o b \in Seq(M) /\ Len(a \o b) = Len(t)
      /\ \A i \in 1 .. Len(t) : (a \o b)[i] = IF i <= n THEN a[i] ELSE b[i - n]
  <2>1. Len(a) + Len(b) = Len(t)
    BY <1>1, <1>2, <1>3
  <2> QED  BY <1>2, <1>3, <2>1, ConcatProperties
<1>5. \A i \in 1 .. Len(t) : (a \o b)[i] = t[i]
  <2> TAKE i \in 1 .. Len(t)
  <2>1. CASE i <= n
    BY <1>1, <1>2, <1>4, <2>1
  <2>2. CASE ~(i <= n)
    <3>1. i - n \in 1 .. Len(t) - n /\ n + (i - n) = i
      BY <1>1, <2>2
    <3> QED  BY <1>3, <1>4, <2>2, <3>1
  <2> QED  BY <2>1, <2>2
<1>6. a \o b = t
  <2> DEFINE ab == a \o b
  <2>1. ab \in Seq(M) /\ Len(ab) = Len(t) /\ \A i \in 1 .. Len(t) : ab[i] = t[i]
    BY <1>4, <1>5
  <2> HIDE DEF ab
  <2> QED  BY <2>1, SeqEqual DEF ab
<1> QED  BY <1>2, <1>3, <1>6 DEF a, b

LEMMA LettersOfHalves ==
  ASSUME NEW M, NEW t \in Seq(M), NEW n \in 0 .. Len(t)
  PROVE  letters(t) = letters(SubSeq(t, 1, n)) \o letters(after(t, n))
<1> DEFINE a == SubSeq(t, 1, n)
           b == after(t, n)
<1>1. a \in Seq(M) /\ b \in Seq(M) /\ t = a \o b
  BY Halves
<1> HIDE DEF a, b
<1>2. letters(a \o b) = letters(a) \o letters(b)
  BY <1>1, LettersOfBoth
<1> QED  BY <1>1, <1>2 DEF a, b

\* No marker of a list holds a letter, so all of them are said.
LEMMA SpokenLetters ==
  ASSUME NEW t \in Seq(Marks)
  PROVE  spokenText(t) \in Seq(Marks) /\ letters(spokenText(t)) = letters(t)
<1> DEFINE S == DOMAIN t \ listMarkers(t)
<1>1. ASSUME NEW k \in DOMAIN t, t[k] \in Alphabet, k \in listMarkers(t) PROVE FALSE
  <2>1. PICK i \in 1 .. k, e \in k .. Len(t) : isMarker(SubSeq(t, i, e))
    BY <1>1 DEF listMarkers
  <2> DEFINE s == SubSeq(t, i, e)
  <2>2. Len(t) \in Nat /\ k \in 1 .. Len(t)
    BY LenProperties
  <2>3. k - i + 1 \in DOMAIN s /\ s[k - i + 1] = t[k]
    <3>1. i \in 1 .. Len(t) + 1 /\ e \in i - 1 .. Len(t) /\ k - i + 1 \in 1 .. e - i + 1
      BY <2>2
    <3>2. \A m \in 1 .. e - i + 1 : s[m] = t[i + m - 1]
      BY <3>1, SubSeqProperties
    <3>3. DOMAIN s = 1 .. e - i + 1
      <4>1. s \in Seq(Marks) /\ Len(s) = IF i <= e THEN e - i + 1 ELSE 0
        BY <3>1, SubSeqProperties
      <4>2. i <= e
        BY <2>2
      <4> HIDE DEF s
      <4> QED  BY <4>1, <4>2, LenProperties
    <3>4. i + (k - i + 1) - 1 = k
      BY <2>2
    <3> HIDE DEF s
    <3> QED  BY <3>1, <3>2, <3>3, <3>4
  <2>4. \A j \in DOMAIN s : s[j] \in {"1", ".", " "}
    <3>1. isMarker(s)
      BY <2>1
    <3> HIDE DEF s
    <3> QED  BY <3>1, Zenon DEF isMarker
  <2>5. t[k] \in {"1", ".", " "}
    BY <2>3, <2>4, Zenon
  <2> QED  BY <1>1, <2>5, StreamsAssumption, Zenon
<1>2. S \in SUBSET DOMAIN t /\ \A k \in DOMAIN t : t[k] \in Alphabet => k \in S
  BY <1>1
<1>3. standing(t, S) \in Seq(Marks) /\ letters(standing(t, S)) = letters(t)
  <2> HIDE DEF S
  <2> QED  BY <1>2, LettersStay
<1> QED  BY <1>3 DEF spokenText

Symbols == Marks \cup {"|"}

LEMMA TheMarks ==
  /\ \A x \in Blanks : x \notin Alphabet
  /\ "|" \notin Marks /\ "|" \notin Alphabet
  /\ \A s \in Seq(Marks) : s \in Seq(Symbols)
<1>1. "|" \notin Alphabet /\ \A x \in Blanks : x \notin Alphabet
  BY StreamsAssumption, Zenon DEF Blanks
<1>2. "|" \notin Marks
  BY <1>1 DEF Marks, Blanks
<1>3. ASSUME NEW s \in Seq(Marks) PROVE s \in Seq(Symbols)
  <2>1. Marks \in SUBSET Symbols
    BY DEF Symbols
  <2> HIDE DEF Symbols
  <2> QED  BY <2>1
<1> QED  BY <1>1, <1>2, <1>3

\* A text of blanks holds no letter.
LEMMA BlankHasNone ==
  ASSUME NEW M, NEW t \in Seq(M), isBlank(t)
  PROVE  letters(t) = << >>
<1>1. \A k \in DOMAIN t : t[k] \notin Alphabet
  BY TheMarks DEF isBlank
<1> QED  BY <1>1, NoLetters

\* What went to the voice: before the first sentence is whole all that came,
\* and afterwards that sentence, one flush, and the words that followed.
SaidFirst(b, begun, n) ==
  \E lead, tail \in Seq(Marks) :
    /\ b = (lead \o <<"|">>) \o tail /\ sentenceIs(lead, Len(lead))
    /\ begun <=> ~isBlank(tail)
    /\ n = IF isBlank(tail) THEN 0 ELSE 1

VoiceOK(v) ==
  /\ v \in [head: Seq(Marks), rest: Seq(Marks), led: BOOLEAN, restStarted: BOOLEAN,
            segments: Nat, buffer: Seq(Symbols)]
  /\ isBlank(v.rest)
  /\ ~v.led => /\ v.buffer = v.head /\ starts(v.head) = {} /\ v.rest = << >>
               /\ ~v.restStarted /\ v.segments = 0
  /\ v.led => SaidFirst(v.buffer, v.restStarted, v.segments)

LEMMA BlankBoth ==
  ASSUME NEW M, NEW s \in Seq(M), NEW t \in Seq(M)
  PROVE  isBlank(s \o t) <=> isBlank(s) /\ isBlank(t)
<1>1. /\ Len(s) \in Nat /\ Len(t) \in Nat /\ DOMAIN s = 1 .. Len(s) /\ DOMAIN t = 1 .. Len(t)
      /\ DOMAIN (s \o t) = 1 .. Len(s) + Len(t)
  OBVIOUS
<1>2. /\ \A i \in 1 .. Len(s) : (s \o t)[i] = s[i]
      /\ \A i \in 1 .. Len(t) : (s \o t)[Len(s) + i] = t[i]
  OBVIOUS
<1> DEFINE both == s \o t
           l == Len(s)
           m == Len(t)
<1>3. /\ l \in Nat /\ m \in Nat /\ DOMAIN s = 1 .. l /\ DOMAIN t = 1 .. m
      /\ DOMAIN both = 1 .. l + m /\ \A i \in 1 .. l : both[i] = s[i]
      /\ \A i \in 1 .. m : both[l + i] = t[i]
  BY <1>1, <1>2
<1> HIDE DEF both, l, m
<1>4. ASSUME isBlank(both) PROVE isBlank(s) /\ isBlank(t)
  <2>1. \A i \in 1 .. l : i \in 1 .. l + m
    BY <1>3
  <2>2. \A i \in 1 .. m : l + i \in 1 .. l + m
    BY <1>3
  <2> QED  BY <1>3, <1>4, <2>1, <2>2 DEF isBlank
<1>5. ASSUME isBlank(s), isBlank(t) PROVE isBlank(both)
  <2> SUFFICES ASSUME NEW i \in 1 .. l + m PROVE both[i] \in Blanks
    BY <1>3 DEF isBlank
  <2>1. CASE i \in 1 .. l
    BY <1>3, <1>5, <2>1 DEF isBlank
  <2>2. CASE i \notin 1 .. l
    <3>1. i - l \in 1 .. m /\ l + (i - l) = i
      BY <1>3, <2>2
    <3> QED  BY <1>3, <1>5, <3>1 DEF isBlank
  <2> QED  BY <2>1, <2>2
<1> QED  BY <1>4, <1>5 DEF both

LEMMA NoneBlank == isBlank(<< >>) /\ << >> \in Seq(Marks) /\ letters(<< >>) = << >>
<1>1. << >> \in Seq(Marks) /\ DOMAIN << >> = {}
  OBVIOUS
<1>2. isBlank(<< >>)
  BY <1>1 DEF isBlank
<1> QED  BY <1>1, <1>2, BlankHasNone

\* Behind the first sentence words are sent on, and blanks wait for words.
LEMMA Follows ==
  ASSUME NEW v, VoiceOK(v), v.led, NEW token \in Seq(Marks)
  PROVE  /\ VoiceOK(_follow(v, token))
         /\ letters(_follow(v, token).buffer) = letters(v.buffer) \o letters(token)
<1> DEFINE rest == v.rest \o token
<1>1. /\ v.head \in Seq(Marks) /\ v.rest \in Seq(Marks) /\ v.led = TRUE
      /\ v.restStarted \in BOOLEAN /\ v.segments \in Nat /\ v.buffer \in Seq(Symbols)
      /\ v = [head |-> v.head, rest |-> v.rest, led |-> v.led, restStarted |-> v.restStarted,
              segments |-> v.segments, buffer |-> v.buffer]
  BY DEF VoiceOK
<1>2. rest \in Seq(Marks)
  BY <1>1, ConcatProperties
<1>3. letters(rest) = letters(token) /\ letters(token) \in Seq(Marks)
  <2>1. letters(rest) = letters(v.rest) \o letters(token)
    BY <1>1, LettersOfBoth
  <2>2. letters(v.rest) = << >>
    BY <1>1, BlankHasNone DEF VoiceOK
  <2>3. letters(token) \in Seq(Marks)
    BY LettersTyped
  <2> HIDE DEF rest
  <2> QED  BY <2>1, <2>2, <2>3, ConcatEmptySeq
<1>4. PICK lead \in Seq(Marks), tail \in Seq(Marks) :
         /\ v.buffer = (lead \o <<"|">>) \o tail /\ sentenceIs(lead, Len(lead))
         /\ v.restStarted <=> ~isBlank(tail)
         /\ v.segments = IF isBlank(tail) THEN 0 ELSE 1
  BY Zenon DEF VoiceOK, SaidFirst
<1>5. letters(v.buffer) \in Seq(Symbols)
  BY <1>1, LettersTyped
<1>6. CASE isBlank(rest)
  <2> DEFINE w == [v EXCEPT !.rest = rest]
  <2>1. _follow(v, token) = w
    BY <1>6 DEF _follow
  <2>2. /\ w \in [head: Seq(Marks), rest: Seq(Marks), led: BOOLEAN, restStarted: BOOLEAN,
                  segments: Nat, buffer: Seq(Symbols)]
        /\ w.rest = rest /\ w.led = TRUE /\ w.buffer = v.buffer
        /\ w.restStarted = v.restStarted /\ w.segments = v.segments
    <3> HIDE DEF rest
    <3> QED  BY <1>1, <1>2
  <2> HIDE DEF w, rest
  <2>3. VoiceOK(w)
    <3>1. SaidFirst(w.buffer, w.restStarted, w.segments)
      BY <2>2, Zenon DEF VoiceOK
    <3> QED  BY <1>6, <2>2, <3>1, Zenon DEF VoiceOK
  <2>4. letters(token) = << >>
    BY <1>2, <1>3, <1>6, BlankHasNone
  <2>5. letters(v.buffer) \o << >> = letters(v.buffer)
    BY <1>5, ConcatEmptySeq
  <2> QED  BY <2>1, <2>2, <2>3, <2>4, <2>5, Zenon
<1>7. CASE ~isBlank(rest)
  <2> DEFINE w == [v EXCEPT !.rest = << >>, !.restStarted = TRUE, !.buffer = v.buffer \o rest,
                            !.segments = IF v.restStarted THEN v.segments ELSE v.segments + 1]
             on == v.buffer \o rest
             more == tail \o rest
             n == IF v.restStarted THEN v.segments ELSE v.segments + 1
  <2>1. _follow(v, token) = w
    BY <1>7 DEF _follow
  <2>2. on \in Seq(Symbols) /\ more \in Seq(Marks) /\ rest \in Seq(Symbols) /\ n = 1
    <3>1. rest \in Seq(Symbols)
      BY <1>2, TheMarks
    <3>2. on \in Seq(Symbols) /\ more \in Seq(Marks)
      <4> HIDE DEF rest
      <4> QED  BY <1>1, <1>2, <3>1, ConcatProperties
    <3>3. n = 1
      BY <1>4
    <3> QED  BY <3>1, <3>2, <3>3
  <2>3. /\ w \in [head: Seq(Marks), rest: Seq(Marks), led: BOOLEAN, restStarted: BOOLEAN,
                  segments: Nat, buffer: Seq(Symbols)]
        /\ w.rest = << >> /\ w.led = TRUE /\ w.buffer = on
        /\ w.restStarted = TRUE /\ w.segments = 1
    <3> DEFINE none0 == << >>
    <3>1. w = [v EXCEPT !.rest = none0, !.restStarted = TRUE, !.buffer = on, !.segments = n]
      OBVIOUS
    <3>2. none0 \in Seq(Marks)
      OBVIOUS
    <3> HIDE DEF on, n, w, none0, rest, more
    <3>3. w = [head |-> v.head, rest |-> none0, led |-> TRUE, restStarted |-> TRUE,
               segments |-> 1, buffer |-> on]
      BY <1>1, <2>2, <3>1
    <3> QED  BY <1>1, <2>2, <3>2, <3>3 DEF none0
  <2>4. ~isBlank(more)
    <3> HIDE DEF rest
    <3> QED  BY <1>2, <1>7, BlankBoth
  <2>5. on = (lead \o <<"|">>) \o more
    <3>1. lead \in Seq(Symbols) /\ tail \in Seq(Symbols) /\ <<"|">> \in Seq(Symbols)
      BY TheMarks DEF Symbols
    <3>2. lead \o <<"|">> \in Seq(Symbols)
      BY <3>1, ConcatProperties
    <3> DEFINE x == lead \o <<"|">>
    <3>3. on = (x \o tail) \o rest
      BY <1>4
    <3> HIDE DEF rest, x, on, more
    <3>4. (x \o tail) \o rest = x \o (tail \o rest)
      <4>1. x \in Seq(Symbols) /\ tail \in Seq(Symbols) /\ rest \in Seq(Symbols)
        BY <2>2, <3>1, <3>2 DEF x
      <4> QED  BY ONLY <4>1, ConcatAssociative
    <3> QED  BY <3>3, <3>4 DEF x, more
  <2>6. letters(on) = letters(v.buffer) \o letters(token)
    <3>1. letters(on) = letters(v.buffer) \o letters(rest)
      <4> HIDE DEF rest
      <4> QED  BY <1>1, <2>2, LettersOfBoth
    <3> QED  BY <1>3, <3>1
  <2> HIDE DEF w, rest, on, more, n
  <2>7. VoiceOK(w)
    <3>1. SaidFirst(w.buffer, w.restStarted, w.segments)
      <4>1. /\ w.buffer = (lead \o <<"|">>) \o more /\ sentenceIs(lead, Len(lead))
            /\ w.restStarted <=> ~isBlank(more)
            /\ w.segments = IF isBlank(more) THEN 0 ELSE 1
        BY <1>4, <2>3, <2>4, <2>5, Zenon
      <4> QED  BY <2>2, <4>1, Zenon DEF SaidFirst
    <3> QED  BY <2>3, <3>1, NoneBlank, Zenon DEF VoiceOK
  <2> QED  BY <2>1, <2>3, <2>6, <2>7, Zenon
<1> QED  BY <1>6, <1>7

\* The first sentence of what came ends within the piece that brought it, and
\* cut off there it is one still.
LEMMA SentenceEndsIn ==
  ASSUME NEW s \in Seq(Marks), NEW t \in Seq(Marks), starts(s) = {},
         NEW e, sentenceIs(s \o t, e)
  PROVE  /\ e \in Len(s) + 1 .. Len(s) + Len(t)
         /\ sentenceIs(SubSeq(s \o t, 1, e), e)
<1> DEFINE both == s \o t
           l == Len(s)
           m == Len(t)
<1>1. /\ l \in Nat /\ m \in Nat /\ both \in Seq(Marks) /\ Len(both) = l + m
      /\ \A i \in 1 .. l : both[i] = s[i]
  <2>1. /\ s \o t \in Seq(Marks) /\ Len(s \o t) = Len(s) + Len(t)
        /\ \A i \in 1 .. Len(s) + Len(t) :
             (s \o t)[i] = IF i <= Len(s) THEN s[i] ELSE t[i - Len(s)]
    BY ConcatProperties
  <2>2. Len(s) \in Nat /\ Len(t) \in Nat
    OBVIOUS
  <2>3. \A i \in 1 .. Len(s) : i \in 1 .. Len(s) + Len(t) /\ i <= Len(s)
    BY <2>2
  <2> QED  BY <2>1, <2>2, <2>3
<1> HIDE DEF both, l, m
<1>2. PICK k \in starts(both) : (\A j \in starts(both) : k <= j) /\ blanksFrom(both, k, e)
  BY DEF sentenceIs, both
<1>3. k \in 2 .. l + m /\ both[k - 1] = "." /\ both[k] \in Blanks
  BY <1>1, <1>2 DEF starts
<1>4. e \in k .. l + m /\ \A j \in k .. e : both[j] \in Blanks
  BY <1>1, <1>2 DEF blanksFrom
<1>5. ~(k <= l)
  <2> SUFFICES ASSUME k <= l PROVE FALSE
    OBVIOUS
  <2>1. k \in 1 .. l /\ k - 1 \in 1 .. l /\ k \in 2 .. l
    <3>1. k \in 2 .. l + m
      BY <1>3
    <3> QED  BY <1>1, <3>1
  <2>2. s[k - 1] = "." /\ s[k] \in Blanks
    BY <1>1, <1>3, <2>1
  <2>3. k \in starts(s)
    BY <2>1, <2>2 DEF starts, l
  <2> QED  BY <2>3
<1>6. e \in l + 1 .. l + m /\ e \in 0 .. l + m /\ k \in 2 .. e /\ e \in k .. e /\ e \in Nat
  <2>1. k \in 2 .. l + m /\ e \in k .. l + m
    BY <1>3, <1>4
  <2> QED  BY <1>1, <1>5, <2>1
<1> DEFINE u == SubSeq(both, 1, e)
<1>7. u \in Seq(Marks) /\ Len(u) = e /\ \A i \in 1 .. e : u[i] = both[i]
  BY <1>1, <1>6, Halves
<1> HIDE DEF u
<1>8. \A j \in 2 .. e : j \in 1 .. e /\ j - 1 \in 1 .. e /\ j \in 2 .. l + m
  BY <1>1, <1>6
<1>9. k \in starts(u) /\ \A j \in starts(u) : j \in starts(both)
  <2>1. u[k - 1] = "." /\ u[k] \in Blanks
    BY <1>3, <1>6, <1>7, <1>8
  <2>2. k \in starts(u)
    BY <1>6, <1>7, <2>1 DEF starts
  <2>3. ASSUME NEW j \in starts(u) PROVE j \in starts(both)
    <3>1. j \in 2 .. e /\ u[j - 1] = "." /\ u[j] \in Blanks
      BY <1>7 DEF starts
    <3>2. j \in 2 .. l + m /\ both[j - 1] = "." /\ both[j] \in Blanks
      BY <1>7, <1>8, <3>1
    <3> QED  BY <1>1, <3>2 DEF starts
  <2> QED  BY <2>2, <2>3
<1>10. blanksFrom(u, k, e)
  <2>1. \A j \in k .. e : j \in 1 .. e
    BY <1>6
  <2>2. \A j \in k .. e : u[j] \in Blanks
    BY <1>4, <1>7, <2>1
  <2>3. ~(e < e)
    BY <1>6
  <2> QED  BY <1>6, <1>7, <2>2, <2>3 DEF blanksFrom
<1>11. sentenceIs(u, e)
  BY <1>2, <1>9, <1>10 DEF sentenceIs
<1> QED  BY <1>6, <1>11 DEF u, both, l, m

\* A piece of any length is taken as it should be, and its letters are said
\* behind the ones before them.
LEMMA Pushes ==
  ASSUME NEW v, VoiceOK(v), NEW token \in Seq(Marks)
  PROVE  /\ VoiceOK(push_text(v, token))
         /\ letters(push_text(v, token).buffer) = letters(v.buffer) \o letters(token)
<1> DEFINE head == v.head \o token
           end == firstSentence(head)
           cut == Len(token) - (Len(head) - end)
<1>1. /\ v.head \in Seq(Marks) /\ v.rest \in Seq(Marks) /\ v.led \in BOOLEAN
      /\ v.restStarted \in BOOLEAN /\ v.segments \in Nat /\ v.buffer \in Seq(Symbols)
      /\ v = [head |-> v.head, rest |-> v.rest, led |-> v.led, restStarted |-> v.restStarted,
              segments |-> v.segments, buffer |-> v.buffer]
  BY DEF VoiceOK
<1>2. head \in Seq(Marks) /\ token \in Seq(Symbols)
  BY <1>1, ConcatProperties, TheMarks
<1>3. CASE token = << >>
  <2>1. push_text(v, token) = v
    BY <1>3 DEF push_text
  <2>2. letters(v.buffer) \o letters(token) = letters(v.buffer)
    BY <1>1, <1>3, NoneBlank, LettersTyped, ConcatEmptySeq
  <2> QED  BY <2>1, <2>2
<1>4. CASE token # << >> /\ v.led
  <2>1. push_text(v, token) = _follow(v, token)
    BY <1>4 DEF push_text
  <2> QED  BY <1>4, <2>1, Follows
<1>5. CASE token # << >> /\ ~v.led /\ end = 0
  <2> DEFINE w == [v EXCEPT !.head = head, !.buffer = v.buffer \o token]
  <2>1. push_text(v, token) = w
    BY <1>5 DEF push_text
  <2>2. v.buffer = v.head /\ v.rest = << >> /\ ~v.restStarted /\ v.segments = 0 /\ isBlank(v.rest)
    BY <1>5, Zenon DEF VoiceOK
  <2>3. head \in Seq(Symbols)
    BY <1>2, TheMarks
  <2>4. w = [v EXCEPT !.head = head, !.buffer = head]
    BY <2>2
  <2> HIDE DEF w, head
  <2>5. /\ w \in [head: Seq(Marks), rest: Seq(Marks), led: BOOLEAN, restStarted: BOOLEAN,
                  segments: Nat, buffer: Seq(Symbols)]
        /\ w.rest = v.rest /\ w.led = v.led /\ w.buffer = head /\ w.head = head
        /\ w.restStarted = v.restStarted /\ w.segments = v.segments
    BY <1>1, <1>2, <2>3, <2>4
  <2>6. starts(head) = {}
    <3> SUFFICES ASSUME starts(head) # {} PROVE FALSE
      OBVIOUS
    <3>1. sentenceIs(head, 0)
      BY <1>2, <1>5, FirstSentence
    <3>2. PICK k \in starts(head) : blanksFrom(head, k, 0)
      BY <3>1 DEF sentenceIs
    <3>3. k \in 2 .. Len(head) /\ 0 \in k .. Len(head)
      BY <3>2 DEF starts, blanksFrom
    <3>4. Len(head) \in Nat
      BY <1>2
    <3> QED  BY <3>3, <3>4
  <2>7. VoiceOK(w)
    BY <1>5, <2>2, <2>5, <2>6, Zenon DEF VoiceOK
  <2>8. letters(w.buffer) = letters(v.buffer) \o letters(token)
    <3>1. letters(v.head \o token) = letters(v.head) \o letters(token)
      BY <1>1, LettersOfBoth
    <3> QED  BY <2>2, <2>5, <3>1 DEF head
  <2> QED  BY <2>1, <2>7, <2>8
<1>6. CASE token # << >> /\ ~v.led /\ end # 0
  <2> DEFINE lead == v.buffer \o SubSeq(token, 1, cut)
             w == _send_alone([v EXCEPT !.head = head, !.led = TRUE, !.buffer = lead])
             behind == after(token, cut)
  <2>1. v.buffer = v.head /\ v.rest = << >> /\ ~v.restStarted /\ v.segments = 0 /\ starts(v.head) = {}
    BY <1>6, Zenon DEF VoiceOK
  <2>2. sentenceIs(head, end)
    <3> HIDE DEF head
    <3>1. starts(head) # {}
      BY <1>2, <1>6, FirstSentence
    <3> QED  BY <1>2, <3>1, FirstSentence
  <2>3. /\ end \in Len(v.head) + 1 .. Len(v.head) + Len(token)
        /\ sentenceIs(SubSeq(head, 1, end), end)
    <3> HIDE DEF end
    <3> QED  BY <1>1, <2>1, <2>2, SentenceEndsIn
  <2>4. Len(v.head) \in Nat /\ Len(token) \in Nat /\ Len(head) = Len(v.head) + Len(token)
    BY <1>1, ConcatProperties, LenProperties
  <2>5. /\ cut \in 1 .. Len(token) /\ cut \in 0 .. Len(token) /\ end = Len(v.head) + cut
        /\ end > 0 /\ end \in 0 .. Len(head)
    <3>1. end \in Len(v.head) + 1 .. Len(v.head) + Len(token)
      BY <2>3
    <3>2. \A l, m \in Nat : \A e \in l + 1 .. l + m :
            /\ m - ((l + m) - e) \in 1 .. m /\ m - ((l + m) - e) \in 0 .. m
            /\ e = l + (m - ((l + m) - e)) /\ e > 0 /\ e \in 0 .. l + m
      OBVIOUS
    <3>3. cut = Len(token) - ((Len(v.head) + Len(token)) - end)
      BY <2>4
    <3> HIDE DEF end, head, cut
    <3> QED  BY <2>4, <3>1, <3>2, <3>3
  <2>6. push_text(v, token) = _follow(w, behind)
    BY <1>6, <2>5 DEF push_text
  <2>7. /\ SubSeq(token, 1, cut) \in Seq(Marks) /\ Len(SubSeq(token, 1, cut)) = cut
        /\ behind \in Seq(Marks) /\ \A i \in 1 .. cut : SubSeq(token, 1, cut)[i] = token[i]
    <3> HIDE DEF cut
    <3> QED  BY <2>5, Halves
  <2> DEFINE front == SubSeq(token, 1, cut)
  <2>8. lead \in Seq(Marks) /\ Len(lead) = end /\ lead = SubSeq(head, 1, end)
    <3>1. /\ lead \in Seq(Marks) /\ Len(lead) = end
          /\ \A i \in 1 .. end : lead[i] = IF i <= Len(v.head) THEN v.head[i] ELSE front[i - Len(v.head)]
      <4> HIDE DEF end, cut, head
      <4> QED  BY <1>1, <2>1, <2>4, <2>5, <2>7, ConcatProperties
    <3>2. \A i \in 1 .. Len(head) : head[i] = IF i <= Len(v.head) THEN v.head[i] ELSE token[i - Len(v.head)]
      BY <1>1, <2>4, ConcatProperties
    <3>3. /\ SubSeq(head, 1, end) \in Seq(Marks) /\ Len(SubSeq(head, 1, end)) = end
          /\ \A i \in 1 .. end : SubSeq(head, 1, end)[i] = head[i]
      <4> HIDE DEF end, head
      <4> QED  BY <1>2, <2>5, Halves
    <3>4. \A i \in 1 .. end : lead[i] = SubSeq(head, 1, end)[i]
      <4> HIDE DEF end, head, cut, lead
      <4> SUFFICES ASSUME NEW i \in 1 .. end PROVE lead[i] = SubSeq(head, 1, end)[i]
        OBVIOUS
      <4>1. i \in 1 .. Len(head) /\ i \in Nat
        BY <2>4, <2>5
      <4>2. CASE i <= Len(v.head)
        BY <3>1, <3>2, <3>3, <4>1, <4>2
      <4>3. CASE ~(i <= Len(v.head))
        <5>1. i - Len(v.head) \in 1 .. cut
          BY <2>4, <2>5, <4>1, <4>3
        <5>2. front[i - Len(v.head)] = token[i - Len(v.head)]
          BY <2>7, <5>1
        <5> QED  BY <3>1, <3>2, <3>3, <4>1, <4>3, <5>2
      <4> QED  BY <4>2, <4>3
    <3> DEFINE whole == SubSeq(head, 1, end)
    <3> HIDE DEF end, head, cut, lead, whole
    <3>5. lead \in Seq(Marks) /\ whole \in Seq(Marks) /\ Len(lead) = Len(whole)
          /\ \A i \in 1 .. Len(lead) : lead[i] = whole[i]
      BY <3>1, <3>3, <3>4 DEF whole
    <3>6. lead = whole
      BY <3>5, SeqEqual
    <3> QED  BY <3>1, <3>6 DEF whole
  <2>9. sentenceIs(lead, Len(lead))
    <3> HIDE DEF lead, head, end, cut
    <3> QED  BY <2>3, <2>8
  <2> DEFINE sent == lead \o <<"|">>
  <2>10. sent \in Seq(Symbols) /\ lead \in Seq(Symbols) /\ <<"|">> \in Seq(Symbols) /\ sent \o << >> = sent
    <3> HIDE DEF lead
    <3>1. lead \in Seq(Symbols) /\ <<"|">> \in Seq(Symbols)
      <4>1. lead \in Seq(Symbols)
        BY <2>8, TheMarks
      <4>2. <<"|">> \in Seq(Symbols)
        BY DEF Symbols
      <4> QED  BY <4>1, <4>2
    <3>2. sent \in Seq(Symbols)
      BY <3>1, ConcatProperties
    <3> QED  BY <3>1, <3>2, ConcatEmptySeq
  <2>11. /\ w \in [head: Seq(Marks), rest: Seq(Marks), led: BOOLEAN, restStarted: BOOLEAN,
                   segments: Nat, buffer: Seq(Symbols)]
         /\ w.rest = << >> /\ w.led = TRUE /\ w.buffer = sent
         /\ w.restStarted = FALSE /\ w.segments = 0
    <3>1. Append(lead, "|") = sent
      <4>1. "|" \in Symbols
        BY DEF Symbols
      <4> HIDE DEF lead
      <4> QED  BY <2>10, <4>1, AppendIsConcat
    <3>2. w = [v EXCEPT !.head = head, !.led = TRUE, !.buffer = Append(lead, "|")]
      <4> HIDE DEF lead, head
      <4> QED  BY <1>1 DEF _send_alone
    <3>3. w = [v EXCEPT !.head = head, !.led = TRUE, !.buffer = sent]
      BY <3>1, <3>2
    <3> HIDE DEF lead, head, sent, w
    <3> QED  BY <1>1, <1>2, <2>1, <2>10, <3>3
  <2>12. VoiceOK(w)
    <3> HIDE DEF lead, w, sent
    <3>1. SaidFirst(sent, FALSE, 0)
      <4>1. sent = (lead \o <<"|">>) \o << >>
        BY <2>10 DEF sent
      <4> QED  BY <2>8, <2>9, <4>1, NoneBlank, Zenon DEF SaidFirst
    <3> QED  BY <2>11, <3>1, NoneBlank, Zenon DEF VoiceOK
  <2>13. /\ VoiceOK(_follow(w, behind))
         /\ letters(_follow(w, behind).buffer) = letters(w.buffer) \o letters(behind)
    <3> HIDE DEF w, behind
    <3> QED  BY <2>7, <2>11, <2>12, Follows
  <2>14. letters(sent) = letters(v.buffer) \o letters(front)
    <3> HIDE DEF cut
    <3>1. letters(lead) = letters(v.buffer) \o letters(front)
      <4>1. v.buffer \in Seq(Marks) /\ front \in Seq(Marks)
        BY <1>1, <2>1, <2>7
      <4>2. lead = v.buffer \o front
        OBVIOUS
      <4> HIDE DEF front, lead
      <4> QED  BY <4>1, <4>2, LettersOfBoth
    <3>2. letters(sent) = letters(lead) \o letters(<<"|">>)
      <4> HIDE DEF lead
      <4> QED  BY <2>10, LettersOfBoth
    <3>3. letters(<<"|">>) = << >>
      <4>1. \A k \in DOMAIN <<"|">> : <<"|">>[k] \notin Alphabet
        BY TheMarks
      <4> QED  BY <2>10, <4>1, NoLetters
    <3>4. letters(lead) \in Seq(Symbols)
      <4> HIDE DEF lead
      <4> QED  BY <2>10, LettersTyped
    <3> HIDE DEF lead, sent
    <3>5. letters(lead) \o << >> = letters(lead)
      BY <3>4, ConcatEmptySeq
    <3> QED  BY <3>1, <3>2, <3>3, <3>5
  <2>15. letters(token) = letters(front) \o letters(behind)
    <3> HIDE DEF cut
    <3> QED  BY <2>5, LettersOfHalves
  <2>16. letters(sent) \o letters(behind) = letters(v.buffer) \o letters(token)
    <3>1. letters(v.buffer) \in Seq(Symbols) /\ letters(front) \in Seq(Marks) /\ letters(behind) \in Seq(Marks)
      <4> HIDE DEF front, behind
      <4> QED  BY <1>1, <2>7, LettersTyped DEF front
    <3>2. letters(front) \in Seq(Symbols) /\ letters(behind) \in Seq(Symbols)
      BY <3>1, TheMarks
    <3> HIDE DEF front, behind, sent
    <3> QED  BY <2>14, <2>15, <3>1, <3>2, ConcatAssociative
  <2> HIDE DEF w, behind, sent
  <2> QED  BY <2>6, <2>11, <2>13, <2>16
<1> QED  BY <1>1, <1>3, <1>4, <1>5, <1>6

LEMMA VoiceIsAlone == VoiceOK(voice) => FirstSentenceIsAlone
<1> DEFINE b == voice.buffer
           flushes == {i \in DOMAIN b : b[i] = "|"}
           lead0 == IF flushes = {} THEN b ELSE SubSeq(b, 1, Min(flushes) - 1)
<1> SUFFICES ASSUME VoiceOK(voice)
             PROVE  /\ Cardinality(flushes) = (IF voice.led THEN 1 ELSE 0)
                    /\ firstSentence(lead0) = (IF voice.led THEN Len(lead0) ELSE 0)
                    /\ voice.segments =
                         (IF voice.led /\ ~isBlank(after(b, Len(lead0) + 1)) THEN 1 ELSE 0)
  BY DEF FirstSentenceIsAlone
<1>1. voice.head \in Seq(Marks) /\ voice.led \in BOOLEAN
  BY DEF VoiceOK
<1>2. CASE ~voice.led
  <2>1. b = voice.head /\ starts(voice.head) = {} /\ voice.segments = 0
    BY <1>2, Zenon DEF VoiceOK
  <2>2. flushes = {}
    <3> SUFFICES ASSUME NEW i \in DOMAIN b PROVE b[i] # "|"
      OBVIOUS
    <3>1. b[i] \in Marks
      BY <1>1, <2>1
    <3> QED  BY <3>1, TheMarks
  <2>3. Cardinality(flushes) = 0
    BY <2>2, FS_EmptySet
  <2>4. firstSentence(lead0) = 0
    BY <1>1, <2>1, <2>2, FirstSentence
  <2> HIDE DEF flushes, lead0
  <2> QED  BY <1>2, <2>1, <2>3, <2>4, Zenon
<1>3. CASE voice.led
  <2>1. PICK lead \in Seq(Marks), tail \in Seq(Marks) :
           /\ b = (lead \o <<"|">>) \o tail /\ sentenceIs(lead, Len(lead))
           /\ voice.segments = IF isBlank(tail) THEN 0 ELSE 1
    BY <1>3, Zenon DEF VoiceOK, SaidFirst
  <2> DEFINE l == Len(lead)
             sent == lead \o <<"|">>
  <2>2. /\ l \in Nat /\ Len(tail) \in Nat /\ sent \in Seq(Symbols) /\ tail \in Seq(Symbols)
        /\ Len(sent) = l + 1 /\ sent[l + 1] = "|"
        /\ \A i \in 1 .. l : sent[i] = lead[i] /\ lead[i] \in Marks
    <3>1. l \in Nat /\ Len(tail) \in Nat /\ tail \in Seq(Symbols) /\ "|" \in Symbols /\ lead \in Seq(Symbols)
          /\ \A i \in 1 .. l : lead[i] \in Marks
      BY TheMarks DEF Symbols
    <3>2. sent = Append(lead, "|")
      BY <3>1, AppendIsConcat
    <3> HIDE DEF sent
    <3> QED  BY <3>1, <3>2, AppendProperties
  <2> HIDE DEF l, sent
  <2>3. /\ b \in Seq(Symbols) /\ Len(b) = l + 1 + Len(tail)
        /\ \A i \in 1 .. l + 1 + Len(tail) :
             b[i] = IF i <= l + 1 THEN sent[i] ELSE tail[i - (l + 1)]
    <3>1. b = sent \o tail
      BY <2>1 DEF sent
    <3>2. sent \in Seq(Symbols) /\ tail \in Seq(Symbols) /\ Len(sent) = l + 1
      BY <2>2
    <3> DEFINE p == Len(sent)
    <3>3. /\ sent \o tail \in Seq(Symbols) /\ Len(sent \o tail) = p + Len(tail)
          /\ \A i \in 1 .. p + Len(tail) :
               (sent \o tail)[i] = IF i <= p THEN sent[i] ELSE tail[i - p]
      BY <3>2, ConcatProperties
    <3>4. p = l + 1
      BY <3>2
    <3> HIDE DEF b, p
    <3> QED  BY <3>1, <3>3, <3>4
  <2> HIDE DEF b
  <2>4. flushes = {l + 1}
    <3>1. DOMAIN b = 1 .. l + 1 + Len(tail)
      BY <2>3, LenProperties
    <3>2. ASSUME NEW i \in 1 .. l + 1 + Len(tail), i # l + 1 PROVE b[i] # "|"
      <4>1. CASE i <= l + 1
        <5>1. i \in 1 .. l
          BY <2>2, <3>2, <4>1
        <5>2. b[i] \in Marks
          BY <2>2, <2>3, <4>1, <5>1
        <5> QED  BY <5>2, TheMarks
      <4>2. CASE ~(i <= l + 1)
        <5>1. i - (l + 1) \in 1 .. Len(tail)
          BY <2>2, <3>2, <4>2
        <5>2. tail[i - (l + 1)] \in Marks
          BY <5>1, LenProperties
        <5>3. b[i] \in Marks
          BY <2>3, <4>2, <5>2
        <5> QED  BY <5>3, TheMarks
      <4> QED  BY <4>1, <4>2
    <3>3. l + 1 \in 1 .. l + 1 + Len(tail) /\ l + 1 <= l + 1
      <4>1. l \in Nat /\ Len(tail) \in Nat
        BY <2>2
      <4> QED  BY <4>1
    <3>4. b[l + 1] = "|"
      BY <2>2, <2>3, <3>3
    <3> QED  BY <3>1, <3>2, <3>3, <3>4, Zenon
  <2>5. Cardinality(flushes) = 1
    BY <2>4, FS_Singleton
  <2>6. Min(flushes) - 1 = l /\ flushes # {}
    <3> HIDE DEF flushes
    <3>1. l + 1 \in Nat /\ (l + 1) - 1 = l
      BY <2>2
    <3>2. Min(flushes) \in flushes
      BY <2>4, <3>1, MinIs
    <3> QED  BY <2>4, <3>1, <3>2
  <2>7. lead0 = lead
    <3>1. lead0 = SubSeq(b, 1, l)
      BY <2>6
    <3>2. l \in 0 .. Len(b) /\ \A i \in 1 .. l : i \in 1 .. l + 1 + Len(tail) /\ i <= l + 1
      BY <2>2, <2>3
    <3>3. SubSeq(b, 1, l) \in Seq(Symbols) /\ Len(SubSeq(b, 1, l)) = l
          /\ \A i \in 1 .. l : SubSeq(b, 1, l)[i] = b[i]
      BY <2>3, <3>2, Halves
    <3>4. \A i \in 1 .. l : b[i] = lead[i]
      BY <2>2, <2>3, <3>2
    <3> DEFINE front == SubSeq(b, 1, l)
    <3>5. /\ front \in Seq(Symbols) /\ Len(front) = Len(lead)
          /\ \A i \in 1 .. Len(front) : front[i] = lead[i]
      <4> HIDE DEF front
      <4> QED  BY <3>3, <3>4 DEF front, l
    <3>6. lead \in Seq(Symbols)
      BY TheMarks
    <3> HIDE DEF front
    <3>7. front = lead
      BY <3>5, <3>6, SeqEqual
    <3> QED  BY <3>1, <3>7 DEF front
  <2>8. after(b, l + 1) = tail
    <3> DEFINE back == after(b, l + 1)
    <3>1. l + 1 \in 0 .. Len(b) /\ Len(b) - (l + 1) = Len(tail)
          /\ \A i \in 1 .. Len(tail) : /\ l + 1 + i \in 1 .. l + 1 + Len(tail)
                                       /\ ~(l + 1 + i <= l + 1)
                                       /\ (l + 1 + i) - (l + 1) = i
      BY <2>2, <2>3
    <3>2. back \in Seq(Symbols) /\ Len(back) = Len(tail)
          /\ \A i \in 1 .. Len(tail) : back[i] = b[l + 1 + i]
      <4> DEFINE p == l + 1
      <4>1. p \in 0 .. Len(b) /\ Len(b) - p = Len(tail) /\ b \in Seq(Symbols) /\ back = after(b, p)
        BY <2>3, <3>1
      <4> HIDE DEF p, back
      <4>2. back \in Seq(Symbols) /\ Len(back) = Len(b) - p
            /\ \A i \in 1 .. Len(b) - p : back[i] = b[p + i]
        BY <4>1, Halves
      <4> QED  BY <4>1, <4>2 DEF p
    <3> HIDE DEF back
    <3>3. \A i \in 1 .. Len(tail) : back[i] = tail[i]
      <4> TAKE i \in 1 .. Len(tail)
      <4>1. b[l + 1 + i] = tail[(l + 1 + i) - (l + 1)]
        BY <2>3, <3>1
      <4> QED  BY <3>1, <3>2, <4>1
    <3>4. back = tail
      BY <2>2, <3>2, <3>3, SeqEqual
    <3> QED  BY <3>4 DEF back
  <2>9. firstSentence(lead) = Len(lead)
    BY <2>1, FirstSentence
  <2> HIDE DEF flushes, lead0
  <2>10. after(b, Len(lead0) + 1) = tail
    <3>1. Len(lead0) = l
      BY <2>7 DEF l
    <3> QED  BY <2>8, <3>1
  <2> QED  BY <1>3, <2>1, <2>5, <2>7, <2>9, <2>10, Zenon DEF b
<1> QED  BY <1>1, <1>2, <1>3

\* What is kept back is the end of what came.
EndOf(u, t) ==
  /\ Len(u) <= Len(t)
  /\ \A i \in 1 .. Len(u) : u[i] = t[(Len(t) - Len(u)) + i]

StreamsInd ==
  /\ streamed \in Seq(Marks) /\ unsaid \in Seq(Marks) /\ ended \in BOOLEAN
  /\ VoiceOK(voice) /\ EndOf(unsaid, streamed)
  /\ cuts \subseteq 1 .. Len(streamed) /\ (Len(streamed) > 0 => Len(streamed) \in broken)
  /\ EveryLetterIsSaid /\ NumbersStayWhole

\* Of three texts it does not matter which two are joined first.
Grouped(a, b, c) == (a \o b) \o c = a \o (b \o c)

LEMMA AllGrouped == \A M : \A a, b, c \in Seq(M) : Grouped(a, b, c)
  BY ConcatAssociative DEF Grouped

LEMMA StreamsStarts == StreamsInit => StreamsInd
<1> SUFFICES ASSUME StreamsInit PROVE StreamsInd
  OBVIOUS
<1> DEFINE none0 == << >>
<1>1. /\ streamed = none0 /\ unsaid = none0 /\ ended = FALSE /\ cuts = {}
      /\ voice = [head |-> none0, rest |-> none0, led |-> FALSE, restStarted |-> FALSE,
                  segments |-> 0, buffer |-> none0]
  BY DEF StreamsInit
<1>2. /\ none0 \in Seq(Marks) /\ none0 \in Seq(Symbols) /\ Len(none0) = 0 /\ isBlank(none0)
      /\ starts(none0) = {} /\ letters(none0) = none0 /\ none0 \o none0 = none0
  <2>1. none0 \in Seq(Marks) /\ none0 \in Seq(Symbols) /\ Len(none0) = 0 /\ none0 \o none0 = none0
    OBVIOUS
  <2>2. starts(none0) = {}
    BY <2>1 DEF starts
  <2> QED  BY <2>1, <2>2, NoneBlank
<1> HIDE DEF none0
<1>3. VoiceOK(voice)
  <2>1. voice \in [head: Seq(Marks), rest: Seq(Marks), led: BOOLEAN, restStarted: BOOLEAN,
                   segments: Nat, buffer: Seq(Symbols)]
    BY <1>1, <1>2
  <2>2. /\ voice.buffer = none0 /\ voice.head = none0 /\ voice.rest = none0
        /\ voice.led = FALSE /\ voice.restStarted = FALSE /\ voice.segments = 0
    BY <1>1
  <2> QED  BY <1>2, <2>1, <2>2, Zenon DEF VoiceOK, none0
<1>4. EndOf(unsaid, streamed)
  BY <1>1, <1>2 DEF EndOf
<1>5. EveryLetterIsSaid
  <2>1. voice.buffer = none0 /\ voice.rest = none0
    BY <1>1
  <2> QED  BY <1>1, <1>2, <2>1, Zenon DEF EveryLetterIsSaid, none0
<1>6. NumbersStayWhole
  BY <1>1 DEF NumbersStayWhole
<1>7. cuts \subseteq 1 .. Len(streamed) /\ ~(Len(streamed) > 0) /\ ended \in BOOLEAN
  <2>1. streamed = none0 /\ cuts = {} /\ ended = FALSE
    BY <1>1
  <2>2. ~(Len(streamed) > 0)
    BY <1>2, <2>1
  <2> QED  BY <2>1, <2>2
<1>8. streamed \in Seq(Marks) /\ unsaid \in Seq(Marks)
  BY <1>1, <1>2, Zenon
<1> QED  BY <1>3, <1>4, <1>5, <1>6, <1>7, <1>8, Zenon DEF StreamsInd

LEMMA ChunkKept ==
  ASSUME StreamsInd, NEW c \in Seq(Marks), Len(c) > 0, newChunk(c)
  PROVE  StreamsInd'
<1> DEFINE joined == unsaid \o c
           cut == sentence_cut(joined)
           front == SubSeq(joined, 1, cut)
           l == Len(streamed)
           d == Len(c)
           u == Len(unsaid)
<1>1. /\ streamed \in Seq(Marks) /\ unsaid \in Seq(Marks) /\ ended = FALSE /\ ended' = FALSE
      /\ streamed' = streamed \o c /\ broken' = broken \cup {Len(streamed')}
      /\ unsaid' = after(joined, cut)
      /\ cuts' = IF cut > 0 THEN cuts \cup {Len(streamed') - Len(joined) + cut} ELSE cuts
      /\ voice' = IF cut > 0 THEN push_text(voice, spokenText(front)) ELSE voice
  BY DEF StreamsInd, newChunk
<1>2. /\ l \in Nat /\ d \in Nat /\ d > 0 /\ u \in Nat /\ u <= l /\ l + d \in Nat
      /\ streamed' \in Seq(Marks) /\ Len(streamed') = l + d
      /\ \A i \in 1 .. l + d : streamed'[i] = IF i <= l THEN streamed[i] ELSE c[i - l]
      /\ joined \in Seq(Marks) /\ Len(joined) = u + d
      /\ \A i \in 1 .. u + d : joined[i] = IF i <= u THEN unsaid[i] ELSE c[i - u]
  <2>1. l \in Nat /\ d \in Nat /\ u \in Nat
    BY <1>1
  <2>2. u <= l
    BY DEF StreamsInd, EndOf
  <2> QED  BY <1>1, <2>1, <2>2, ConcatProperties
<1>3. \A i \in 1 .. u : unsaid[i] = streamed[(l - u) + i]
  BY DEF StreamsInd, EndOf
<1> DEFINE full == streamed'
<1> HIDE DEF joined, cut, l, d, u, full
<1>4. cut \in 0 .. u + d /\ (cut > 0 => wellCut(joined, cut))
  BY <1>2, CutWell DEF cut
<1> DEFINE spot == (l - u) + cut
<1>5. \A i \in 1 .. u + d : (l - u) + i \in 1 .. l + d /\ full[(l - u) + i] = joined[i]
  <2> SUFFICES ASSUME NEW i \in 1 .. u + d
               PROVE  (l - u) + i \in 1 .. l + d /\ full[(l - u) + i] = joined[i]
    OBVIOUS
  <2>1. (l - u) + i \in 1 .. l + d
    BY <1>2
  <2>2. full[(l - u) + i] = IF (l - u) + i <= l THEN streamed[(l - u) + i] ELSE c[((l - u) + i) - l]
    BY <1>2, <2>1 DEF full
  <2>3. CASE i <= u
    <3>1. i \in 1 .. u /\ (l - u) + i <= l
      BY <1>2, <2>3
    <3> QED  BY <1>2, <1>3, <2>1, <2>2, <2>3, <3>1
  <2>4. CASE ~(i <= u)
    <3>1. ~((l - u) + i <= l) /\ ((l - u) + i) - l = i - u
      BY <1>2, <2>4
    <3> QED  BY <1>2, <2>1, <2>2, <2>4, <3>1
  <2> QED  BY <2>1, <2>3, <2>4
<1>6. /\ front \in Seq(Marks) /\ unsaid' \in Seq(Marks) /\ Len(unsaid') = (u + d) - cut
      /\ \A i \in 1 .. (u + d) - cut : unsaid'[i] = joined[cut + i]
      /\ cut = 0 => unsaid' = joined
  <2>1. cut \in 0 .. Len(joined)
    BY <1>2, <1>4
  <2>2. /\ front \in Seq(Marks) /\ after(joined, cut) \in Seq(Marks)
        /\ Len(after(joined, cut)) = Len(joined) - cut
        /\ \A i \in 1 .. Len(joined) - cut : after(joined, cut)[i] = joined[cut + i]
    BY <1>2, <2>1, Halves
  <2>3. cut = 0 => after(joined, cut) = joined
    <3>1. SubSeq(joined, 1, Len(joined)) = joined
      BY <1>2
    <3> QED  BY <3>1 DEF after
  <2> QED  BY <1>1, <1>2, <2>2, <2>3
<1>7. EndOf(unsaid, streamed)'
  <2>1. \A i \in 1 .. (u + d) - cut : /\ cut + i \in 1 .. u + d
                                      /\ (l - u) + (cut + i) = ((l + d) - ((u + d) - cut)) + i
    <3>1. l \in Nat /\ d \in Nat /\ u \in Nat /\ cut \in 0 .. u + d
      BY <1>2, <1>4
    <3> QED  BY <3>1
  <2>2. (u + d) - cut <= l + d
    <3>1. l \in Nat /\ d \in Nat /\ u \in Nat /\ u <= l /\ cut \in 0 .. u + d
      BY <1>2, <1>4
    <3> QED  BY <3>1
  <2>3. \A i \in 1 .. (u + d) - cut : unsaid'[i] = full[((l + d) - ((u + d) - cut)) + i]
    BY <1>5, <1>6, <2>1
  <2> QED  BY <1>2, <1>6, <2>2, <2>3 DEF EndOf, full
<1>8. /\ VoiceOK(voice)'
      /\ letters(voice'.buffer) = letters(voice.buffer) \o letters(front)
      /\ letters(joined) = letters(front) \o letters(unsaid')
  <2>1. letters(joined) = letters(front) \o letters(unsaid')
    <3>1. cut \in 0 .. Len(joined)
      BY <1>2, <1>4
    <3> QED  BY <1>1, <1>2, <3>1, LettersOfHalves
  <2>2. VoiceOK(voice)
    BY DEF StreamsInd
  <2>3. CASE cut > 0
    <3>1. spokenText(front) \in Seq(Marks) /\ letters(spokenText(front)) = letters(front)
      BY <1>6, SpokenLetters
    <3>2. voice' = push_text(voice, spokenText(front))
      BY <1>1, <2>3
    <3> QED  BY <2>1, <2>2, <3>1, <3>2, Pushes
  <2>4. CASE ~(cut > 0)
    <3>1. voice' = voice
      BY <1>1, <2>4
    <3>2. cut = 0
      BY <1>2, <1>4, <2>4
    <3>3. front = << >>
      BY <3>2
    <3>4. voice.buffer \in Seq(Symbols)
      BY <2>2 DEF VoiceOK
    <3>5. letters(voice.buffer) \o letters(front) = letters(voice.buffer)
      BY <3>3, <3>4, NoneBlank, LettersTyped, ConcatEmptySeq
    <3> QED  BY <2>1, <2>2, <3>1, <3>5
  <2> QED  BY <2>3, <2>4
<1>9. EveryLetterIsSaid'
  <2>1. letters(voice.buffer) \o letters(unsaid) = letters(streamed)
    BY DEF StreamsInd, EveryLetterIsSaid
  <2>2. /\ letters(voice.buffer) \in Seq(Symbols) /\ letters(unsaid) \in Seq(Symbols)
        /\ letters(c) \in Seq(Symbols) /\ letters(front) \in Seq(Symbols) /\ letters(unsaid') \in Seq(Symbols)
    <3>1. voice.buffer \in Seq(Symbols)
      BY DEF StreamsInd, VoiceOK
    <3>2. unsaid \in Seq(Symbols) /\ c \in Seq(Symbols) /\ front \in Seq(Symbols) /\ unsaid' \in Seq(Symbols)
      BY <1>1, <1>6, TheMarks
    <3> HIDE DEF front
    <3> QED  BY <3>1, <3>2, LettersTyped
  <2>3. letters(full) = letters(streamed) \o letters(c)
    <3>1. letters(streamed \o c) = letters(streamed) \o letters(c)
      BY <1>1, LettersOfBoth
    <3> QED  BY <1>1, <3>1 DEF full
  <2>4. letters(joined) = letters(unsaid) \o letters(c)
    BY <1>1, LettersOfBoth DEF joined
  <2> DEFINE lb == letters(voice.buffer)
             lu == letters(unsaid)
             lc == letters(c)
             lf == letters(front)
             ln == letters(unsaid')
  <2>5. (lb \o lu) \o lc = (lb \o lf) \o ln
    <3>1. lu \o lc = lf \o ln
      BY <1>8, <2>4
    <3>2. lb \in Seq(Symbols) /\ lu \in Seq(Symbols) /\ lc \in Seq(Symbols) /\ lf \in Seq(Symbols) /\ ln \in Seq(Symbols)
      BY <2>2
    <3> HIDE DEF lb, lu, lc, lf, ln
    <3>3. Grouped(lb, lu, lc) /\ Grouped(lb, lf, ln)
      BY <3>2, AllGrouped, Zenon
    <3> QED  BY <3>1, <3>3, Zenon DEF Grouped
  <2>6. letters(voice'.buffer) \o letters(unsaid') = letters(full)
    BY <1>8, <2>1, <2>3, <2>5
  <2>7. isBlank(voice'.rest)
    BY <1>8, Zenon DEF VoiceOK
  <2> QED  BY <1>1, <2>6, <2>7, Zenon DEF EveryLetterIsSaid, full
<1>10. spot \in Nat /\ (cut > 0 => spot \in 1 .. l + d) /\ cuts \subseteq 1 .. l
  <2>1. cuts \subseteq 1 .. l
    BY DEF StreamsInd, l
  <2> QED  BY <1>2, <1>4, <2>1
<1>11. cuts' = IF cut > 0 THEN cuts \cup {spot} ELSE cuts
  <2>1. Len(streamed') - Len(joined) + cut = spot
    BY <1>2, <1>4
  <2> QED  BY <1>1, <2>1
<1>12. cuts' \subseteq 1 .. Len(streamed')
  <2>1. \A e \in cuts' : e \in 1 .. l \/ e \in 1 .. l + d
    BY <1>10, <1>11
  <2>2. l \in Nat /\ d \in Nat /\ Len(streamed') = l + d
    BY <1>2
  <2>3. \A e \in 1 .. l : e \in 1 .. l + d
    BY <2>2
  <2> QED  BY <2>1, <2>2, <2>3
<1>13. \A e \in cuts' : /\ full[e] \in Blanks
                        /\ e < l + d /\ full[e + 1] = "1" => e \in broken' \/ full[e] = "n"
                        /\ e > 1 /\ full[e - 1] = "1" => full[e] = "n"
  <2> DEFINE Fits(e) == /\ full[e] \in Blanks
                        /\ e < l + d /\ full[e + 1] = "1" => e \in broken' \/ full[e] = "n"
                        /\ e > 1 /\ full[e - 1] = "1" => full[e] = "n"
  <2>1. ASSUME NEW e \in cuts PROVE Fits(e)
    <3>1. /\ streamed[e] \in Blanks
          /\ e < l /\ streamed[e + 1] = "1" => e \in broken \/ streamed[e] = "n"
          /\ e > 1 /\ streamed[e - 1] = "1" => streamed[e] = "n"
      BY Zenon DEF StreamsInd, NumbersStayWhole, l
    <3>2. e \in 1 .. l
      BY <1>10
    <3>3. \A i \in 1 .. l : full[i] = streamed[i]
      <4>1. \A i \in 1 .. l : i \in 1 .. l + d /\ i <= l
        BY <1>2
      <4> QED  BY <1>2, <4>1 DEF full
    <3>4. full[e] = streamed[e]
      BY <3>2, <3>3
    <3>5. ASSUME e > 1 PROVE full[e - 1] = streamed[e - 1]
      <4>1. e - 1 \in 1 .. l
        BY <1>2, <3>2, <3>5
      <4> QED  BY <3>3, <4>1
    <3>6. ASSUME e < l PROVE full[e + 1] = streamed[e + 1]
      <4>1. e + 1 \in 1 .. l
        BY <1>2, <3>2, <3>6
      <4> QED  BY <3>3, <4>1
    <3>7. ~(e < l) => e \in broken
      <4>1. ~(e < l) => e = l /\ l > 0
        BY <1>2, <3>2
      <4>2. l > 0 => l \in broken
        BY DEF StreamsInd, l
      <4> QED  BY <4>1, <4>2
    <3>8. broken \subseteq broken'
      BY <1>1
    <3> HIDE DEF full
    <3> QED  BY <3>1, <3>4, <3>5, <3>6, <3>7, <3>8, Zenon
  <2>2. ASSUME cut > 0 PROVE Fits(spot)
    <3>1. cut \in 1 .. u + d /\ full[spot] = joined[cut] /\ wellCut(joined, cut)
      <4>1. cut \in 1 .. u + d
        BY <1>2, <1>4, <2>2
      <4> QED  BY <1>4, <1>5, <2>2, <4>1
    <3>2. full[spot] \in Blanks
      BY <3>1, Zenon DEF wellCut, Blanks
    <3>3. ASSUME spot < l + d PROVE cut < u + d /\ full[spot + 1] = joined[cut + 1]
      <4>1. cut < u + d /\ cut + 1 \in 1 .. u + d /\ (l - u) + (cut + 1) = spot + 1
        BY <1>2, <1>4, <3>3
      <4>2. full[(l - u) + (cut + 1)] = joined[cut + 1]
        BY <1>5, <4>1
      <4> QED  BY <4>1, <4>2
    <3>4. ASSUME cut # 1 PROVE full[spot - 1] = joined[cut - 1]
      <4>1. cut - 1 \in 1 .. u + d /\ (l - u) + (cut - 1) = spot - 1
        <5>1. cut \in 1 .. u + d
          BY <3>1
        <5> QED  BY <1>2, <3>4, <5>1
      <4>2. full[(l - u) + (cut - 1)] = joined[cut - 1]
        BY <1>5, <4>1
      <4> QED  BY <4>1, <4>2
    <3>5. Len(joined) = u + d
      BY <1>2
    <3>6. \/ full[spot] = "n"
          \/ /\ cut # 1 /\ joined[cut - 1] # "1"
             /\ cut < u + d => joined[cut + 1] # "1"
      BY <3>1, <3>5 DEF wellCut
    <3> HIDE DEF spot
    <3> QED  BY <3>2, <3>3, <3>4, <3>6, Zenon
  <2> HIDE DEF Fits
  <2>3. \A e \in cuts' : Fits(e)
    BY <1>11, <2>1, <2>2, Zenon
  <2> QED  BY <2>3, Zenon DEF Fits
<1>14. NumbersStayWhole'
  <2>1. Len(streamed') = l + d
    BY <1>2
  <2> QED  BY <1>13, <2>1, Zenon DEF NumbersStayWhole, full
<1>15. Len(streamed') > 0 => Len(streamed') \in broken'
  BY <1>1
<1> QED  BY <1>1, <1>2, <1>6, <1>7, <1>8, <1>9, <1>12, <1>14, <1>15, Zenon DEF StreamsInd

LEMMA LastKept ==
  ASSUME StreamsInd, lastOfIt
  PROVE  StreamsInd'
<1>1. /\ streamed \in Seq(Marks) /\ unsaid \in Seq(Marks) /\ ended' = TRUE
      /\ streamed' = streamed /\ broken' = broken /\ cuts' = cuts
      /\ unsaid' = << >> /\ voice' = push_text(voice, spokenText(unsaid))
  BY DEF StreamsInd, lastOfIt
<1>2. spokenText(unsaid) \in Seq(Marks) /\ letters(spokenText(unsaid)) = letters(unsaid)
  BY <1>1, SpokenLetters
<1>3. VoiceOK(voice') /\ letters(voice'.buffer) = letters(voice.buffer) \o letters(unsaid)
  <2>1. VoiceOK(voice)
    BY DEF StreamsInd
  <2> QED  BY <1>1, <1>2, <2>1, Pushes
<1>4. EveryLetterIsSaid'
  <2>1. letters(voice.buffer) \o letters(unsaid) = letters(streamed)
    BY DEF StreamsInd, EveryLetterIsSaid
  <2>2. letters(streamed) \o << >> = letters(streamed)
    BY <1>1, LettersTyped, ConcatEmptySeq
  <2>3. isBlank(voice'.rest)
    BY <1>3, Zenon DEF VoiceOK
  <2>4. letters(unsaid') = << >>
    BY <1>1, NoneBlank
  <2>5. letters(voice'.buffer) \o letters(unsaid') = letters(streamed')
    BY <1>1, <1>3, <2>1, <2>2, <2>4, Zenon
  <2> QED  BY <1>1, <2>3, <2>5, Zenon DEF EveryLetterIsSaid
<1>5. EndOf(unsaid, streamed)'
  <2>1. Len(streamed) \in Nat /\ Len(<< >>) = 0
    BY <1>1
  <2>2. EndOf(<< >>, streamed)
    BY <2>1 DEF EndOf
  <2> QED  BY <1>1, <2>2
<1>6. NumbersStayWhole'
  BY <1>1, Zenon DEF StreamsInd, NumbersStayWhole
<1>7. cuts \subseteq 1 .. Len(streamed) /\ (Len(streamed) > 0 => Len(streamed) \in broken)
  BY Zenon DEF StreamsInd
<1> QED  BY <1>1, <1>3, <1>4, <1>5, <1>6, <1>7, NoneBlank, Zenon DEF StreamsInd

\* However an answer is cut into chunks, every letter of it is said once and
\* in order, the first sentence goes to the voice by itself, and no number is
\* cut in two but where the answer itself broke off (speech_plan.py,
\* SpeechPlan.transform and sentence_cut; sarvam.py, FirstSentenceAlone).
THEOREM EveryLetterSaidInOrder == StreamsSpec => []StreamsInv
<1>1. StreamsInit => StreamsInd
  BY StreamsStarts
<1>2. StreamsInd /\ [StreamsNext]_streamsVars => StreamsInd'
  <2> SUFFICES ASSUME StreamsInd, [StreamsNext]_streamsVars PROVE StreamsInd'
    OBVIOUS
  <2>1. ASSUME NEW n \in 1 .. MaxChunk, NEW c \in [1 .. n -> Marks], newChunk(c) PROVE StreamsInd'
    <3>1. c \in Seq(Marks) /\ Len(c) > 0
      <4>1. n \in Nat /\ n > 0
        <5>1. MaxChunk \in Nat
          BY StreamsAssumption
        <5> QED  BY <5>1
      <4> HIDE DEF Marks
      <4> QED  BY <4>1
    <3> QED  BY <2>1, <3>1, ChunkKept
  <2>2. CASE lastOfIt
    BY <2>2, LastKept
  <2>3. CASE UNCHANGED streamsVars
    <3>1. /\ streamed' = streamed /\ broken' = broken /\ unsaid' = unsaid /\ cuts' = cuts
          /\ voice' = voice /\ ended' = ended
      BY <2>3 DEF streamsVars
    <3>2. EveryLetterIsSaid'
      BY <3>1, Zenon DEF StreamsInd, EveryLetterIsSaid
    <3>3. NumbersStayWhole'
      BY <3>1, Zenon DEF StreamsInd, NumbersStayWhole
    <3> QED  BY <3>1, <3>2, <3>3, Zenon DEF StreamsInd
  <2> QED  BY <2>1, <2>2, <2>3 DEF StreamsNext
<1>3. StreamsInd => StreamsInv
  BY VoiceIsAlone, Zenon DEF StreamsInd, StreamsInv
<1> QED  BY <1>1, <1>2, <1>3, PTL DEF StreamsSpec
-----------------------------------------------------------------------------
(***************************************************************************)
(* Notes.  The first few of the entries of a list are told by where they   *)
(* stand, so those of an entry of the answer, added to those of the ones   *)
(* before it, are the first few of both (MoreIsTold).                      *)
(***************************************************************************)

\* What stands at some places, listed by them.
LEMMA Stands ==
  ASSUME NEW M, NEW s \in Seq(M), NEW S \in SUBSET DOMAIN s
  PROVE  \E n, f : /\ Lists(f, n, S) /\ n = Cardinality(S)
                   /\ standing(s, S) = [i \in 1 .. n |-> s[f[i]]]
                   /\ standing(s, S) \in Seq(M) /\ Len(standing(s, S)) = n
<1> DEFINE n == Cardinality(S)
           f == placed(S)
<1>1. S \in SUBSET Nat /\ IsFiniteSet(S)
  BY SomePlaces
<1>2. Lists(f, n, S)
  BY <1>1, PlacedLists
<1>3. standing(s, S) = [i \in 1 .. n |-> s[f[i]]]
  BY DEF standing
<1> HIDE DEF n, f
<1>4. n \in Nat /\ \A i \in 1 .. n : f[i] \in DOMAIN s
  BY <1>2 DEF Lists
<1>5. standing(s, S) \in Seq(M) /\ Len(standing(s, S)) = n
  BY <1>3, <1>4
<1> QED  BY <1>2, <1>3, <1>5 DEF n

\* Each of the first m entries of p is told apart from the others; is one of
\* the first n of s; comes behind those texts of s that stand before it there;
\* and all texts of s are among them.
Apart(p, m) == \A j, k \in 1 .. m : p[j] = p[k] => j = k
Within(p, m, s, n) == \A k \in 1 .. m : \E i \in 1 .. n : s[i] = p[k]
Before(s, n, i, t) == \A j \in 1 .. n : s[j] = t => i < j
AsIn(p, m, s, n, T) ==
  \A k \in 1 .. m, i \in 1 .. n :
    s[i] \in T /\ Before(s, n, i, p[k]) => \E h \in 1 .. k - 1 : p[h] = s[i]
AllOf(p, m, s, n, T) == \A i \in 1 .. n : s[i] \in T => \E k \in 1 .. m : p[k] = s[i]

\* A list is no longer than another one that holds all of its entries, when
\* they are told apart.
LEMMA NoLonger ==
  ASSUME NEW m \in Nat, NEW n \in Nat, NEW a, NEW b,
         Apart(a, m), Within(a, m, b, n)
  PROVE  m <= n
<1> USE DEF Apart, Within
<1> DEFINE place == [j \in 1 .. m |-> CHOOSE k \in 1 .. n : b[k] = a[j]]
<1>1. \A j \in 1 .. m : place[j] \in 1 .. n /\ b[place[j]] = a[j]
  OBVIOUS
<1>2. place \in [1 .. m -> 1 .. n]
  BY <1>1
<1>3. \A j, k \in 1 .. m : place[j] = place[k] => j = k
  BY <1>1
<1> HIDE DEF place
<1>4. /\ IsFiniteSet(1 .. m) /\ Cardinality(1 .. m) = m
      /\ IsFiniteSet(1 .. n) /\ Cardinality(1 .. n) = n
  <2>1. 1 \in Int /\ m \in Int /\ n \in Int
    OBVIOUS
  <2>2. /\ IsFiniteSet(1 .. m) /\ Cardinality(1 .. m) = IF 1 > m THEN 0 ELSE m - 1 + 1
        /\ IsFiniteSet(1 .. n) /\ Cardinality(1 .. n) = IF 1 > n THEN 0 ELSE n - 1 + 1
    BY <2>1, FS_Interval, Zenon
  <2> QED  BY <2>2
<1>5. ASSUME n < m PROVE FALSE
  <2>1. \E j, k \in 1 .. m : j # k /\ place[j] = place[k]
    <3> DEFINE A == 1 .. m
               B == 1 .. n
    <3>1. /\ IsFiniteSet(A) /\ IsFiniteSet(B) /\ Cardinality(B) < Cardinality(A)
          /\ place \in [A -> B]
      BY <1>2, <1>4, <1>5
    <3> HIDE DEF A, B
    <3>2. \E j, k \in A : j # k /\ place[j] = place[k]
      BY <3>1, FS_PigeonHole
    <3> QED  BY <3>2 DEF A
  <2> QED  BY <1>3, <2>1
<1> QED  BY <1>5

\* The first P of the entries of s that are in T, once each and in its order.
FirstFew(p, s, T, P) ==
  /\ p \in Seq(T) /\ Len(p) \in Nat
  /\ Within(p, Len(p), s, Len(s)) /\ Apart(p, Len(p)) /\ AsIn(p, Len(p), s, Len(s), T)
  /\ Len(p) <= P /\ (Len(p) < P => AllOf(p, Len(p), s, Len(s), T))

LEMMA UptoIs ==
  ASSUME NEW M, NEW d \in Seq(M), NEW P \in Nat
  PROVE  /\ Upto(d, P) \in Seq(M) /\ Len(Upto(d, P)) <= P /\ Len(Upto(d, P)) <= Len(d)
         /\ (Len(Upto(d, P)) < P => Upto(d, P) = d)
         /\ (Len(d) <= P => Len(Upto(d, P)) = Len(d))
         /\ \A k \in 1 .. Len(Upto(d, P)) : Upto(d, P)[k] = d[k]
<1>1. CASE Len(d) < P
  <2>1. Upto(d, P) = d
    BY <1>1 DEF Upto
  <2> QED  BY <1>1, <2>1
<1>2. CASE ~(Len(d) < P)
  <2>1. Upto(d, P) = SubSeq(d, 1, P)
    BY <1>2 DEF Upto
  <2>2. /\ SubSeq(d, 1, P) \in Seq(M) /\ Len(SubSeq(d, 1, P)) = P
        /\ \A k \in 1 .. P : SubSeq(d, 1, P)[k] = d[k]
    BY <1>2
  <2> QED  BY <1>2, <2>1, <2>2
<1> QED  BY <1>1, <1>2

\* The first ones of those that stand at some places.
LEMMA FirstOf ==
  ASSUME NEW M, NEW s \in Seq(M), NEW P \in Nat
  PROVE  FirstFew(Upto(distinct(s), P), s, M, P)
<1> DEFINE S == {i \in DOMAIN s : \A j \in 1 .. i - 1 : s[j] # s[i]}
           d == distinct(s)
           p == Upto(d, P)
<1>1. S \in SUBSET DOMAIN s
  OBVIOUS
<1>2. d = standing(s, S)
  BY DEF distinct
<1>3. DOMAIN s = 1 .. Len(s) /\ Len(s) \in Nat /\ \A i \in DOMAIN s : s[i] \in M
  OBVIOUS
<1>4. /\ \A i \in S : i \in 1 .. Len(s) /\ \A j \in 1 .. i - 1 : s[j] # s[i]
      /\ \A i \in 1 .. Len(s) : i \in S \/ \E j \in 1 .. i - 1 : s[j] = s[i]
  BY <1>3
<1>5. ASSUME NEW i \in 1 .. Len(s) PROVE \E j \in S : s[j] = s[i] /\ j <= i
  <2> DEFINE E == {j \in 1 .. Len(s) : s[j] = s[i]}
  <2>1. E # {} /\ E \in SUBSET Nat
    BY <1>5
  <2>2. PICK j \in E : \A k \in E : j <= k
    <3> HIDE DEF E
    <3> QED  BY <2>1, LeastIsThere
  <2>3. \A k \in 1 .. j - 1 : s[k] # s[j]
    BY <2>2, <1>3
  <2> QED  BY <2>2, <2>3, <1>3
<1> HIDE DEF S, d
<1>6. PICK n, f : /\ Lists(f, n, S) /\ n = Cardinality(S)
                  /\ d = [i \in 1 .. n |-> s[f[i]]] /\ d \in Seq(M) /\ Len(d) = n
  BY <1>1, <1>2, Stands
<1>7. /\ n \in Nat /\ \A k \in 1 .. n : f[k] \in S /\ d[k] = s[f[k]]
      /\ \A i \in S : \E k \in 1 .. n : f[k] = i
      /\ \A j, k \in 1 .. n : j < k => f[j] < f[k]
  BY <1>6 DEF Lists
<1>8. /\ p \in Seq(M) /\ Len(p) \in Nat /\ Len(p) <= P /\ Len(p) <= n /\ (Len(p) < P => Len(p) = n)
      /\ DOMAIN p = 1 .. Len(p) /\ \A k \in 1 .. Len(p) : p[k] = d[k]
  <2>1. d \in Seq(M) /\ Len(d) = n
    BY <1>6
  <2>2. /\ p \in Seq(M) /\ Len(p) <= P /\ Len(p) <= Len(d) /\ (Len(p) < P => p = d)
        /\ \A k \in 1 .. Len(p) : p[k] = d[k]
    BY <2>1, UptoIs
  <2> HIDE DEF p
  <2> QED  BY <2>1, <2>2
<1> HIDE DEF p
<1>9. \A k \in 1 .. Len(p) : k \in 1 .. n /\ f[k] \in S /\ f[k] \in 1 .. Len(s) /\ p[k] = s[f[k]]
  <2> TAKE k \in 1 .. Len(p)
  <2>1. p[k] = d[k]
    BY <1>8
  <2>2. k \in Nat /\ 1 <= k /\ k <= Len(p) /\ Len(p) <= n
    BY <1>8
  <2>3. k \in 1 .. n
    BY <2>2, <1>7
  <2> QED  BY <1>4, <1>7, <2>1, <2>3
<1>10. ASSUME NEW i \in S, NEW j \in S, s[i] = s[j] PROVE i = j
  BY <1>3, <1>4, <1>10
<1>11. Apart(p, Len(p))
  <2> SUFFICES ASSUME NEW j \in 1 .. Len(p), NEW k \in 1 .. Len(p), p[j] = p[k] PROVE j = k
    BY DEF Apart
  <2>1. f[j] = f[k]
    BY <1>9, <1>10
  <2>2. f[j] \in Nat /\ j \in 1 .. n /\ k \in 1 .. n
    BY <1>9
  <2>3. ~(j < k) /\ ~(k < j)
    BY <1>7, <2>1, <2>2
  <2> QED  BY <2>3
<1>12. AsIn(p, Len(p), s, Len(s), M)
  <2> SUFFICES ASSUME NEW k \in 1 .. Len(p), NEW i \in 1 .. Len(s), Before(s, Len(s), i, p[k])
               PROVE  \E h \in 1 .. k - 1 : p[h] = s[i]
    BY DEF AsIn
  <2>1. PICK j \in S : s[j] = s[i] /\ j <= i
    BY <1>5
  <2>2. PICK h \in 1 .. n : f[h] = j
    BY <1>7
  <2>3. j \in 1 .. Len(s) /\ i < f[k] /\ f[k] \in 1 .. Len(s)
    BY <1>9, <1>4 DEF Before
  <2>4. h < k
    <3>1. f[h] < f[k]
      BY <2>1, <2>2, <2>3
    <3>2. k \in 1 .. n
      BY <1>9
    <3> QED  BY <1>7, <2>2, <2>3, <3>1, <3>2
  <2>5. h \in 1 .. Len(p) /\ p[h] = s[f[h]]
    BY <2>4, <1>9
  <2> QED  BY <2>1, <2>2, <2>4, <2>5
<1>13. ASSUME Len(p) < P PROVE AllOf(p, Len(p), s, Len(s), M)
  <2> SUFFICES ASSUME NEW i \in 1 .. Len(s) PROVE \E k \in 1 .. Len(p) : p[k] = s[i]
    BY DEF AllOf
  <2>1. PICK j \in S : s[j] = s[i] /\ j <= i
    BY <1>5
  <2>2. PICK h \in 1 .. n : f[h] = j
    BY <1>7
  <2>3. h \in 1 .. Len(p)
    BY <1>8, <1>13
  <2> QED  BY <2>1, <2>2, <2>3, <1>9
<1>14. Within(p, Len(p), s, Len(s))
  BY <1>9 DEF Within
<1>15. FirstFew(p, s, M, P)
  BY <1>8, <1>11, <1>12, <1>13, <1>14 DEF FirstFew
<1> QED  BY <1>15 DEF p, d

LEMMA NoteBounds ==
  /\ POINTS \in Nat /\ POINTS >= 1 /\ SPEAKERS \in Nat /\ SPEAKERS >= 1
  /\ AGENT_NOTES \in Nat /\ AGENT_NOTES >= 1 /\ MaxField \in Nat /\ MaxField >= 1
<1>1. {DECISIONS, POINTS, SPEAKERS, AGENT_NOTES, MaxField, MaxTaken} \subseteq Nat \ {0}
  BY NotesAssumption, Zenon DEF NotesAssumption
<1> QED  BY <1>1

\* What may stand in a list of the answer, and what of it is a text.
Entries == NoteTexts \cup {""}
LEMMA TextOrNone ==
  /\ NoteTexts \subseteq Entries
  /\ \A t \in Entries : t \in NoteTexts <=> t # ""
<1>1. "" \notin NoteTexts
  BY NotesAssumption, Zenon
<1> QED  BY <1>1 DEF Entries

nonblank(value) == {i \in DOMAIN value : value[i] # ""}

LEMMA LinesAre ==
  ASSUME NEW value \in Seq(Entries), value # NoList, NEW P \in Nat
  PROVE  FirstFew(lines(value, P), value, NoteTexts, P)
<1> DEFINE S == nonblank(value)
           s == standing(value, S)
           q == lines(value, P)
<1>1. S \in SUBSET DOMAIN value
  BY DEF nonblank
<1>2. DOMAIN value = 1 .. Len(value) /\ Len(value) \in Nat
  OBVIOUS
<1>3. \A i \in 1 .. Len(value) : i \in S <=> value[i] \in NoteTexts
  <2> TAKE i \in 1 .. Len(value)
  <2>1. value[i] \in Entries /\ i \in DOMAIN value
    BY <1>2
  <2>2. i \in S <=> value[i] # ""
    BY <2>1, Zenon DEF nonblank
  <2> QED  BY <2>1, <2>2, TextOrNone, Zenon
<1>4. PICK n, f : /\ Lists(f, n, S) /\ s = [i \in 1 .. n |-> value[f[i]]] /\ Len(s) = n
  <2> HIDE DEF S
  <2>1. \E n, f : /\ Lists(f, n, S) /\ n = Cardinality(S)
                  /\ standing(value, S) = [i \in 1 .. n |-> value[f[i]]]
                  /\ standing(value, S) \in Seq(Entries) /\ Len(standing(value, S)) = n
    BY <1>1, Stands
  <2> QED  BY <2>1, Zenon
<1>5. q = Upto(distinct(s), P)
  BY Zenon DEF lines, nonblank
<1> HIDE DEF S, s, q
<1>6. /\ n \in Nat /\ \A i \in 1 .. n : f[i] \in S /\ f[i] \in 1 .. Len(value) /\ s[i] = value[f[i]]
      /\ \A i \in S : \E k \in 1 .. n : f[k] = i
      /\ \A j, k \in 1 .. n : j < k => f[j] < f[k]
  BY <1>1, <1>2, <1>4 DEF Lists
<1>7. s \in Seq(NoteTexts) /\ DOMAIN s = 1 .. n
  BY <1>3, <1>4, <1>6
<1>8. FirstFew(q, s, NoteTexts, P)
  BY <1>5, <1>7, FirstOf
<1>9. /\ q \in Seq(NoteTexts) /\ Len(q) \in Nat /\ Len(q) <= P
      /\ Within(q, Len(q), s, n) /\ Apart(q, Len(q)) /\ AsIn(q, Len(q), s, n, NoteTexts)
      /\ (Len(q) < P => AllOf(q, Len(q), s, n, NoteTexts))
  BY <1>4, <1>8 DEF FirstFew
<1>10. Within(q, Len(q), value, Len(value))
  BY <1>6, <1>9 DEF Within
<1>11. ASSUME NEW i \in 1 .. Len(value), value[i] \in NoteTexts
       PROVE  \E k \in 1 .. n : f[k] = i /\ s[k] = value[i] /\ s[k] \in NoteTexts
  BY <1>3, <1>6, <1>11
<1>12. AsIn(q, Len(q), value, Len(value), NoteTexts)
  <2> SUFFICES ASSUME NEW k \in 1 .. Len(q), NEW i \in 1 .. Len(value), value[i] \in NoteTexts,
                      Before(value, Len(value), i, q[k])
               PROVE  \E h \in 1 .. k - 1 : q[h] = value[i]
    BY DEF AsIn
  <2>1. PICK e \in 1 .. n : f[e] = i /\ s[e] = value[i] /\ s[e] \in NoteTexts
    BY <1>11
  <2>2. Before(s, n, e, q[k])
    <3> SUFFICES ASSUME NEW j \in 1 .. n, s[j] = q[k] PROVE e < j
      BY DEF Before
    <3>1. f[e] < f[j]
      BY <1>6, <2>1 DEF Before
    <3>2. f[e] \in Nat /\ f[j] \in Nat
      BY <1>6
    <3> QED  BY <1>6, <3>1, <3>2
  <2>3. \E h \in 1 .. k - 1 : q[h] = s[e]
    BY <1>9, <2>1, <2>2 DEF AsIn
  <2> QED  BY <2>1, <2>3
<1>13. ASSUME Len(q) < P PROVE AllOf(q, Len(q), value, Len(value), NoteTexts)
  <2> SUFFICES ASSUME NEW i \in 1 .. Len(value), value[i] \in NoteTexts
               PROVE  \E k \in 1 .. Len(q) : q[k] = value[i]
    BY DEF AllOf
  <2>1. PICK e \in 1 .. n : s[e] = value[i] /\ s[e] \in NoteTexts
    BY <1>11
  <2> QED  BY <1>9, <1>13, <2>1 DEF AllOf
<1>14. FirstFew(q, value, NoteTexts, P)
  BY <1>9, <1>10, <1>12, <1>13 DEF FirstFew
<1> QED  BY <1>14 DEF q

\* What the first n entries of the answer say of somebody.
SaidBy(l, t, n) == \E m \in mentions(l, t) : m[1] <= n
Sooner(l, p, m) ==
  \A k \in 1 .. m, t \in NoteTexts : sooner(l, t, p[k]) => \E h \in 1 .. k - 1 : p[h] = t
AllSaid(l, n, p, m) == \A t \in NoteTexts : SaidBy(l, t, n) => \E k \in 1 .. m : p[k] = t
TellsOf(l, n, p) ==
  /\ p \in Seq(NoteTexts) /\ Len(p) \in Nat /\ Len(p) <= POINTS
  /\ \A k \in 1 .. Len(p) : SaidBy(l, p[k], n)
  /\ Apart(p, Len(p)) /\ Sooner(l, p, Len(p))
  /\ (Len(p) < POINTS => AllSaid(l, n, p, Len(p)))

\* The n-th entry of the answer says value of l.
Says(n, l, value) ==
  /\ n \in 1 .. MaxField /\ n \in DOMAIN answered.speakers
  /\ answered.speakers[n].label = l /\ answered.speakers[n].points = value
  /\ value # NoList /\ value \in Seq(Entries) /\ Len(value) <= MaxField

LEMMA MentionsIn ==
  ASSUME NEW n, NEW l, NEW value, Says(n, l, value)
  PROVE  /\ \A t : \A i \in 1 .. Len(value) : value[i] = t => <<n, i>> \in mentions(l, t)
         /\ \A t : \A m \in mentions(l, t) : m[1] = n => m[2] \in 1 .. Len(value) /\ value[m[2]] = t
<1>1. n \in 1 .. MaxField /\ value \in Seq(Entries) /\ Len(value) <= MaxField
  BY DEF Says
<1>2. DOMAIN value = 1 .. Len(value) /\ Len(value) \in Nat
  BY <1>1
<1>3. ASSUME NEW t, NEW i \in 1 .. Len(value), value[i] = t
      PROVE  <<n, i>> \in mentions(l, t)
  <2>1. i \in DOMAIN value /\ i \in 1 .. MaxField
    BY <1>1, <1>2, NoteBounds
  <2>2. <<n, i>> \in (1 .. MaxField) \X (1 .. MaxField) /\ <<n, i>>[1] = n /\ <<n, i>>[2] = i
    BY <1>1, <2>1
  <2> QED  BY <1>3, <2>1, <2>2 DEF mentions, Says
<1>4. ASSUME NEW t, NEW m \in mentions(l, t), m[1] = n
      PROVE  m[2] \in 1 .. Len(value) /\ value[m[2]] = t
  BY <1>2, <1>4 DEF mentions, Says
<1> QED  BY <1>3, <1>4

LEMMA MentionsAre ==
  ASSUME NEW l, NEW t, NEW m \in mentions(l, t)
  PROVE  m[1] \in Nat /\ m[1] >= 1 /\ m[2] \in Nat
<1>1. m \in (1 .. MaxField) \X (1 .. MaxField)
  BY DEF mentions
<1> QED  BY <1>1, NoteBounds

\* The points of one more entry.
LEMMA MoreIsTold ==
  ASSUME NEW l, NEW n, NEW value, Says(n, l, value), NEW p, TellsOf(l, n - 1, p),
         NEW q, FirstFew(q, value, NoteTexts, POINTS)
  PROVE  TellsOf(l, n, Upto(distinct(p \o q), POINTS))
<1> DEFINE s == p \o q
           r == Upto(distinct(s), POINTS)
           a == Len(p)
           b == Len(q)
           c == Len(value)
<1>1. POINTS \in Nat /\ POINTS >= 1 /\ n \in Nat /\ n >= 1
  BY NoteBounds DEF Says
<1>2. /\ p \in Seq(NoteTexts) /\ a \in Nat /\ a <= POINTS
      /\ \A k \in 1 .. a : SaidBy(l, p[k], n - 1)
      /\ Apart(p, a) /\ Sooner(l, p, a)
      /\ (a < POINTS => AllSaid(l, n - 1, p, a))
  BY DEF TellsOf
<1>3. /\ q \in Seq(NoteTexts) /\ b \in Nat /\ b <= POINTS
      /\ Within(q, b, value, c) /\ Apart(q, b) /\ AsIn(q, b, value, c, NoteTexts)
      /\ (b < POINTS => AllOf(q, b, value, c, NoteTexts))
  BY DEF FirstFew
<1>4. /\ s \in Seq(NoteTexts) /\ Len(s) = a + b
      /\ \A i \in 1 .. a : s[i] = p[i] /\ p[i] \in NoteTexts
      /\ \A i \in 1 .. b : s[a + i] = q[i] /\ q[i] \in NoteTexts
  BY <1>2, <1>3
<1>5. \A i \in 1 .. a + b : i \in 1 .. a \/ (i - a \in 1 .. b /\ a + (i - a) = i)
  BY <1>2, <1>3
<1>6. FirstFew(r, s, NoteTexts, POINTS)
  <2> HIDE DEF s
  <2> QED  BY <1>1, <1>4, FirstOf
<1> HIDE DEF s, r, a, b, c
<1>7. /\ r \in Seq(NoteTexts) /\ Len(r) \in Nat /\ Len(r) <= POINTS
      /\ Within(r, Len(r), s, a + b) /\ Apart(r, Len(r)) /\ AsIn(r, Len(r), s, a + b, NoteTexts)
      /\ (Len(r) < POINTS => AllOf(r, Len(r), s, a + b, NoteTexts))
  BY <1>4, <1>6 DEF FirstFew
<1>8. \A t : \A i \in 1 .. c : value[i] = t => <<n, i>> \in mentions(l, t)
  BY MentionsIn DEF c
<1>9. \A t : \A m \in mentions(l, t) :
        /\ m[1] \in Nat /\ m[2] \in Nat
        /\ m[1] <= n => m[1] <= n - 1 \/ (m[1] = n /\ m[2] \in 1 .. c /\ value[m[2]] = t)
  <2> TAKE t
  <2> TAKE m \in mentions(l, t)
  <2>1. m[1] \in Nat /\ m[2] \in Nat
    BY MentionsAre
  <2>2. m[1] = n => m[2] \in 1 .. c /\ value[m[2]] = t
    BY MentionsIn DEF c
  <2> QED  BY <1>1, <2>1, <2>2
<1>10. ASSUME NEW k \in 1 .. Len(r) PROVE SaidBy(l, r[k], n)
  <2>1. PICK i \in 1 .. a + b : s[i] = r[k]
    BY <1>7 DEF Within
  <2>2. CASE i \in 1 .. a
    <3>1. SaidBy(l, r[k], n - 1)
      BY <1>2, <1>4, <2>1, <2>2
    <3>2. PICK m \in mentions(l, r[k]) : m[1] <= n - 1
      BY <3>1 DEF SaidBy
    <3>3. m[1] <= n
      BY <1>1, <1>9, <3>2
    <3> QED  BY <3>3 DEF SaidBy
  <2>3. CASE i - a \in 1 .. b /\ a + (i - a) = i
    <3>1. r[k] = q[i - a]
      BY <1>4, <2>1, <2>3
    <3>2. PICK j \in 1 .. c : value[j] = r[k]
      BY <1>3, <2>3, <3>1 DEF Within
    <3>3. <<n, j>> \in mentions(l, r[k]) /\ <<n, j>>[1] <= n
      BY <1>1, <1>8, <3>2
    <3> QED  BY <3>3 DEF SaidBy
  <2> QED  BY <1>5, <2>2, <2>3
<1>11. ASSUME Len(r) < POINTS PROVE AllSaid(l, n, r, Len(r))
  <2> SUFFICES ASSUME NEW t \in NoteTexts, SaidBy(l, t, n)
               PROVE  \E k \in 1 .. Len(r) : r[k] = t
    BY DEF AllSaid
  <2>1. AllOf(r, Len(r), s, a + b, NoteTexts)
    BY <1>7, <1>11
  <2>2. ASSUME NEW i \in 1 .. a PROVE \E k \in 1 .. Len(r) : r[k] = p[i]
    <3>1. i \in 1 .. a + b /\ s[i] = p[i] /\ s[i] \in NoteTexts
      BY <1>2, <1>3, <1>4
    <3> QED  BY <2>1, <3>1 DEF AllOf
  <2>3. ASSUME NEW i \in 1 .. b PROVE \E k \in 1 .. Len(r) : r[k] = q[i]
    <3>1. a + i \in 1 .. a + b /\ s[a + i] = q[i] /\ s[a + i] \in NoteTexts
      BY <1>2, <1>3, <1>4
    <3> QED  BY <2>1, <3>1 DEF AllOf
  <2>4. a <= Len(r)
    <3>1. Within(p, a, r, Len(r))
      BY <2>2 DEF Within
    <3> QED  BY <1>2, <1>7, <3>1, NoLonger
  <2>5. b <= Len(r)
    <3>1. Within(q, b, r, Len(r))
      BY <2>3 DEF Within
    <3> QED  BY <1>3, <1>7, <3>1, NoLonger
  <2>6. a < POINTS /\ b < POINTS
    BY <1>1, <1>2, <1>3, <1>7, <1>11, <2>4, <2>5
  <2>7. PICK m \in mentions(l, t) : m[1] <= n
    BY DEF SaidBy
  <2>8. CASE m[1] <= n - 1
    <3>1. SaidBy(l, t, n - 1)
      BY <2>8 DEF SaidBy
    <3>2. PICK i \in 1 .. a : p[i] = t
      BY <1>2, <2>6, <3>1 DEF AllSaid
    <3> QED  BY <2>2, <3>2
  <2>9. CASE m[2] \in 1 .. c /\ value[m[2]] = t
    <3>1. PICK i \in 1 .. b : q[i] = t
      BY <1>3, <2>6, <2>9 DEF AllOf
    <3> QED  BY <2>3, <3>1
  <2> QED  BY <1>9, <2>7, <2>8, <2>9
<1>12. Sooner(l, r, Len(r))
  <2> SUFFICES ASSUME NEW k \in 1 .. Len(r), NEW t \in NoteTexts, sooner(l, t, r[k])
               PROVE  \E h \in 1 .. k - 1 : r[h] = t
    BY DEF Sooner
  <2> DEFINE u == r[k]
  <2>1. PICK i \in 1 .. a + b : s[i] = u
    BY <1>7 DEF Within
  <2>2. sooner(l, t, u)
    OBVIOUS
  <2> HIDE DEF u
  <2>3. ASSUME NEW j \in 1 .. a + b, s[j] \in NoteTexts, Before(s, a + b, j, u)
        PROVE  \E h \in 1 .. k - 1 : r[h] = s[j]
    BY <1>7, <2>3 DEF AsIn, u
  <2>4. CASE \E e \in 1 .. a : p[e] = u
    <3>1. PICK e \in 1 .. a : p[e] = u
      BY <2>4
    <3>2. PICK h \in 1 .. e - 1 : p[h] = t
      BY <1>2, <2>2, <3>1 DEF Sooner
    <3>3. h \in 1 .. a /\ h \in 1 .. a + b /\ h < e
      BY <1>2, <1>3
    <3>4. s[h] = t
      BY <1>4, <3>2, <3>3
    <3>5. ASSUME NEW j \in 1 .. a + b, s[j] = u PROVE h < j
      <4>1. CASE j \in 1 .. a
        <5>1. p[j] = p[e]
          BY <1>4, <3>1, <3>5, <4>1
        <5>2. j = e
          BY <1>2, <4>1, <5>1 DEF Apart
        <5> QED  BY <3>3, <5>2
      <4>2. CASE ~(j \in 1 .. a)
        BY <1>2, <3>3, <4>2
      <4> QED  BY <4>1, <4>2
    <3>6. Before(s, a + b, h, u)
      BY <3>5 DEF Before
    <3> QED  BY <2>3, <3>3, <3>4, <3>6
  <2>5. CASE ~\E e \in 1 .. a : p[e] = u
    <3>1. ASSUME NEW j \in 1 .. a + b, s[j] = u
          PROVE  j - a \in 1 .. b /\ a + (j - a) = j /\ q[j - a] = u
      BY <1>4, <1>5, <2>5, <3>1
    <3>2. ASSUME NEW h \in 1 .. a PROVE \E j \in 1 .. k - 1 : r[j] = p[h]
      <4>1. h \in 1 .. a + b /\ s[h] = p[h] /\ s[h] \in NoteTexts
        BY <1>2, <1>3, <1>4
      <4>2. ASSUME NEW j \in 1 .. a + b, s[j] = u PROVE h < j
        BY <1>2, <3>1, <4>2
      <4>3. Before(s, a + b, h, u)
        BY <4>2 DEF Before
      <4> QED  BY <2>3, <4>1, <4>3
    <3>3. k - 1 \in Nat /\ k - 1 < POINTS
      BY <1>1, <1>7
    <3>4. a < POINTS
      <4>1. Within(p, a, r, k - 1)
        BY <3>2 DEF Within
      <4>2. a <= k - 1
        BY <1>2, <3>3, <4>1, NoLonger
      <4> QED  BY <1>1, <1>2, <3>3, <4>2
    <3>5. PICK m \in mentions(l, t) :
            \A o \in mentions(l, u) : m[1] < o[1] \/ (m[1] = o[1] /\ m[2] < o[2])
      BY <2>2 DEF sooner
    <3>6. ASSUME NEW j \in 1 .. c, value[j] = u PROVE m[1] < n \/ (m[1] = n /\ m[2] < j)
      <4>1. <<n, j>> \in mentions(l, u) /\ <<n, j>>[1] = n /\ <<n, j>>[2] = j
        BY <1>8, <3>6
      <4> QED  BY <3>5, <4>1
    <3> DEFINE e == i - a
    <3>7. e \in 1 .. b /\ q[e] = u
      BY <2>1, <3>1
    <3> HIDE DEF e
    <3>8. PICK j \in 1 .. c : value[j] = u
      BY <1>3, <3>7 DEF Within
    <3>9. m[1] <= n
      BY <1>1, <1>9, <3>6, <3>8
    <3>10. CASE m[1] <= n - 1
      <4>1. SaidBy(l, t, n - 1)
        BY <3>10 DEF SaidBy
      <4>2. PICK h \in 1 .. a : p[h] = t
        BY <1>2, <3>4, <4>1 DEF AllSaid
      <4> QED  BY <3>2, <4>2
    <3>11. CASE m[1] = n /\ m[2] \in 1 .. c /\ value[m[2]] = t
      <4>1. Before(value, c, m[2], q[e])
        BY <1>1, <3>6, <3>7, <3>11 DEF Before
      <4>2. PICK h \in 1 .. e - 1 : q[h] = t
        BY <1>3, <3>7, <3>11, <4>1 DEF AsIn
      <4>3. h \in 1 .. b /\ h < e /\ a + h \in 1 .. a + b
        BY <1>2, <1>3, <3>7
      <4>4. s[a + h] = t
        BY <1>4, <4>2, <4>3
      <4>5. ASSUME NEW x0 \in 1 .. a + b, s[x0] = u PROVE a + h < x0
        <5>1. x0 - a \in 1 .. b /\ a + (x0 - a) = x0 /\ q[x0 - a] = q[e]
          BY <3>1, <3>7, <4>5
        <5>2. x0 - a = e
          BY <1>3, <3>7, <5>1 DEF Apart
        <5> QED  BY <1>2, <4>3, <5>1, <5>2
      <4>6. Before(s, a + b, a + h, u)
        BY <4>5 DEF Before
      <4> QED  BY <2>3, <4>3, <4>4, <4>6
    <3> QED  BY <1>9, <3>9, <3>10, <3>11
  <2> QED  BY <2>4, <2>5
<1>13. TellsOf(l, n, r)
  BY <1>7, <1>10, <1>11, <1>12 DEF TellsOf
<1> QED  BY <1>13 DEF r, s

LEMMA SomeOf ==
  ASSUME NEW M, NEW n \in Nat, NEW s \in SeqOf(M, n)
  PROVE  s \in Seq(M) /\ Len(s) \in Nat /\ Len(s) <= n /\ DOMAIN s = 1 .. Len(s)
<1>1. PICK m \in 0 .. n : s \in [1 .. m -> M]
  BY DEF SeqOf
<1>2. s \in Seq(M) /\ Len(s) = m
  BY <1>1
<1> QED  BY <1>1, <1>2

\* What the answer may say of people: entries with lists, or what is no list.
LEMMA EntryIs ==
  ASSUME answered \in Arguments, answered.speakers # NoList
  PROVE  /\ Len(answered.speakers) \in Nat /\ DOMAIN answered.speakers = 1 .. Len(answered.speakers)
         /\ answered.speakers \in Seq([label : NoteLabels, points : Fields])
         /\ \A n \in 1 .. Len(answered.speakers) :
              /\ n \in 1 .. MaxField
              /\ \/ answered.speakers[n].points = NoList
                 \/ Says(n, answered.speakers[n].label, answered.speakers[n].points)
<1> DEFINE E == [label : NoteLabels, points : Fields]
           s == answered.speakers
<1>1. s \in SeqOf(E, MaxField)
  BY Zenon DEF Arguments
<1> HIDE DEF E, s
<1>2. s \in Seq(E) /\ Len(s) \in Nat /\ Len(s) <= MaxField /\ DOMAIN s = 1 .. Len(s)
  BY <1>1, SomeOf, NoteBounds
<1>3. ASSUME NEW n \in 1 .. Len(s)
      PROVE  n \in 1 .. MaxField /\ (s[n].points = NoList \/ Says(n, s[n].label, s[n].points))
  <2>1. n \in 1 .. MaxField /\ n \in DOMAIN s /\ s[n] \in E
    BY <1>2, NoteBounds
  <2>2. s[n].points \in Fields
    BY <2>1, Zenon DEF E
  <2>3. ASSUME s[n].points # NoList
        PROVE  s[n].points \in Seq(Entries) /\ Len(s[n].points) <= MaxField
    <3>1. s[n].points \in SeqOf(Entries, MaxField)
      BY <2>2, <2>3, Zenon DEF Fields, Entries
    <3> QED  BY <3>1, SomeOf, NoteBounds
  <2> QED  BY <2>1, <2>3, Zenon DEF Says, s
<1> QED  BY <1>2, <1>3 DEF s, E

\* What has zero and with a number the next one has all of them.
LEMMA ByCounting ==
  ASSUME NEW S, 0 \in S, \A n \in Nat : n \in S => n + 1 \in S
  PROVE  \A n \in Nat : n \in S
<1> DEFINE others == {n \in Nat : n \notin S}
<1> SUFFICES ASSUME others # {} PROVE FALSE
  OBVIOUS
<1>1. PICK n \in others : \A k \in others : n <= k
  <2>1. others \in SUBSET Nat
    OBVIOUS
  <2> HIDE DEF others
  <2> QED  BY <2>1, LeastIsThere
<1>2. n \in Nat /\ n \notin S
  BY <1>1
<1>3. n - 1 \in Nat /\ n - 1 \notin others
  BY <1>1, <1>2
<1> QED  BY <1>2, <1>3

\* An entry that says nothing of somebody leaves their points as they are.
LEMMA NoMoreIsTold ==
  ASSUME NEW l, NEW n \in Nat, n >= 1, NEW p, TellsOf(l, n - 1, p),
         \A t \in NoteTexts : \A m \in mentions(l, t) : m[1] # n
  PROVE  TellsOf(l, n, p)
<1>1. /\ p \in Seq(NoteTexts) /\ Len(p) \in Nat /\ Len(p) <= POINTS
      /\ Apart(p, Len(p)) /\ Sooner(l, p, Len(p))
  BY DEF TellsOf
<1>2. \A k \in 1 .. Len(p) : SaidBy(l, p[k], n)
  <2> TAKE k \in 1 .. Len(p)
  <2>1. PICK m \in mentions(l, p[k]) : m[1] <= n - 1
    BY DEF TellsOf, SaidBy
  <2>2. m[1] <= n
    BY <2>1, MentionsAre
  <2> QED  BY <2>2 DEF SaidBy
<1>3. ASSUME Len(p) < POINTS PROVE AllSaid(l, n, p, Len(p))
  <2> SUFFICES ASSUME NEW t \in NoteTexts, SaidBy(l, t, n) PROVE \E k \in 1 .. Len(p) : p[k] = t
    BY DEF AllSaid
  <2>1. PICK m \in mentions(l, t) : m[1] <= n
    BY DEF SaidBy
  <2>2. m[1] <= n - 1
    BY <2>1, MentionsAre
  <2>3. SaidBy(l, t, n - 1)
    BY <2>2 DEF SaidBy
  <2> QED  BY <1>3, <2>3 DEF TellsOf, AllSaid
<1> QED  BY <1>1, <1>2, <1>3 DEF TellsOf

LEMMA PointsTold ==
  ASSUME answered \in Arguments, answered.speakers # NoList, NEW l
  PROVE  TellsOf(l, Len(answered.speakers), pointsOf(answered.speakers, l))
<1> DEFINE entries == answered.speakers
           L == Len(entries)
           said(n) == lines(entries[n].points, POINTS)
           more(n, before) ==
             IF entries[n].label # l \/ said(n) = <<>> THEN before
             ELSE Upto(distinct(before \o said(n)), POINTS)
           upTo(c, m) == [n \in 0 .. m |-> IF n = 0 THEN <<>> ELSE more(n, c[n - 1])]
<1>1. /\ L \in Nat /\ DOMAIN entries = 1 .. L
      /\ \A n \in 1 .. L :
           /\ n \in 1 .. MaxField
           /\ entries[n].points = NoList \/ Says(n, entries[n].label, entries[n].points)
  BY EntryIs
<1>2. ASSUME NEW n \in 1 .. L, NEW p, TellsOf(l, n - 1, p) PROVE TellsOf(l, n, more(n, p))
  <2>1. n \in Nat /\ n >= 1
    BY <1>1
  <2>2. CASE entries[n].label # l
    <3>1. \A t \in NoteTexts : \A m \in mentions(l, t) : m[1] # n
      BY <2>2 DEF mentions
    <3>2. more(n, p) = p
      BY <2>2, Zenon
    <3> QED  BY <1>2, <2>1, <3>1, <3>2, NoMoreIsTold
  <2>3. CASE entries[n].label = l /\ entries[n].points = NoList
    <3>1. \A t \in NoteTexts : \A m \in mentions(l, t) : m[1] # n
      BY <2>3 DEF mentions
    <3>2. said(n) = <<>>
      BY <2>3, Zenon DEF lines
    <3>3. more(n, p) = p
      BY <3>2, Zenon
    <3> QED  BY <1>2, <2>1, <3>1, <3>3, NoMoreIsTold
  <2>4. CASE entries[n].label = l /\ entries[n].points # NoList
    <3> DEFINE value == entries[n].points
               q == said(n)
    <3>1. Says(n, l, value)
      BY <1>1, <2>4
    <3>2. value \in Seq(Entries) /\ value # NoList
      BY <3>1 DEF Says
    <3>3. q = lines(value, POINTS)
      OBVIOUS
    <3> HIDE DEF value
    <3>4. FirstFew(q, value, NoteTexts, POINTS)
      BY <3>2, <3>3, LinesAre, NoteBounds
    <3>5. CASE q = <<>>
      <4>1. AllOf(<<>>, 0, value, Len(value), NoteTexts)
        BY <3>4, <3>5, NoteBounds DEF FirstFew
      <4>2. \A i \in 1 .. Len(value) : value[i] \notin NoteTexts
        BY <4>1 DEF AllOf
      <4>3. \A t \in NoteTexts : \A m \in mentions(l, t) : m[1] # n
        BY <3>1, <4>2, MentionsIn
      <4>4. more(n, p) = p
        BY <3>5, Zenon
      <4> QED  BY <1>2, <2>1, <4>3, <4>4, NoMoreIsTold
    <3>6. CASE q # <<>>
      <4>1. more(n, p) = Upto(distinct(p \o q), POINTS)
        BY <2>4, <3>6, Zenon
      <4> HIDE DEF q
      <4>2. TellsOf(l, n, Upto(distinct(p \o q), POINTS))
        BY <1>2, <3>1, <3>4, MoreIsTold
      <4> QED  BY <4>1, <4>2, Zenon
    <3> QED  BY <3>5, <3>6
  <2> QED  BY <2>2, <2>3, <2>4
<1>3. TellsOf(l, 0, <<>>)
  <2>1. \A t : ~SaidBy(l, t, 0)
    BY MentionsAre DEF SaidBy
  <2> QED  BY <2>1, NoteBounds DEF TellsOf, Apart, Sooner, AllSaid
<1>4. pointsOf(entries, l) = (CHOOSE c : c = upTo(c, L))[L]
  BY DEF pointsOf
<1> HIDE DEF more, entries, L
<1>5. \E c : c = upTo(c, L)
  <2> DEFINE S == {m \in Nat : \E c : c = upTo(c, m)}
  <2>1. 0 \in S
    <3> DEFINE c == [n \in 0 .. 0 |-> <<>>]
    <3>1. c = upTo(c, 0)
      OBVIOUS
    <3> HIDE DEF c, upTo
    <3> QED  BY <3>1
  <2>2. ASSUME NEW m \in Nat, m \in S PROVE m + 1 \in S
    <3>1. PICK c : c = upTo(c, m)
      BY <2>2
    <3> DEFINE e == [n \in 0 .. m + 1 |-> IF n = 0 THEN <<>> ELSE more(n, c[n - 1])]
    <3>2. \A n \in 0 .. m : e[n] = c[n]
      BY <3>1
    <3>3. e = upTo(e, m + 1)
      <4>1. \A n \in 0 .. m + 1 : n # 0 => n - 1 \in 0 .. m
        OBVIOUS
      <4>2. \A n \in 0 .. m + 1 : n # 0 => e[n - 1] = c[n - 1]
        BY <3>2, <4>1
      <4>3. e = [n \in 0 .. m + 1 |-> IF n = 0 THEN <<>> ELSE more(n, c[n - 1])]
        OBVIOUS
      <4> HIDE DEF e
      <4> QED  BY <4>2, <4>3
    <3> HIDE DEF e, upTo
    <3> QED  BY <3>3
  <2> HIDE DEF S
  <2>3. L \in S
    BY <1>1, <2>1, <2>2, ByCounting
  <2> QED  BY <2>3 DEF S
<1>6. PICK c : c = upTo(c, L) /\ pointsOf(entries, l) = c[L]
  <2> HIDE DEF upTo
  <2> QED  BY <1>4, <1>5
<1>7. c[0] = <<>> /\ \A n \in 1 .. L : c[n] = more(n, c[n - 1])
  BY <1>1, <1>6
<1>8. \A n \in Nat : n <= L => TellsOf(l, n, c[n])
  <2> DEFINE S == {n \in Nat : n <= L => TellsOf(l, n, c[n])}
  <2>1. 0 \in S
    BY <1>3, <1>7
  <2>2. ASSUME NEW n \in Nat, n \in S PROVE n + 1 \in S
    <3>1. CASE n + 1 <= L
      <4>1. n + 1 \in 1 .. L /\ (n + 1) - 1 = n /\ TellsOf(l, n, c[n])
        BY <1>1, <2>2, <3>1
      <4>2. TellsOf(l, n + 1, more(n + 1, c[n]))
        BY <1>2, <4>1
      <4>3. c[n + 1] = more(n + 1, c[n])
        BY <1>7, <4>1
      <4> QED  BY <4>2, <4>3
    <3>2. CASE ~(n + 1 <= L)
      BY <3>2
    <3> QED  BY <3>1, <3>2
  <2> HIDE DEF S
  <2>3. \A n \in Nat : n \in S
    BY <2>1, <2>2, ByCounting
  <2> QED  BY <2>3 DEF S
<1>9. TellsOf(l, L, c[L])
  BY <1>1, <1>8
<1> QED  BY <1>6, <1>9 DEF L, entries

\* The points of somebody the answer has points of are right.
PointsRight(l, points) ==
  /\ points # <<>> /\ ToSet(points) \subseteq pointsSaid(l)
  /\ \A j, k \in DOMAIN points : points[j] = points[k] => j = k
  /\ \A t \in pointsSaid(l), k \in DOMAIN points :
       sooner(l, t, points[k]) => \E j \in 1 .. k - 1 : points[j] = t
  /\ Len(points) <= POINTS /\ (Len(points) < POINTS => pointsSaid(l) \subseteq ToSet(points))

LEMMA PointsAreRight ==
  ASSUME answered \in Arguments, answered.speakers # NoList, NEW l, pointsSaid(l) # {}
  PROVE  PointsRight(l, pointsOf(answered.speakers, l))
<1> DEFINE p == pointsOf(answered.speakers, l)
           L == Len(answered.speakers)
<1>1. TellsOf(l, L, p) /\ L \in Nat /\ DOMAIN answered.speakers = 1 .. L
  BY PointsTold, EntryIs
<1> HIDE DEF p, L
<1>2. \A t \in pointsSaid(l) : t \in NoteTexts /\ SaidBy(l, t, L)
  <2> TAKE t \in pointsSaid(l)
  <2>1. t \in NoteTexts /\ \E m : m \in mentions(l, t)
    BY DEF pointsSaid
  <2>2. PICK m \in mentions(l, t) : TRUE
    BY <2>1
  <2>3. m[1] \in 1 .. L
    BY <1>1 DEF mentions
  <2>4. m[1] <= L
    BY <1>1, <2>3
  <2> QED  BY <2>1, <2>4 DEF SaidBy
<1>3. /\ p \in Seq(NoteTexts) /\ Len(p) \in Nat /\ Len(p) <= POINTS /\ DOMAIN p = 1 .. Len(p)
      /\ \A k \in 1 .. Len(p) : p[k] \in NoteTexts
  BY <1>1 DEF TellsOf
<1>4. /\ \A k \in 1 .. Len(p) : SaidBy(l, p[k], L)
      /\ Apart(p, Len(p)) /\ Sooner(l, p, Len(p))
      /\ (Len(p) < POINTS => AllSaid(l, L, p, Len(p)))
  BY <1>1 DEF TellsOf
<1>5. ToSet(p) \subseteq pointsSaid(l)
  BY <1>3, <1>4 DEF ToSet, SaidBy, pointsSaid
<1>6. ASSUME Len(p) < POINTS PROVE pointsSaid(l) \subseteq ToSet(p)
  BY <1>2, <1>3, <1>4, <1>6 DEF AllSaid, ToSet
<1>7. p # <<>>
  <2> SUFFICES ASSUME p = <<>> PROVE FALSE
    OBVIOUS
  <2>1. Len(p) = 0
    OBVIOUS
  <2>2. AllSaid(l, L, p, 0)
    BY <1>4, <2>1, NoteBounds
  <2> QED  BY <1>2, <2>2 DEF AllSaid
<1>8. \A t \in pointsSaid(l), k \in DOMAIN p : sooner(l, t, p[k]) => \E j \in 1 .. k - 1 : p[j] = t
  BY <1>2, <1>3, <1>4 DEF Sooner
<1>9. \A j, k \in DOMAIN p : p[j] = p[k] => j = k
  BY <1>3, <1>4 DEF Apart
<1>10. PointsRight(l, p)
  BY <1>3, <1>5, <1>6, <1>7, <1>8, <1>9 DEF PointsRight
<1> QED  BY <1>10 DEF p

labelOf(n) == answered.speakers[n].label
foundOf ==
  {n \in DOMAIN answered.speakers :
     labelOf(n) \in Transcribed /\ lines(answered.speakers[n].points, POINTS) # <<>>}
firstFound == {n \in foundOf : \A m \in foundOf : m < n => labelOf(m) # labelOf(n)}

\* Entries with points are those of people the answer has points of.
LEMMA WhoIsFound ==
  ASSUME answered \in Arguments, answered.speakers # NoList
  PROVE  /\ \A n \in foundOf : labelOf(n) \in peopleSaid
         /\ \A l \in peopleSaid : \E n \in foundOf : labelOf(n) = l
<1> DEFINE L == Len(answered.speakers)
           valueOf(n) == answered.speakers[n].points
<1>1. /\ DOMAIN answered.speakers = 1 .. L
      /\ \A n \in 1 .. L : valueOf(n) = NoList \/ Says(n, labelOf(n), valueOf(n))
  BY EntryIs DEF labelOf
<1>2. \A n \in 1 .. L : valueOf(n) = NoList => lines(valueOf(n), POINTS) = <<>>
  BY Zenon DEF lines
<1>3. \A n \in 1 .. L : Says(n, labelOf(n), valueOf(n)) =>
        valueOf(n) \in Seq(Entries) /\ valueOf(n) # NoList
  BY DEF Says
<1>4. \A n \in foundOf : n \in 1 .. L /\ labelOf(n) \in Transcribed /\ lines(valueOf(n), POINTS) # <<>>
  BY <1>1 DEF foundOf
<1>5. \A n \in 1 .. L : labelOf(n) \in Transcribed /\ lines(valueOf(n), POINTS) # <<>> => n \in foundOf
  BY <1>1 DEF foundOf
<1>6. \A l, t : \A m \in mentions(l, t) :
        m[1] \in 1 .. L /\ labelOf(m[1]) = l /\ valueOf(m[1]) # NoList
  BY <1>1 DEF mentions, labelOf
<1> HIDE DEF valueOf, L
<1>7. ASSUME NEW n \in foundOf PROVE labelOf(n) \in peopleSaid
  <2> DEFINE value == valueOf(n)
             q == lines(value, POINTS)
  <2>1. Says(n, labelOf(n), value) /\ value \in Seq(Entries) /\ value # NoList /\ q # <<>>
    BY <1>1, <1>2, <1>3, <1>4
  <2> HIDE DEF value
  <2>2. FirstFew(q, value, NoteTexts, POINTS)
    BY <2>1, LinesAre, NoteBounds
  <2> HIDE DEF q
  <2>3. q \in Seq(NoteTexts) /\ Within(q, Len(q), value, Len(value))
    BY <2>2 DEF FirstFew
  <2>4. 1 \in 1 .. Len(q) /\ q[1] \in NoteTexts
    BY <2>1, <2>3
  <2>5. PICK i \in 1 .. Len(value) : value[i] = q[1]
    BY <2>3, <2>4 DEF Within
  <2>6. <<n, i>> \in mentions(labelOf(n), q[1])
    BY <2>1, <2>5, MentionsIn
  <2> QED  BY <1>4, <2>4, <2>6 DEF peopleSaid, pointsSaid
<1>8. ASSUME NEW l \in peopleSaid PROVE \E n \in foundOf : labelOf(n) = l
  <2>1. PICK t \in NoteTexts : mentions(l, t) # {}
    BY DEF peopleSaid, pointsSaid
  <2>2. PICK m \in mentions(l, t) : TRUE
    BY <2>1
  <2> DEFINE n == m[1]
             value == valueOf(n)
             q == lines(value, POINTS)
  <2>3. n \in 1 .. L /\ labelOf(n) = l /\ value # NoList
    BY <1>6
  <2>4. Says(n, labelOf(n), value) /\ value \in Seq(Entries)
    BY <1>1, <1>3, <2>3
  <2>5. m[2] \in 1 .. Len(value) /\ value[m[2]] = t
    BY <2>3, <2>4, MentionsIn
  <2> HIDE DEF value
  <2>6. FirstFew(q, value, NoteTexts, POINTS)
    BY <2>3, <2>4, LinesAre, NoteBounds
  <2> HIDE DEF q
  <2>7. q # <<>>
    <3> SUFFICES ASSUME q = <<>> PROVE FALSE
      OBVIOUS
    <3>1. AllOf(<<>>, 0, value, Len(value), NoteTexts)
      BY <2>6, NoteBounds DEF FirstFew
    <3> QED  BY <2>5, <3>1 DEF AllOf
  <2>8. l \in Transcribed
    BY DEF peopleSaid
  <2> QED  BY <1>5, <2>3, <2>7, <2>8 DEF q, value
<1> QED  BY <1>7, <1>8

\* One entry of each of them is the first.
LEMMA WhoIsFirst ==
  ASSUME answered \in Arguments, answered.speakers # NoList
  PROVE  /\ firstFound \in SUBSET DOMAIN answered.speakers
         /\ \A n \in firstFound : labelOf(n) \in peopleSaid
         /\ \A m, n \in firstFound : labelOf(m) = labelOf(n) => m = n
         /\ \A l \in peopleSaid : \E n \in firstFound : labelOf(n) = l
<1>1. /\ \A n \in foundOf : labelOf(n) \in peopleSaid
      /\ \A l \in peopleSaid : \E n \in foundOf : labelOf(n) = l
  BY WhoIsFound
<1>2. foundOf \in SUBSET DOMAIN answered.speakers /\ firstFound \in SUBSET foundOf
  BY DEF foundOf, firstFound
<1>3. foundOf \in SUBSET Nat
  <2>1. DOMAIN answered.speakers = 1 .. Len(answered.speakers)
    BY EntryIs
  <2>2. DOMAIN answered.speakers \in SUBSET Nat
    BY <2>1, EntryIs
  <2> QED  BY <1>2, <2>2
<1>4. ASSUME NEW m \in firstFound, NEW n \in firstFound, labelOf(m) = labelOf(n) PROVE m = n
  <2>1. m \in Nat /\ n \in Nat /\ m \in foundOf /\ n \in foundOf
    BY <1>2, <1>3
  <2>2. ~(m < n) /\ ~(n < m)
    BY <1>4, <2>1 DEF firstFound
  <2> QED  BY <2>1, <2>2
<1>5. ASSUME NEW l \in peopleSaid PROVE \E n \in firstFound : labelOf(n) = l
  <2> DEFINE E == {n \in foundOf : labelOf(n) = l}
  <2>1. E # {} /\ E \in SUBSET Nat
    BY <1>1, <1>3
  <2>2. PICK n \in E : \A k \in E : n <= k
    <3> HIDE DEF E
    <3> QED  BY <2>1, LeastIsThere
  <2>3. \A m \in foundOf : m < n => labelOf(m) # labelOf(n)
    <3> TAKE m \in foundOf
    <3>1. m \in Nat /\ n \in Nat /\ (labelOf(m) = l => n <= m)
      BY <1>3, <2>2
    <3> QED  BY <2>2, <3>1
  <2> QED  BY <2>2, <2>3 DEF firstFound
<1> QED  BY <1>1, <1>2, <1>4, <1>5

OneEach(f, n, S) ==
  /\ \A i \in 1 .. n : f[i] \in S
  /\ \A i, j \in 1 .. n : f[i] = f[j] => i = j
  /\ \A k \in S : \E i \in 1 .. n : f[i] = k

LEMMA ListsOnto ==
  ASSUME NEW S \in SUBSET Nat, NEW n, NEW f, Lists(f, n, S)
  PROVE  OneEach(f, n, S)
<1>1. n \in Nat /\ (\A i \in 1 .. n : f[i] \in S) /\ \A i, j \in 1 .. n : i < j => f[i] < f[j]
  BY DEF Lists
<1>2. ASSUME NEW i \in 1 .. n, NEW j \in 1 .. n, f[i] = f[j] PROVE i = j
  <2>1. f[i] \in Nat
    <3>1. f[i] \in S
      BY <1>1
    <3> QED  BY <3>1
  <2>2. ~(i < j) /\ ~(j < i)
    BY <1>1, <1>2, <2>1
  <2> QED  BY <1>1, <2>2
<1> QED  BY <1>1, <1>2 DEF Lists, OneEach

Person == [label : Transcribed, points : Seq(NoteTexts)]

\* Those with points, once each, and all of them unless they are too many.
LEMMA WhoIsTold ==
  ASSUME answered \in Arguments, answered.speakers # NoList,
         NEW told, told = _speakers(answered.speakers, Transcribed)
  PROVE  /\ told \in Seq(Person)
         /\ \A i \in 1 .. Len(told) :
              /\ told[i].label \in peopleSaid
              /\ told[i].points = pointsOf(answered.speakers, told[i].label)
         /\ \A i, j \in 1 .. Len(told) : told[i].label = told[j].label => i = j
         /\ Cardinality(peopleSaid) <= SPEAKERS =>
              \A l \in peopleSaid : \E i \in 1 .. Len(told) : told[i].label = l
<1> DEFINE entries == answered.speakers
           named == standing(entries, firstFound)
           who(l) == [label |-> l, points |-> pointsOf(entries, l)]
           all == [i \in DOMAIN named |-> [label |-> named[i].label, points |-> pointsOf(entries, named[i].label)]]
<1>1. told = Upto(all, SPEAKERS)
  BY Zenon DEF _speakers, firstFound, foundOf, labelOf
<1>2. /\ entries \in Seq([label : NoteLabels, points : Fields])
      /\ DOMAIN entries = 1 .. Len(entries) /\ Len(entries) \in Nat
  BY EntryIs
<1>3. \A n \in DOMAIN entries : labelOf(n) = entries[n].label
  BY DEF labelOf
<1>4. firstFound \in SUBSET DOMAIN entries /\ firstFound \in SUBSET Nat
  <2>1. firstFound \in SUBSET DOMAIN entries
    BY WhoIsFirst
  <2>2. DOMAIN entries \in SUBSET Nat
    BY <1>2
  <2> QED  BY <2>1, <2>2
<1>5. \A l \in peopleSaid : l \in Transcribed /\ pointsOf(entries, l) \in Seq(NoteTexts)
  <2> TAKE l \in peopleSaid
  <2> QED  BY PointsTold DEF peopleSaid, TellsOf
<1> HIDE DEF entries
<1>6. \E n, f : /\ Lists(f, n, firstFound) /\ n = Cardinality(firstFound)
                /\ standing(entries, firstFound) = [i \in 1 .. n |-> entries[f[i]]]
                /\ standing(entries, firstFound) \in Seq([label : NoteLabels, points : Fields])
                /\ Len(standing(entries, firstFound)) = n
  BY <1>2, <1>4, Stands
<1>7. PICK n, f : /\ Lists(f, n, firstFound) /\ n = Cardinality(firstFound)
                  /\ named = [i \in 1 .. n |-> entries[f[i]]]
                  /\ named \in Seq([label : NoteLabels, points : Fields]) /\ Len(named) = n
  BY <1>6, Zenon
<1>8. n \in Nat
  BY <1>7 DEF Lists
<1>9. /\ \A i \in 1 .. n : f[i] \in firstFound
      /\ \A i, j \in 1 .. n : f[i] = f[j] => i = j
      /\ \A k \in firstFound : \E i \in 1 .. n : f[i] = k
  <2>1. OneEach(f, n, firstFound)
    BY <1>4, <1>7, ListsOnto
  <2> QED  BY <2>1, Zenon DEF OneEach
<1>10. DOMAIN named = 1 .. n /\ \A i \in 1 .. n : named[i].label = labelOf(f[i])
  <2>1. \A i \in 1 .. n : f[i] \in DOMAIN entries
    BY <1>4, <1>9
  <2> HIDE DEF named
  <2> QED  BY <1>3, <1>7, <2>1
<1> HIDE DEF named
<1>11. DOMAIN all = 1 .. n /\ \A i \in 1 .. n : all[i] = who(labelOf(f[i]))
  BY <1>10, Zenon
<1>12. \A i \in 1 .. n : labelOf(f[i]) \in peopleSaid
  BY <1>9, WhoIsFirst
<1>13. \A i, j \in 1 .. n : labelOf(f[i]) = labelOf(f[j]) => i = j
  BY <1>9, WhoIsFirst, Zenon
<1>14. \A l \in peopleSaid : \E i \in 1 .. n : labelOf(f[i]) = l
  BY <1>9, WhoIsFirst
<1>15. \A l : who(l).label = l /\ who(l).points = pointsOf(entries, l)
  OBVIOUS
<1>16. \A l \in peopleSaid : who(l) \in Person
  BY <1>5 DEF Person
<1> HIDE DEF who
<1>17. all = [i \in 1 .. n |-> all[i]]
  BY <1>11
<1> HIDE DEF all
<1>18. all \in Seq(Person) /\ Len(all) = n
  BY <1>8, <1>11, <1>12, <1>16, <1>17
<1>19. /\ told \in Seq(Person) /\ Len(told) \in Nat /\ Len(told) <= n
       /\ (n <= SPEAKERS => Len(told) = n)
       /\ \A i \in 1 .. Len(told) : i \in 1 .. n /\ told[i] = all[i]
  <2>1. SPEAKERS \in Nat
    BY NoteBounds
  <2>2. /\ told \in Seq(Person) /\ Len(told) <= Len(all)
        /\ (Len(all) <= SPEAKERS => Len(told) = Len(all))
        /\ \A i \in 1 .. Len(told) : told[i] = all[i]
    BY <1>1, <1>18, <2>1, UptoIs
  <2> QED  BY <1>8, <1>18, <2>2
<1>20. \A i \in 1 .. Len(told) : told[i] = who(labelOf(f[i])) /\ told[i].label = labelOf(f[i])
  BY <1>11, <1>15, <1>19
<1>21. \A i \in 1 .. Len(told) :
         told[i].label \in peopleSaid /\ told[i].points = pointsOf(entries, told[i].label)
  BY <1>12, <1>15, <1>19, <1>20
<1>22. \A i, j \in 1 .. Len(told) : told[i].label = told[j].label => i = j
  BY <1>13, <1>19, <1>20
<1>23. Cardinality(peopleSaid) = n
  <2> DEFINE g == [i \in 1 .. n |-> labelOf(f[i])]
  <2>1. g \in Bijection(1 .. n, peopleSaid)
    BY <1>12, <1>13, <1>14 DEF Bijection, Injection, Surjection, IsInjective
  <2> HIDE DEF g
  <2>2. IsFiniteSet(1 .. n) /\ Cardinality(1 .. n) = n
    <3>1. 1 \in Int /\ n \in Int
      BY <1>8
    <3>2. IsFiniteSet(1 .. n) /\ Cardinality(1 .. n) = IF 1 > n THEN 0 ELSE n - 1 + 1
      BY <3>1, FS_Interval, Zenon
    <3> QED  BY <1>8, <3>2
  <2> QED  BY <2>1, <2>2, FS_Bijection DEF ExistsBijection
<1>24. ASSUME n <= SPEAKERS, NEW l \in peopleSaid PROVE \E i \in 1 .. Len(told) : told[i].label = l
  BY <1>14, <1>19, <1>20, <1>24
<1> QED  BY <1>19, <1>21, <1>22, <1>23, <1>24 DEF entries

\* What is sent of the answer is right.
Sent == payload = notes_payload(read_notes(answered, Transcribed), noteIds)

LEMMA SentSpeakers ==
  ASSUME Sent
  PROVE  LET told == _speakers(answered.speakers, Transcribed)
         IN  payload.speakers = standing(told, {i \in DOMAIN told : told[i].label \in Tellable})
  BY Zenon DEF Sent, notes_payload, read_notes

LEMMA NobodyTold ==
  ASSUME answered.speakers = NoList, Sent
  PROVE  DOMAIN payload.speakers = {}
<1>1. _speakers(answered.speakers, Transcribed) = <<>>
  BY Zenon DEF _speakers
<1>2. payload.speakers = standing(<<>>, {i \in DOMAIN <<>> : <<>>[i].label \in Tellable})
  BY <1>1, SentSpeakers
<1>3. {i \in DOMAIN <<>> : <<>>[i].label \in Tellable} = {}
  OBVIOUS
<1>4. DOMAIN payload.speakers = 1 .. Cardinality({})
  BY <1>2, <1>3 DEF standing
<1>5. Cardinality({}) = 0
  BY FS_EmptySet
<1> QED  BY <1>4, <1>5

LEMMA SpeakersSent ==
  ASSUME answered \in Arguments, Sent
  PROVE  PointsInOrder /\ EverybodyOnce
<1>1. CASE answered.speakers = NoList
  BY <1>1, NobodyTold DEF PointsInOrder, EverybodyOnce
<1>2. CASE answered.speakers # NoList
  <2> DEFINE told == _speakers(answered.speakers, Transcribed)
             S == {i \in DOMAIN told : told[i].label \in Tellable}
             sent == payload.speakers
  <2>1. sent = standing(told, S)
    BY SentSpeakers
  <2>2. /\ told \in Seq(Person)
        /\ \A i \in 1 .. Len(told) :
             /\ told[i].label \in peopleSaid
             /\ told[i].points = pointsOf(answered.speakers, told[i].label)
        /\ \A i, j \in 1 .. Len(told) : told[i].label = told[j].label => i = j
        /\ Cardinality(peopleSaid) <= SPEAKERS =>
             \A l \in peopleSaid : \E i \in 1 .. Len(told) : told[i].label = l
    BY <1>2, WhoIsTold
  <2>3. /\ \A i \in S : i \in 1 .. Len(told) /\ told[i].label \in Tellable
        /\ \A i \in 1 .. Len(told) : told[i].label \in Tellable => i \in S
        /\ S \in SUBSET DOMAIN told
    <3>1. DOMAIN told = 1 .. Len(told)
      BY <2>2
    <3> HIDE DEF told
    <3> QED  BY <3>1
  <2> HIDE DEF S, told
  <2>4. \E n, f : /\ Lists(f, n, S) /\ n = Cardinality(S)
                  /\ standing(told, S) = [i \in 1 .. n |-> told[f[i]]]
                  /\ standing(told, S) \in Seq(Person) /\ Len(standing(told, S)) = n
    BY <2>2, <2>3, Stands
  <2>5. PICK n, f : /\ Lists(f, n, S) /\ n = Cardinality(S)
                    /\ standing(told, S) = [i \in 1 .. n |-> told[f[i]]]
                    /\ standing(told, S) \in Seq(Person) /\ Len(standing(told, S)) = n
    BY <2>4
  <2>6. /\ \A i \in 1 .. n : f[i] \in S
        /\ \A i, j \in 1 .. n : f[i] = f[j] => i = j
        /\ \A k \in S : \E i \in 1 .. n : f[i] = k
    <3>1. S \in SUBSET Nat
      BY <2>2, <2>3, SomePlaces
    <3>2. OneEach(f, n, S)
      BY <2>5, <3>1, ListsOnto
    <3> QED  BY <3>2, Zenon DEF OneEach
  <2>7. DOMAIN sent = 1 .. n /\ \A i \in 1 .. n : sent[i] = told[f[i]]
    <3> HIDE DEF sent
    <3> QED  BY <2>1, <2>5
  <2> HIDE DEF sent
  <2>8. \A i \in 1 .. n : f[i] \in 1 .. Len(told) /\ sent[i].label \in Tellable /\ sent[i].label = told[f[i]].label
    BY <2>3, <2>6, <2>7
  <2>9. \A i \in 1 .. n : PointsRight(sent[i].label, sent[i].points)
    <3> TAKE i \in 1 .. n
    <3>1. /\ sent[i].label \in peopleSaid
          /\ sent[i].points = pointsOf(answered.speakers, sent[i].label)
      BY <2>2, <2>7, <2>8
    <3>2. pointsSaid(sent[i].label) # {}
      BY <3>1 DEF peopleSaid
    <3> QED  BY <1>2, <3>1, <3>2, PointsAreRight
  <2>10. PointsInOrder
    BY <2>7, <2>9, Zenon DEF PointsInOrder, PointsRight, sent
  <2>11. \A i \in 1 .. n : sent[i].label \in Transcribed \cap Tellable
    BY <2>2, <2>8 DEF peopleSaid
  <2>12. \A i, j \in 1 .. n : sent[j].label = sent[i].label => i = j
    <3> TAKE i \in 1 .. n, j \in 1 .. n
    <3> HAVE sent[j].label = sent[i].label
    <3>1. f[i] = f[j]
      BY <2>2, <2>8
    <3> QED  BY <2>6, <3>1
  <2>13. ASSUME Cardinality(peopleSaid) <= SPEAKERS, NEW l \in peopleSaid \cap Tellable
         PROVE  \E i \in 1 .. n : sent[i].label = l
    <3>1. PICK k \in 1 .. Len(told) : told[k].label = l
      BY <2>2, <2>13
    <3>2. k \in S
      BY <2>3, <3>1
    <3>3. PICK i \in 1 .. n : f[i] = k
      BY <2>6, <3>2
    <3> QED  BY <2>8, <3>1, <3>3
  <2>14. EverybodyOnce
    BY <2>7, <2>11, <2>12, <2>13 DEF EverybodyOnce, sent
  <2> QED  BY <2>10, <2>14
<1> QED  BY <1>1, <1>2

\* The notes the agent took.
LEMMA LastOfThem ==
  ASSUME Sent, noteIds \in Seq(Nat)
  PROVE  LET told == Len(payload.notes) IN
         /\ told = IF Len(noteIds) < AGENT_NOTES THEN Len(noteIds) ELSE AGENT_NOTES
         /\ \A i \in 1 .. told : payload.notes[i] = noteIds[Len(noteIds) - told + i]
<1> DEFINE L == Len(noteIds)
           first == IF L > AGENT_NOTES THEN L - AGENT_NOTES + 1 ELSE 1
           told == payload.notes
<1>1. told = SubSeq(noteIds, first, L)
  BY Zenon DEF Sent, notes_payload
<1>2. AGENT_NOTES \in Nat /\ AGENT_NOTES >= 1 /\ L \in Nat
  BY NoteBounds
<1> HIDE DEF told
<1>3. CASE L > AGENT_NOTES
  <2>1. told = SubSeq(noteIds, L - AGENT_NOTES + 1, L)
    BY <1>1, <1>3
  <2>2. Len(told) = AGENT_NOTES /\ \A i \in 1 .. AGENT_NOTES : told[i] = noteIds[L - AGENT_NOTES + i]
    <3> DEFINE p == L - AGENT_NOTES
    <3>1. p \in Nat /\ (L - (p + 1)) + 1 = AGENT_NOTES
      BY <1>2, <1>3
    <3>2. told = SubSeq(noteIds, p + 1, L)
      BY <2>1
    <3> HIDE DEF p, L
    <3>3. told = [i \in 1 .. AGENT_NOTES |-> noteIds[p + i]]
      <4>1. told = [i \in 1 .. (L - (p + 1)) + 1 |-> noteIds[((p + 1) + i) - 1]]
        BY <1>2, <3>1, <3>2
      <4>2. \A i \in 1 .. AGENT_NOTES : ((p + 1) + i) - 1 = p + i
        BY <1>2, <3>1
      <4> QED  BY <3>1, <4>1, <4>2
    <3> QED  BY <1>2, <3>3 DEF p
  <2> QED  BY <1>2, <1>3, <2>2 DEF told
<1>4. CASE ~(L > AGENT_NOTES)
  <2>1. told = SubSeq(noteIds, 1, L)
    BY <1>1, <1>4
  <2>2. Len(told) = L /\ \A i \in 1 .. L : told[i] = noteIds[i]
    BY <1>2, <2>1
  <2>3. Len(told) = IF L < AGENT_NOTES THEN L ELSE AGENT_NOTES
    BY <1>2, <1>4, <2>2
  <2> QED  BY <1>2, <2>2, <2>3 DEF told
<1> QED  BY <1>3, <1>4

NotesInd ==
  /\ noteIds \in Seq(Nat) /\ \A i, j \in DOMAIN noteIds : noteIds[i] = noteIds[j] => i = j
  /\ payload # <<>> => answered \in Arguments /\ Sent

LEMMA NotesIndHolds == NotesInd => EverybodysPoints
<1> SUFFICES ASSUME NotesInd PROVE EverybodysPoints
  OBVIOUS
<1>1. payload # <<>> => PointsInOrder /\ EverybodyOnce
  BY SpeakersSent DEF NotesInd
<1>2. LastTaken
  BY LastOfThem DEF NotesInd, LastTaken
<1> QED  BY <1>1, <1>2 DEF EverybodysPoints

LEMMA NoteTaken ==
  ASSUME NotesInd, NEW n \in 1 .. MaxTaken, note(n)
  PROVE  NotesInd'
<1>1. MaxTaken \in Nat
  <2>1. {DECISIONS, POINTS, SPEAKERS, AGENT_NOTES, MaxField, MaxTaken} \subseteq Nat \ {0}
    BY NotesAssumption, Zenon DEF NotesAssumption
  <2> QED  BY <2>1
<1>2. n \in Nat /\ payload' = <<>>
  BY <1>1 DEF note
<1>3. CASE \E i \in DOMAIN noteIds : noteIds[i] = n
  <2>1. noteIds' = noteIds
    BY <1>3, Zenon DEF note, with_note
  <2> QED  BY <1>2, <2>1 DEF NotesInd
<1>4. CASE ~\E i \in DOMAIN noteIds : noteIds[i] = n
  <2>1. noteIds' = Append(noteIds, n)
    BY <1>4, Zenon DEF note, with_note
  <2>2. noteIds \in Seq(Nat) /\ DOMAIN noteIds = 1 .. Len(noteIds) /\ Len(noteIds) \in Nat
    BY DEF NotesInd
  <2>3. /\ noteIds' \in Seq(Nat) /\ DOMAIN noteIds' = 1 .. Len(noteIds) + 1
        /\ noteIds'[Len(noteIds) + 1] = n
        /\ \A i \in 1 .. Len(noteIds) : noteIds'[i] = noteIds[i]
    BY <1>2, <2>1, <2>2
  <2>4. \A i \in 1 .. Len(noteIds) + 1 : i \in 1 .. Len(noteIds) \/ i = Len(noteIds) + 1
    BY <2>2
  <2>5. \A i, j \in 1 .. Len(noteIds) + 1 : noteIds'[i] = noteIds'[j] => i = j
    BY <1>4, <2>2, <2>3, <2>4 DEF NotesInd
  <2> QED  BY <1>2, <2>3, <2>5 DEF NotesInd
<1> QED  BY <1>3, <1>4

\* However the model's answer names people, and however often: what is sent
\* tells the first points said of each of them, once and in order, of nobody
\* else and of everybody there is room for, and the last notes that were taken.
THEOREM EverybodyIsToldRight == NotesSpec => []EverybodysPoints
<1>1. NotesInit => NotesInd
  BY DEF NotesInit, NotesInd
<1>2. NotesInd /\ [NotesNext]_notesVars => NotesInd'
  <2> SUFFICES ASSUME NotesInd, [NotesNext]_notesVars PROVE NotesInd'
    OBVIOUS
  <2>1. CASE \E n \in 1 .. MaxTaken : note(n)
    BY <2>1, NoteTaken
  <2>2. CASE \E doc \in Arguments : answers(doc)
    <3>1. PICK doc \in Arguments : answers(doc)
      BY <2>2
    <3>2. answered' = doc /\ noteIds' = noteIds /\ payload' = notes_payload(read_notes(doc, Transcribed), noteIds)
      BY <3>1 DEF answers
    <3>3. Sent' /\ answered' \in Arguments
      BY <3>2, Zenon DEF Sent
    <3> QED  BY <3>2, <3>3 DEF NotesInd
  <2>3. CASE UNCHANGED notesVars
    BY <2>3 DEF notesVars, NotesInd, Sent
  <2> QED  BY <2>1, <2>2, <2>3 DEF NotesNext
<1> QED  BY <1>1, <1>2, NotesIndHolds, PTL DEF NotesSpec

-----------------------------------------------------------------------------
(***************************************************************************)
(* Labels.  A round of the loop either takes a label that stands at the    *)
(* front of what is held, or speaks to the end of a line; it leaves less   *)
(* to do, so the loop ends.  What is held closes no label, and what is     *)
(* decided tells whether one stands there, as none is longer than what may *)
(* be held.                                                                *)
(***************************************************************************)
\* What stands at listed places.
LEMMA ListedIs ==
  ASSUME NEW M, NEW t \in Seq(M), NEW S \in SUBSET DOMAIN t, NEW n, NEW f, Lists(f, n, S)
  PROVE  standing(t, S) = [i \in 1 .. n |-> t[f[i]]]
<1>1. S \in SUBSET Nat
  BY SomePlaces
<1>2. n = Cardinality(S) /\ \A i \in 1 .. n : placed(S)[i] = f[i]
  BY <1>1, ListedOnce
<1>3. standing(t, S) = [i \in 1 .. Cardinality(S) |-> t[placed(S)[i]]]
  BY DEF standing
<1> QED  BY <1>2, <1>3

\* What stands at some places and at later ones is the one, then the other.
LEMMA StandingOfBoth ==
  ASSUME NEW M, NEW t \in Seq(M), NEW A \in SUBSET DOMAIN t, NEW B \in SUBSET DOMAIN t,
         \A a \in A, b \in B : a < b
  PROVE  standing(t, A \cup B) = standing(t, A) \o standing(t, B)
<1>1. PICK m, f : /\ Lists(f, m, A) /\ m = Cardinality(A)
                  /\ standing(t, A) = [i \in 1 .. m |-> t[f[i]]]
                  /\ standing(t, A) \in Seq(M) /\ Len(standing(t, A)) = m
  BY Stands
<1>2. PICK n, g : /\ Lists(g, n, B) /\ n = Cardinality(B)
                  /\ standing(t, B) = [i \in 1 .. n |-> t[g[i]]]
                  /\ standing(t, B) \in Seq(M) /\ Len(standing(t, B)) = n
  BY Stands
<1> DEFINE h == [i \in 1 .. m + n |-> IF i <= m THEN f[i] ELSE g[i - m]]
<1>3. /\ m \in Nat /\ n \in Nat
      /\ \A i \in 1 .. m : f[i] \in A
      /\ \A k \in A : \E i \in 1 .. m : f[i] = k
      /\ \A i, j \in 1 .. m : i < j => f[i] < f[j]
      /\ \A i \in 1 .. n : g[i] \in B
      /\ \A k \in B : \E i \in 1 .. n : g[i] = k
      /\ \A i, j \in 1 .. n : i < j => g[i] < g[j]
  BY <1>1, <1>2 DEF Lists
<1>4. /\ m + n \in Nat /\ DOMAIN h = 1 .. m + n
      /\ \A i \in 1 .. m : i \in 1 .. m + n /\ h[i] = f[i]
      /\ \A i \in m + 1 .. m + n : i - m \in 1 .. n /\ h[i] = g[i - m]
      /\ \A i \in 1 .. m + n : i \in 1 .. m \/ i \in m + 1 .. m + n
      /\ \A i \in 1 .. n : m + i \in m + 1 .. m + n /\ m + i \in 1 .. m + n /\ (m + i) - m = i
  BY <1>3
<1>5. h = [i \in 1 .. m + n |-> h[i]]
  OBVIOUS
<1> HIDE DEF h
<1>6. \A i \in 1 .. m + n : h[i] \in A \cup B
  BY <1>3, <1>4
<1>7. \A k \in A \cup B : \E i \in 1 .. m + n : h[i] = k
  <2> TAKE k \in A \cup B
  <2>1. CASE k \in A
    <3>1. PICK i \in 1 .. m : f[i] = k
      BY <2>1, <1>3
    <3> QED  BY <3>1, <1>4
  <2>2. CASE k \in B
    <3>1. PICK i \in 1 .. n : g[i] = k
      BY <2>2, <1>3
    <3>2. m + i \in 1 .. m + n /\ h[m + i] = k
      BY <3>1, <1>4
    <3> QED  BY <3>2
  <2> QED  BY <2>1, <2>2
<1>8. \A i, j \in 1 .. m + n : i < j => h[i] < h[j]
  <2> SUFFICES ASSUME NEW i \in 1 .. m + n, NEW j \in 1 .. m + n, i < j PROVE h[i] < h[j]
    OBVIOUS
  <2>1. CASE j \in 1 .. m
    <3>1. i \in 1 .. m
      BY <2>1, <1>3
    <3> QED  BY <2>1, <3>1, <1>3, <1>4
  <2>2. CASE i \in m + 1 .. m + n
    <3>1. j \in m + 1 .. m + n /\ i - m < j - m
      BY <2>2, <1>3
    <3>2. g[i - m] < g[j - m]
      BY <2>2, <3>1, <1>3, <1>4
    <3> QED  BY <2>2, <3>1, <3>2, <1>4
  <2>3. CASE i \in 1 .. m /\ j \in m + 1 .. m + n
    <3>1. h[i] \in A /\ h[j] \in B
      BY <2>3, <1>3, <1>4
    <3> QED  BY <3>1
  <2> QED  BY <2>1, <2>2, <2>3, <1>4
<1>9. Lists(h, m + n, A \cup B)
  <2>1. h \in [1 .. m + n -> A \cup B]
    BY <1>4, <1>5, <1>6
  <2> QED  BY <2>1, <1>4, <1>7, <1>8 DEF Lists
<1> DEFINE S == A \cup B
           q == m + n
           a == standing(t, A)
           b == standing(t, B)
           c == standing(t, S)
<1>10. c = [i \in 1 .. q |-> t[h[i]]]
  <2>1. S \in SUBSET DOMAIN t
    OBVIOUS
  <2> HIDE DEF S, q
  <2> QED  BY <1>9, <2>1, ListedIs DEF S, q
<1>11. /\ \A i \in 1 .. m : c[i] = a[i]
       /\ \A i \in 1 .. n : c[m + i] = b[i]
  <2>1. /\ \A i \in 1 .. m : a[i] = t[f[i]]
        /\ \A i \in 1 .. n : b[i] = t[g[i]]
        /\ \A i \in 1 .. m + n : c[i] = t[h[i]]
    <3> HIDE DEF a, b, c
    <3> QED  BY <1>1, <1>2, <1>10 DEF a, b
  <2> HIDE DEF a, b, c
  <2>2. \A i \in 1 .. m : c[i] = a[i]
    BY <2>1, <1>4
  <2>3. \A i \in 1 .. n : c[m + i] = b[i]
    <3> TAKE i \in 1 .. n
    <3> DEFINE k == m + i
    <3>1. k \in 1 .. m + n /\ h[k] = g[k - m] /\ k - m = i
      BY <1>4
    <3> HIDE DEF k
    <3>2. c[k] = b[i]
      BY <2>1, <3>1
    <3> QED  BY <3>2 DEF k
  <2> QED  BY <2>2, <2>3
<1>12. /\ a \in Seq(M) /\ b \in Seq(M) /\ Len(a) = m /\ Len(b) = n
       /\ c = [i \in 1 .. m + n |-> c[i]]
  <2> HIDE DEF c
  <2> QED  BY <1>1, <1>2, <1>10
<1> HIDE DEF a, b, c
<1>13. a \o b = [i \in 1 .. m + n |-> IF i <= m THEN a[i] ELSE b[i - m]]
  <2> DEFINE d == a \o b
  <2>1. d \in Seq(M) /\ Len(d) = m + n
    BY <1>12, <1>3, ConcatProperties
  <2>2. \A i \in 1 .. m + n : d[i] = IF i <= m THEN a[i] ELSE b[i - m]
    BY <1>12, <1>3, ConcatProperties
  <2> HIDE DEF d
  <2>3. d = [i \in 1 .. m + n |-> IF i <= m THEN a[i] ELSE b[i - m]]
    BY <1>3, <2>1, <2>2
  <2> QED  BY <2>3 DEF d
<1>14. \A i \in 1 .. m + n : c[i] = IF i <= m THEN a[i] ELSE b[i - m]
  <2> TAKE i \in 1 .. m + n
  <2>1. CASE i <= m
    <3>1. i \in 1 .. m
      BY <2>1, <1>3
    <3> QED  BY <2>1, <3>1, <1>11
  <2>2. CASE ~(i <= m)
    <3>1. i - m \in 1 .. n /\ m + (i - m) = i
      BY <2>2, <1>3
    <3> QED  BY <2>2, <3>1, <1>11
  <2> QED  BY <2>1, <2>2
<1>15. c = a \o b
  BY <1>12, <1>13, <1>14
<1> QED  BY <1>15 DEF a, b, c

\* What stands in a piece of a text stands in the text, further on.
LEMMA StandingInPiece ==
  ASSUME NEW M, NEW t \in Seq(M), NEW h \in Nat, NEW e \in h .. Len(t), NEW S \in SUBSET (1 .. e - h)
  PROVE  /\ SubSeq(t, h + 1, e) \in Seq(M) /\ Len(SubSeq(t, h + 1, e)) = e - h
         /\ standing(SubSeq(t, h + 1, e), S) = standing(t, {h + i : i \in S})
<1> DEFINE u == SubSeq(t, h + 1, e)
           T == {h + i : i \in S}
<1>1. /\ Len(t) \in Nat /\ e \in Nat /\ e - h \in Nat /\ e <= Len(t) /\ h <= e
      /\ u \in Seq(M) /\ Len(u) = e - h /\ DOMAIN u = 1 .. e - h
      /\ \A i \in 1 .. e - h : u[i] = t[h + i]
  BY SubSeqProperties
<1> HIDE DEF u
<1>2. S \in SUBSET DOMAIN u /\ T \in SUBSET DOMAIN t
  BY <1>1
<1>3. PICK n, f : /\ Lists(f, n, S) /\ n = Cardinality(S)
                  /\ standing(u, S) = [i \in 1 .. n |-> u[f[i]]]
                  /\ standing(u, S) \in Seq(M) /\ Len(standing(u, S)) = n
  BY <1>1, <1>2, Stands
<1> DEFINE g == [i \in 1 .. n |-> h + f[i]]
<1>4. /\ n \in Nat /\ \A i \in 1 .. n : f[i] \in S /\ f[i] \in 1 .. e - h /\ f[i] \in Nat
      /\ \A k \in S : \E i \in 1 .. n : f[i] = k
      /\ \A i, j \in 1 .. n : i < j => f[i] < f[j]
  <2>1. /\ n \in Nat /\ \A i \in 1 .. n : f[i] \in S
        /\ \A k \in S : \E i \in 1 .. n : f[i] = k
        /\ \A i, j \in 1 .. n : i < j => f[i] < f[j]
    BY <1>3, Zenon DEF Lists
  <2>2. \A k \in S : k \in 1 .. e - h /\ k \in Nat
    BY <1>1
  <2> QED  BY <2>1, <2>2
<1>5. Lists(g, n, T)
  <2>1. \A i \in 1 .. n : g[i] \in T
    BY <1>4
  <2>2. ASSUME NEW k \in T PROVE \E i \in 1 .. n : g[i] = k
    <3>1. PICK j \in S : k = h + j
      OBVIOUS
    <3>2. PICK i \in 1 .. n : f[i] = j
      BY <1>4
    <3> QED  BY <3>1, <3>2
  <2>3. \A i, j \in 1 .. n : i < j => g[i] < g[j]
    BY <1>4
  <2>4. g \in [1 .. n -> T]
    BY <2>1
  <2> HIDE DEF g, T
  <2> QED  BY <1>4, <2>2, <2>3, <2>4 DEF Lists
<1>6. standing(t, T) = [i \in 1 .. n |-> t[g[i]]]
  <2> HIDE DEF g, T
  <2> QED  BY <1>2, <1>5, ListedIs
<1>7. \A i \in 1 .. n : u[f[i]] = t[g[i]]
  BY <1>1, <1>4
<1>8. standing(u, S) = standing(t, T)
  BY <1>3, <1>6, <1>7
<1> QED  BY <1>1, <1>8 DEF u

plain(t, h) == {i \in 1 .. h : t[i] \notin Space /\ ~inLabel(t, i)}

\* What is spelled in a piece of a text is what is spelled there in the text.
LEMMA SpelledInPiece ==
  ASSUME NEW M, NEW t \in Seq(M), NEW h \in Nat, NEW e \in h .. Len(t)
  PROVE  spelled(SubSeq(t, h + 1, e)) = standing(t, {i \in h + 1 .. e : t[i] \notin Space})
<1> DEFINE u == SubSeq(t, h + 1, e)
           S == {i \in DOMAIN u : u[i] \notin Space}
           T == {h + i : i \in S}
           R == {i \in h + 1 .. e : t[i] \notin Space}
<1>1. /\ Len(t) \in Nat /\ e \in Nat /\ e - h \in Nat /\ e <= Len(t) /\ h <= e
      /\ DOMAIN u = 1 .. e - h
      /\ \A i \in 1 .. e - h : u[i] = t[h + i]
  BY SubSeqProperties
<1> HIDE DEF u
<1>2. S \in SUBSET (1 .. e - h)
  BY <1>1
<1>3. T = R
  <2>1. ASSUME NEW k \in T PROVE k \in R
    BY <1>1
  <2>2. ASSUME NEW k \in R PROVE k \in T
    <3>1. k - h \in 1 .. e - h /\ h + (k - h) = k
      BY <1>1
    <3>2. k - h \in S
      BY <3>1, <1>1
    <3> QED  BY <3>1, <3>2
  <2> HIDE DEF T, R
  <2> QED  BY <2>1, <2>2
<1>4. standing(u, S) = standing(t, T)
  <2> HIDE DEF S
  <2> QED  BY <1>2, StandingInPiece DEF u
<1> QED  BY <1>3, <1>4 DEF spelled, u

\* What is spelled of two texts is what is spelled of the one, then of the other.
LEMMA SpelledOfBoth ==
  ASSUME NEW M, NEW s \in Seq(M), NEW u \in Seq(M)
  PROVE  spelled(s \o u) = spelled(s) \o spelled(u)
<1> DEFINE t == s \o u
           m == Len(s)
           n == Len(t)
           A == {i \in 0 + 1 .. m : t[i] \notin Space}
           B == {i \in m + 1 .. n : t[i] \notin Space}
           R == {i \in DOMAIN t : t[i] \notin Space}
<1>1. /\ m \in Nat /\ n \in Nat /\ n = m + Len(u) /\ Len(u) \in Nat /\ t \in Seq(M) /\ DOMAIN t = 1 .. n
      /\ \A i \in 1 .. n : t[i] = IF i <= m THEN s[i] ELSE u[i - m]
  BY ConcatProperties
<1>2. SubSeq(t, 0 + 1, m) = s /\ SubSeq(t, m + 1, n) = u
  <2> DEFINE a == SubSeq(t, 0 + 1, m)
             b == SubSeq(t, m + 1, n)
  <2>1. /\ a \in Seq(M) /\ Len(a) = m /\ \A i \in 1 .. m : a[i] = t[i]
        /\ b \in Seq(M) /\ Len(b) = n - m /\ \A i \in 1 .. n - m : b[i] = t[m + i]
    <3> HIDE DEF t, m, n
    <3> QED  BY <1>1, SubSeqProperties
  <2> HIDE DEF a, b, t, m, n
  <2>2. \A i \in 1 .. m : a[i] = s[i]
    <3>1. \A i \in 1 .. m : i \in 1 .. n /\ i <= m /\ i \in Nat
      BY <1>1
    <3> QED  BY <1>1, <2>1, <3>1
  <2>3. Len(b) = Len(u) /\ \A i \in 1 .. Len(u) : b[i] = u[i]
    <3>1. \A i \in 1 .. Len(u) : m + i \in 1 .. n /\ ~(m + i <= m) /\ (m + i) - m = i
      BY <1>1
    <3>2. n - m = Len(u)
      BY <1>1
    <3> QED  BY <1>1, <2>1, <3>1, <3>2
  <2>4. a = s
    BY <2>1, <2>2, SeqEqual DEF m
  <2>5. b = u
    BY <2>1, <2>3, SeqEqual
  <2> QED  BY <2>4, <2>5 DEF a, b
<1> HIDE DEF t, m, n
<1>3. R = A \cup B
  BY <1>1
<1>4. /\ spelled(s) = standing(t, A)
      /\ spelled(u) = standing(t, B)
  <2>1. 0 \in Nat /\ m \in 0 .. Len(t) /\ n \in m .. Len(t)
    BY <1>1 DEF n
  <2>2. spelled(SubSeq(t, 0 + 1, m)) = standing(t, A)
    BY <1>1, <2>1, SpelledInPiece
  <2>3. spelled(SubSeq(t, m + 1, n)) = standing(t, B)
    BY <1>1, <2>1, SpelledInPiece
  <2> QED  BY <1>2, <2>2, <2>3
<1>5. standing(t, A \cup B) = standing(t, A) \o standing(t, B)
  <2>1. A \in SUBSET DOMAIN t /\ B \in SUBSET DOMAIN t /\ \A a \in A, b \in B : a < b
    BY <1>1
  <2> HIDE DEF A, B
  <2> QED  BY <1>1, <2>1, StandingOfBoth
<1> QED  BY <1>3, <1>4, <1>5 DEF spelled, t, R

\* A piece of a text with no label in it is spoken as it is.
LEMMA SaidOn ==
  ASSUME NEW M, NEW t \in Seq(M), NEW h \in Nat, NEW e \in h .. Len(t), NEW said \in Seq(M),
         spelled(said) = standing(t, plain(t, h)),
         \A i \in h + 1 .. e : t[i] \notin Space => ~inLabel(t, i)
  PROVE  /\ said \o SubSeq(t, h + 1, e) \in Seq(M)
         /\ spelled(said \o SubSeq(t, h + 1, e)) = standing(t, plain(t, e))
<1> DEFINE u == SubSeq(t, h + 1, e)
           A == plain(t, h)
           B == {i \in h + 1 .. e : t[i] \notin Space}
<1>1. /\ Len(t) \in Nat /\ e \in Nat /\ e <= Len(t) /\ h <= e /\ DOMAIN t = 1 .. Len(t)
      /\ u \in Seq(M)
  BY SubSeqProperties
<1>2. plain(t, e) = A \cup B
  BY <1>1 DEF plain
<1>3. spelled(u) = standing(t, B)
  BY SpelledInPiece
<1>4. A \in SUBSET DOMAIN t /\ B \in SUBSET DOMAIN t /\ \A a \in A, b \in B : a < b
  BY <1>1 DEF plain
<1> HIDE DEF A, B, u
<1>5. standing(t, A \cup B) = standing(t, A) \o standing(t, B)
  BY <1>4, StandingOfBoth
<1>6. spelled(said \o u) = spelled(said) \o spelled(u)
  BY <1>1, SpelledOfBoth
<1>7. said \o u \in Seq(M)
  BY <1>1, ConcatProperties
<1>8. spelled(said) = standing(t, A)
  BY DEF A
<1> QED  BY <1>2, <1>3, <1>5, <1>6, <1>7, <1>8 DEF u

LEMMA StripIs ==
  ASSUME NEW M, NEW s \in Seq(M), NEW i \in 1 .. Len(s) + 1
  PROVE  /\ lstrip(s, i) \in i .. Len(s) + 1
         /\ lstrip(s, i) <= Len(s) => s[lstrip(s, i)] \notin Space
         /\ \A j \in i .. lstrip(s, i) - 1 : s[j] \in Space
<1> DEFINE L == Len(s)
           D == {k \in i .. L + 1 : k <= L => s[k] \notin Space}
<1>1. L \in Nat
  OBVIOUS
<1> HIDE DEF L
<1>2. D \in SUBSET Nat /\ D # {}
  <2>1. L + 1 \in D
    BY <1>1 DEF L
  <2>2. \A k \in D : k \in Nat
    BY <1>1
  <2> HIDE DEF D
  <2> QED  BY <2>1, <2>2
<1>3. PICK k \in D : \A j \in D : k <= j
  <2> HIDE DEF D
  <2> QED  BY <1>2, LeastIsThere
<1>4. /\ k \in i .. L + 1 /\ (k <= L => s[k] \notin Space)
      /\ \A j \in i .. k - 1 : s[j] \in Space
  BY <1>1, <1>3 DEF L
<1> QED  BY <1>4 DEF lstrip, L

\* What is held because it is not decided closes no label.
LEMMA NotDecided ==
  ASSUME NEW M, NEW s \in Seq(M), _undecided(s)
  PROVE  \A i \in 1 .. Len(s) : s[i] # "]"
<1> DEFINE L == Len(s)
           b == lstrip(s, 1)
           said == SubSeq(s, b, L)
<1>1. /\ L \in Nat /\ b \in 1 .. L + 1
      /\ \A j \in 1 .. b - 1 : s[j] \in Space
  BY StripIs
<1>2. \/ said = <<>>
      \/ \A i \in 1 .. Len(said) : said[i] \notin {"]", "n"}
  BY DEF _undecided, from
<1> HIDE DEF b, L
<1>3. /\ Len(said) = (L - b) + 1
      /\ \A i \in 1 .. (L - b) + 1 : said[i] = s[(b + i) - 1]
  BY <1>1 DEF L
<1> HIDE DEF said
<1>4. ASSUME NEW i \in 1 .. L, s[i] = "]" PROVE FALSE
  <2>1. CASE i < b
    <3>1. s[i] \in Space
      BY <1>1, <2>1
    <3> QED  BY <3>1, <1>4 DEF Space
  <2>2. CASE ~(i < b)
    <3>1. (i - b) + 1 \in 1 .. (L - b) + 1 /\ (b + ((i - b) + 1)) - 1 = i
      BY <1>1, <2>2
    <3>2. said[(i - b) + 1] = "]"
      BY <1>3, <1>4, <3>1
    <3>3. said # <<>>
      BY <1>3, <3>1
    <3> QED  BY <1>2, <1>3, <3>1, <3>2, <3>3
  <2> QED  BY <2>1, <2>2
<1> QED  BY <1>4 DEF L

\* What is decided says something, and when that opens a label it goes on for
\* long enough, or to its end.
LEMMA IsDecided ==
  ASSUME NEW M, NEW s \in Seq(M), ~_undecided(s)
  PROVE  /\ lstrip(s, 1) \in 1 .. Len(s) /\ s[lstrip(s, 1)] \notin Space
         /\ \A j \in 1 .. lstrip(s, 1) - 1 : s[j] \in Space
         /\ s[lstrip(s, 1)] = "[" =>
              \/ LongestHeld <= (Len(s) - lstrip(s, 1)) + 1
              \/ \E p \in lstrip(s, 1) .. Len(s) : s[p] \in {"]", "n"}
<1> DEFINE L == Len(s)
           b == lstrip(s, 1)
           said == SubSeq(s, b, L)
<1>1. /\ L \in Nat /\ b \in 1 .. L + 1
      /\ b <= L => s[b] \notin Space
      /\ \A j \in 1 .. b - 1 : s[j] \in Space
  BY StripIs
<1>2. /\ said # <<>>
      /\ said[1] = "[" => \/ ~(Len(said) < LongestHeld)
                          \/ \E i \in 1 .. Len(said) : said[i] \in {"]", "n"}
  BY DEF _undecided, from
<1> HIDE DEF b, L
<1>3. /\ Len(said) = (L - b) + 1 /\ said \in Seq(M)
      /\ \A i \in 1 .. (L - b) + 1 : said[i] = s[(b + i) - 1]
  BY <1>1 DEF L
<1> HIDE DEF said
<1>4. b <= L
  BY <1>1, <1>2, <1>3
<1>5. ASSUME s[b] = "[" PROVE LongestHeld <= (L - b) + 1 \/ \E p \in b .. L : s[p] \in {"]", "n"}
  <2>1. said[1] = "["
    BY <1>1, <1>3, <1>4, <1>5
  <2>2. CASE ~(Len(said) < LongestHeld)
    BY <2>2, <1>1, <1>3, LabelsAssumption
  <2>3. ASSUME NEW i \in 1 .. Len(said), said[i] \in {"]", "n"} PROVE \E p \in b .. L : s[p] \in {"]", "n"}
    <3>1. (b + i) - 1 \in b .. L /\ i \in 1 .. (L - b) + 1
      BY <1>1, <1>3
    <3>2. s[(b + i) - 1] \in {"]", "n"}
      BY <1>3, <2>3, <3>1
    <3> QED  BY <3>1, <3>2
  <2> QED  BY <1>2, <2>1, <2>2, <2>3
<1> QED  BY <1>1, <1>4, <1>5 DEF b, L

\* A label from b to k of a text, the first b - 1 characters of which are spaces.
Closes(s, b, k) ==
  /\ k \in b + 2 .. Len(s) /\ s[b] = "[" /\ s[k] = "]" /\ (k - b) - 1 <= LongName
  /\ \A j \in b + 1 .. k - 1 : s[j] \notin {"]", "n"}

LEMMA LabelEndIs ==
  ASSUME NEW M, NEW s \in Seq(M), lstrip(s, 1) \in 1 .. Len(s)
  PROVE  \/ labelEnd(s) = 1 /\ \A k : ~Closes(s, lstrip(s, 1), k)
         \/ \E k : /\ Closes(s, lstrip(s, 1), k) /\ labelEnd(s) \in k + 1 .. Len(s) + 1
                   /\ \A j \in k + 1 .. labelEnd(s) - 1 : s[j] \in Space
<1> DEFINE b == lstrip(s, 1)
           ends == {k \in b + 2 .. Len(s) :
                      /\ s[b] = "[" /\ s[k] = "]" /\ k - b - 1 <= LongName
                      /\ \A j \in b + 1 .. k - 1 : s[j] \notin {"]", "n"}}
           last == CHOOSE k \in ends : TRUE
<1>1. labelEnd(s) = IF ends = {} THEN 1 ELSE lstrip(s, 1 + last)
  BY DEF labelEnd
<1>2. \A k : k \in ends <=> Closes(s, b, k)
  <2> HIDE DEF b
  <2> QED  BY DEF Closes
<1>3. b \in 1 .. Len(s) /\ Len(s) \in Nat
  OBVIOUS
<1> HIDE DEF b, ends
<1>4. CASE ends = {}
  BY <1>1, <1>2, <1>4 DEF b
<1>5. CASE ends # {}
  <2>1. last \in ends
    BY <1>5
  <2> HIDE DEF last
  <2>2. Closes(s, b, last) /\ last \in b + 2 .. Len(s)
    BY <1>2, <2>1 DEF Closes
  <2>3. 1 + last \in 1 .. Len(s) + 1 /\ 1 + last = last + 1
    BY <1>3, <2>2
  <2>4. /\ labelEnd(s) \in last + 1 .. Len(s) + 1
        /\ \A j \in last + 1 .. labelEnd(s) - 1 : s[j] \in Space
    BY <1>1, <1>5, <2>3, StripIs
  <2> QED  BY <2>2, <2>4 DEF b
<1> QED  BY <1>4, <1>5

\* A label of a text, from p to q.
LabelAt(t, p, q) ==
  /\ p \in 1 .. Len(t) /\ q \in 1 .. Len(t)
  /\ t[p] = "[" /\ t[q] = "]" /\ q - p - 1 \in 1 .. LongName
  /\ \A j \in p + 1 .. q - 1 : t[j] \notin {"]", "n"}
  /\ \E a \in 0 .. p - 1 : /\ a > 0 => t[a] = "n"
                           /\ \A j \in a + 1 .. p - 1 : t[j] \in Space

\* A new line stands behind q, and spaces only between.
BreakBehind(t, q) == \E e \in q + 1 .. Len(t) : t[e] = "n" /\ \A j \in q + 1 .. e : t[j] \in Space

LEMMA LabelsAre ==
  ASSUME NEW M, NEW t \in Seq(M)
  PROVE  /\ \A i : inLabel(t, i) <=> \E p, q \in 1 .. Len(t) : LabelAt(t, p, q) /\ i \in p .. q
         /\ labelAlone(t) <=> \E p, q \in 1 .. Len(t) : LabelAt(t, p, q) /\ BreakBehind(t, q)
<1> DEFINE D == 1 .. Len(t)
<1>1. DOMAIN t = D
  OBVIOUS
<1> HIDE DEF D
<1>2. \A l : l \in labelsOf(t) => l \in D \X D /\ LabelAt(t, l[1], l[2])
  BY <1>1 DEF labelsOf, LabelAt, D
<1>3. \A p, q \in D : LabelAt(t, p, q) => <<p, q>> \in labelsOf(t)
  <2> SUFFICES ASSUME NEW p \in D, NEW q \in D, LabelAt(t, p, q) PROVE <<p, q>> \in labelsOf(t)
    OBVIOUS
  <2> DEFINE l == <<p, q>>
  <2>1. l \in D \X D /\ l[1] = p /\ l[2] = q
    OBVIOUS
  <2> HIDE DEF l
  <2>2. l \in labelsOf(t)
    BY <1>1, <2>1 DEF labelsOf, LabelAt
  <2> QED  BY <2>2 DEF l
<1>4. ASSUME NEW i, inLabel(t, i) PROVE \E p, q \in D : LabelAt(t, p, q) /\ i \in p .. q
  <2>1. PICK l \in labelsOf(t) : i \in l[1] .. l[2]
    BY <1>4 DEF inLabel
  <2>2. l[1] \in D /\ l[2] \in D
    BY <1>2
  <2> QED  BY <1>2, <2>1, <2>2
<1>5. ASSUME NEW i, NEW p \in D, NEW q \in D, LabelAt(t, p, q), i \in p .. q PROVE inLabel(t, i)
  <2> DEFINE l == <<p, q>>
  <2>1. l \in labelsOf(t) /\ l[1] = p /\ l[2] = q
    BY <1>3, <1>5
  <2> HIDE DEF l
  <2> QED  BY <1>5, <2>1 DEF inLabel
<1>6. labelAlone(t) <=> \E l \in labelsOf(t) : BreakBehind(t, l[2])
  BY DEF labelAlone, BreakBehind
<1>7. ASSUME labelAlone(t) PROVE \E p, q \in D : LabelAt(t, p, q) /\ BreakBehind(t, q)
  <2>1. PICK l \in labelsOf(t) : BreakBehind(t, l[2])
    BY <1>6, <1>7
  <2>2. l[1] \in D /\ l[2] \in D
    BY <1>2
  <2> QED  BY <1>2, <2>1, <2>2
<1>8. ASSUME NEW p \in D, NEW q \in D, LabelAt(t, p, q), BreakBehind(t, q) PROVE labelAlone(t)
  <2> DEFINE l == <<p, q>>
  <2>1. l \in labelsOf(t) /\ l[1] = p /\ l[2] = q
    BY <1>3, <1>8
  <2> HIDE DEF l
  <2> QED  BY <1>6, <1>8, <2>1
<1>9. labelAlone(t) <=> \E p, q \in D : LabelAt(t, p, q) /\ BreakBehind(t, q)
  BY <1>7, <1>8, Zenon
<1>10. \A i : inLabel(t, i) <=> \E p, q \in D : LabelAt(t, p, q) /\ i \in p .. q
  BY <1>4, <1>5
<1> QED  BY <1>9, <1>10 DEF D

LineStart(t, h) == h > 0 => t[h] = "n"
Clear(t, h) ==
  \A i \in h + 1 .. Len(t) : inLabel(t, i) => \E m \in h + 1 .. i - 1 : t[m] = "n"

\* What a label was looked for in stands in the text behind h.
Held(t, h, c, s) ==
  /\ h \in Nat /\ c \in h .. Len(t) /\ Len(s) = c - h
  /\ \A i \in 1 .. c - h : s[i] = t[h + i]

\* Where no label was found at the start of a line, none is there.
LEMMA NoneFound ==
  ASSUME NEW M, NEW t \in Seq(M), NEW h, NEW c, NEW s \in Seq(M), Held(t, h, c, s),
         LineStart(t, h), ~_undecided(s), \A k : ~Closes(s, lstrip(s, 1), k)
  PROVE  Clear(t, h)
<1> DEFINE b == lstrip(s, 1)
           L == Len(t)
<1>1. /\ h \in Nat /\ L \in Nat /\ c \in h .. L /\ Len(s) = c - h
      /\ \A i \in 1 .. c - h : s[i] = t[h + i]
  BY DEF Held
<1>2. /\ b \in 1 .. c - h /\ s[b] \notin Space
      /\ \A j \in 1 .. b - 1 : s[j] \in Space
      /\ s[b] = "[" => \/ LongestHeld <= ((c - h) - b) + 1
                       \/ \E p \in b .. c - h : s[p] \in {"]", "n"}
  BY <1>1, IsDecided
<1>3. \A k : ~Closes(s, b, k)
  OBVIOUS
<1> HIDE DEF b
<1> SUFFICES ASSUME NEW i \in h + 1 .. L, inLabel(t, i), \A m \in h + 1 .. i - 1 : t[m] # "n"
             PROVE  FALSE
  BY DEF Clear, L
<1>4. PICK p \in 1 .. L, q \in 1 .. L : LabelAt(t, p, q) /\ i \in p .. q
  BY LabelsAre DEF L
<1> HIDE DEF L
<1>5. /\ t[p] = "[" /\ t[q] = "]" /\ (q - p) - 1 \in 1 .. LongName
      /\ \A j \in p + 1 .. q - 1 : t[j] \notin {"]", "n"}
  BY <1>4, Zenon DEF LabelAt
<1>6. PICK a \in 0 .. p - 1 : /\ a > 0 => t[a] = "n"
                              /\ \A j \in a + 1 .. p - 1 : t[j] \in Space
  BY <1>4 DEF LabelAt
<1>7. LongName \in Nat /\ LongestHeld \in Nat /\ LongName + 1 < LongestHeld
  BY LabelsAssumption
<1>8. p > h
  <2> SUFFICES ASSUME p <= h PROVE FALSE
    BY <1>1
  <2>1. h > 0 /\ h \in p .. q - 1
    BY <1>1, <1>4
  <2>2. t[h] = "n"
    BY <2>1 DEF LineStart
  <2>3. h # p
    BY <1>5, <2>2
  <2> QED  BY <1>1, <1>5, <2>1, <2>2, <2>3
<1>9. a <= h
  <2> SUFFICES ASSUME a > h PROVE FALSE
    BY <1>1, <1>6
  <2>1. a \in h + 1 .. i - 1 /\ a > 0
    BY <1>1, <1>4, <1>6
  <2> QED  BY <1>6, <2>1
<1>10. p = h + b
  <2>1. CASE h + b < p
    <3>1. h + b \in a + 1 .. p - 1
      BY <1>1, <1>2, <1>6, <1>9, <2>1
    <3> QED  BY <1>1, <1>2, <1>6, <3>1
  <2>2. CASE p < h + b
    <3>1. p - h \in 1 .. b - 1 /\ p - h \in 1 .. c - h /\ h + (p - h) = p
      BY <1>1, <1>2, <1>8, <2>2
    <3>2. t[p] \in Space
      BY <1>1, <1>2, <3>1
    <3> QED  BY <1>5, <3>2 DEF Space
  <2> QED  BY <1>1, <1>2, <2>1, <2>2
<1>11. s[b] = "["
  BY <1>1, <1>2, <1>5, <1>10
<1>12. q <= c
  <2>1. CASE LongestHeld <= ((c - h) - b) + 1
    <3>1. (q - p) - 1 <= LongName
      BY <1>5, <1>7
    <3> QED  BY <3>1, <1>1, <1>2, <1>7, <1>10, <2>1
  <2>2. ASSUME NEW r \in b .. c - h, s[r] \in {"]", "n"} PROVE q <= c
    <3>1. t[h + r] \in {"]", "n"} /\ h + r \in p .. c /\ r # b
      BY <1>1, <1>2, <1>10, <1>11, <2>2
    <3>2. h + r \notin p + 1 .. q - 1
      BY <1>5, <3>1
    <3> QED  BY <1>1, <1>2, <1>10, <3>1, <3>2
  <2> QED  BY <1>2, <1>11, <2>1, <2>2
<1>13. Closes(s, b, q - h)
  <2>1. q - h \in b + 2 .. Len(s) /\ ((q - h) - b) - 1 <= LongName
    BY <1>1, <1>2, <1>5, <1>7, <1>10, <1>12
  <2>2. s[q - h] = "]"
    <3>1. q - h \in 1 .. c - h /\ h + (q - h) = q
      BY <1>1, <1>2, <2>1
    <3> QED  BY <1>1, <1>5, <3>1
  <2>3. \A j \in b + 1 .. (q - h) - 1 : s[j] \notin {"]", "n"}
    <3> TAKE j \in b + 1 .. (q - h) - 1
    <3>1. j \in 1 .. c - h /\ h + j \in p + 1 .. q - 1
      BY <1>1, <1>2, <1>10, <1>12
    <3> QED  BY <1>1, <1>5, <3>1
  <2> QED  BY <1>11, <2>1, <2>2, <2>3 DEF Closes
<1> QED  BY <1>3, <1>13

\* Where one was found, the text goes on behind it and there is no other.
LEMMA OneFound ==
  ASSUME NEW M, NEW t \in Seq(M), NEW h, NEW c, NEW s \in Seq(M), Held(t, h, c, s),
         LineStart(t, h), ~labelAlone(t), ~_undecided(s),
         NEW k, Closes(s, lstrip(s, 1), k), NEW e \in k + 1 .. Len(s) + 1,
         \A j \in k + 1 .. e - 1 : s[j] \in Space
  PROVE  Clear(t, (h + e) - 1) /\ plain(t, (h + e) - 1) = plain(t, h)
<1> DEFINE b == lstrip(s, 1)
           L == Len(t)
           g == (h + e) - 1
           P == h + b
           Q == h + k
<1>1. /\ h \in Nat /\ L \in Nat /\ c \in h .. L /\ Len(s) = c - h
      /\ \A i \in 1 .. c - h : s[i] = t[h + i]
  BY DEF Held
<1>2. /\ b \in 1 .. c - h
      /\ \A j \in 1 .. b - 1 : s[j] \in Space
  BY <1>1, IsDecided
<1>3. /\ k \in b + 2 .. c - h /\ s[b] = "[" /\ s[k] = "]" /\ (k - b) - 1 <= LongName
      /\ \A j \in b + 1 .. k - 1 : s[j] \notin {"]", "n"}
  BY <1>1 DEF Closes
<1>4. LongName \in Nat
  BY LabelsAssumption
<1>5. /\ e \in k + 1 .. (c - h) + 1 /\ \A j \in k + 1 .. e - 1 : s[j] \in Space
  BY <1>1
<1> HIDE DEF b, L, g, P, Q
<1>6. /\ P \in h + 1 .. L /\ Q \in h + 1 .. L /\ P + 2 <= Q /\ g \in Q .. c /\ (Q - P) - 1 \in 1 .. LongName
      /\ t[P] = "[" /\ t[Q] = "]"
  BY <1>1, <1>2, <1>3, <1>4, <1>5 DEF P, Q, g
<1>7. \A j \in h + 1 .. P - 1 : t[j] \in Space
  <2> TAKE j \in h + 1 .. P - 1
  <2>1. j - h \in 1 .. b - 1 /\ j - h \in 1 .. c - h /\ h + (j - h) = j
    BY <1>1, <1>2 DEF P
  <2> QED  BY <1>1, <1>2, <2>1
<1>8. \A j \in P + 1 .. Q - 1 : t[j] \notin {"]", "n"}
  <2> TAKE j \in P + 1 .. Q - 1
  <2>1. j - h \in b + 1 .. k - 1 /\ j - h \in 1 .. c - h /\ h + (j - h) = j
    BY <1>1, <1>2, <1>3 DEF P, Q
  <2> QED  BY <1>1, <1>3, <2>1
<1>9. \A j \in Q + 1 .. g : t[j] \in Space
  <2> TAKE j \in Q + 1 .. g
  <2>1. j - h \in k + 1 .. e - 1 /\ j - h \in 1 .. c - h /\ h + (j - h) = j
    BY <1>1, <1>2, <1>3, <1>5 DEF g, Q
  <2> QED  BY <1>1, <1>5, <2>1
<1>10. LabelAt(t, P, Q) /\ P \in 1 .. L /\ Q \in 1 .. L
  <2>1. P \in 1 .. L /\ Q \in 1 .. L /\ h \in 0 .. P - 1
    BY <1>1, <1>6
  <2>2. h > 0 => t[h] = "n"
    BY DEF LineStart
  <2> QED  BY <1>6, <1>7, <1>8, <2>1, <2>2 DEF LabelAt, L
<1>11. \A i \in h + 1 .. g : t[i] \in Space \/ inLabel(t, i)
  <2> TAKE i \in h + 1 .. g
  <2>1. i \in h + 1 .. P - 1 \/ i \in P .. Q \/ i \in Q + 1 .. g
    BY <1>1, <1>6
  <2>2. i \in P .. Q => inLabel(t, i)
    BY <1>10, LabelsAre DEF L
  <2> QED  BY <1>7, <1>9, <2>1, <2>2
<1>12. plain(t, g) = plain(t, h)
  <2>1. \A i \in 1 .. g : i \in 1 .. h \/ i \in h + 1 .. g
    BY <1>1, <1>6
  <2>2. \A i \in 1 .. h : i \in 1 .. g
    BY <1>1, <1>6
  <2> QED  BY <1>11, <2>1, <2>2 DEF plain
<1>13. Clear(t, g)
  <2> SUFFICES ASSUME NEW i \in g + 1 .. L, inLabel(t, i), \A m \in g + 1 .. i - 1 : t[m] # "n"
               PROVE  FALSE
    BY DEF Clear, L
  <2>1. PICK p \in 1 .. L, q \in 1 .. L : LabelAt(t, p, q) /\ i \in p .. q
    BY LabelsAre DEF L
  <2>2. /\ t[p] = "[" /\ t[q] = "]"
        /\ \A j \in p + 1 .. q - 1 : t[j] \notin {"]", "n"}
    BY <2>1, Zenon DEF LabelAt
  <2>3. CASE p > g
    <3>1. PICK a \in 0 .. p - 1 : /\ a > 0 => t[a] = "n"
                                  /\ \A j \in a + 1 .. p - 1 : t[j] \in Space
      BY <2>1 DEF LabelAt
    <3>2. a <= g
      <4> SUFFICES ASSUME a > g PROVE FALSE
        BY <1>1, <1>6, <3>1
      <4>1. a \in g + 1 .. i - 1 /\ a > 0
        BY <1>1, <1>6, <2>1, <3>1
      <4> QED  BY <3>1, <4>1
    <3>3. a >= Q
      <4> SUFFICES ASSUME a < Q PROVE FALSE
        BY <1>1, <1>6, <3>1
      <4>1. Q \in a + 1 .. p - 1
        BY <1>1, <1>6, <2>3, <3>1
      <4>2. t[Q] \in Space
        BY <3>1, <4>1
      <4> QED  BY <1>6, <4>2 DEF Space
    <3>4. a > 0 /\ t[a] = "n"
      BY <1>1, <1>6, <3>1, <3>3
    <3>5. a # Q
      BY <1>6, <3>4
    <3>6. a \in Q + 1 .. L /\ \A j \in Q + 1 .. a : j \in Q + 1 .. g
      BY <1>1, <1>6, <3>1, <3>2, <3>3, <3>5
    <3>7. \A j \in Q + 1 .. a : t[j] \in Space
      BY <1>9, <3>6
    <3>8. BreakBehind(t, Q)
      BY <3>4, <3>6, <3>7 DEF BreakBehind, L
    <3> QED  BY <1>10, <3>8, LabelsAre DEF L
  <2>4. CASE ~(p > g)
    <3>1. CASE p > Q
      <4>1. p \in Q + 1 .. g
        BY <1>1, <1>6, <2>4, <3>1
      <4> QED  BY <1>9, <2>2, <4>1 DEF Space
    <3>2. CASE p = Q
      BY <1>6, <2>2, <3>2
    <3>3. CASE p < Q
      <4>1. Q \in p + 1 .. q - 1
        BY <1>1, <1>6, <2>1, <3>3
      <4> QED  BY <1>6, <2>2, <4>1
    <3> QED  BY <1>1, <1>6, <3>1, <3>2, <3>3
  <2> QED  BY <2>3, <2>4
<1> QED  BY <1>12, <1>13 DEF g

\* How far the answer t was read: c characters came, h of them were spoken or
\* taken out, and the rest is held.
Reached(t, c, h, said, back, start) ==
  /\ h \in Nat /\ c \in h .. Len(t) /\ back = SubSeq(t, h + 1, c)
  /\ said \in Seq(Chars) /\ spelled(said) = standing(t, plain(t, h))
  /\ IF start THEN LineStart(t, h) ELSE Clear(t, h)

LEMMA HeldIs ==
  ASSUME NEW M, NEW t \in Seq(M), NEW h \in Nat, NEW c \in h .. Len(t), NEW s, s = SubSeq(t, h + 1, c)
  PROVE  s \in Seq(M) /\ Held(t, h, c, s)
<1>1. s \in Seq(M) /\ Len(s) = c - h /\ \A i \in 1 .. c - h : s[i] = t[h + i]
  BY SubSeqProperties
<1> QED  BY <1>1 DEF Held

\* What is left of what is held.
LEMMA FromIs ==
  ASSUME NEW M, NEW t \in Seq(M), NEW h \in Nat, NEW c \in h .. Len(t), NEW e \in 1 .. (c - h) + 1
  PROVE  from(SubSeq(t, h + 1, c), e) = SubSeq(t, ((h + e) - 1) + 1, c)
<1> DEFINE s == SubSeq(t, h + 1, c)
           a == SubSeq(s, e, Len(s))
           b == SubSeq(t, ((h + e) - 1) + 1, c)
<1>1. s \in Seq(M) /\ Len(s) = c - h /\ \A i \in 1 .. c - h : s[i] = t[h + i]
  BY SubSeqProperties
<1>2. /\ h \in Nat /\ c \in Nat /\ Len(t) \in Nat /\ h <= c /\ c <= Len(t)
      /\ e \in Nat /\ 1 <= e /\ e <= (c - h) + 1
  BY <1>1
<1> HIDE DEF s
<1>3. a \in Seq(M) /\ Len(a) = ((c - h) - e) + 1 /\ \A i \in 1 .. ((c - h) - e) + 1 : a[i] = s[(e + i) - 1]
  BY <1>1, <1>2, SubSeqProperties
<1>4. /\ b \in Seq(M) /\ Len(b) = ((c - h) - e) + 1
      /\ \A i \in 1 .. ((c - h) - e) + 1 : b[i] = t[((h + e) + i) - 1]
  BY <1>1, <1>2, SubSeqProperties
<1> HIDE DEF a, b
<1>5. \A i \in 1 .. Len(a) : a[i] = b[i]
  <2> TAKE i \in 1 .. Len(a)
  <2>1. (e + i) - 1 \in 1 .. c - h /\ h + ((e + i) - 1) = ((h + e) + i) - 1
    BY <1>2, <1>3
  <2> QED  BY <1>1, <1>3, <1>4, <2>1
<1>6. a = b
  BY <1>3, <1>4, <1>5, SeqEqual
<1> QED  BY <1>6 DEF a, b, s, from

LEMMA FrontIs ==
  ASSUME NEW M, NEW t \in Seq(M), NEW h \in Nat, NEW c \in h .. Len(t), NEW e \in 0 .. c - h
  PROVE  SubSeq(SubSeq(t, h + 1, c), 1, e) = SubSeq(t, h + 1, h + e)
<1> DEFINE s == SubSeq(t, h + 1, c)
           a == SubSeq(s, 1, e)
           b == SubSeq(t, h + 1, h + e)
<1>1. s \in Seq(M) /\ Len(s) = c - h /\ \A i \in 1 .. c - h : s[i] = t[h + i]
  BY SubSeqProperties
<1>2. /\ h \in Nat /\ c \in Nat /\ Len(t) \in Nat /\ h <= c /\ c <= Len(t)
      /\ e \in Nat /\ e <= c - h
  BY <1>1
<1> HIDE DEF s
<1>3. a \in Seq(M) /\ Len(a) = e /\ \A i \in 1 .. e : a[i] = s[i]
  BY <1>1, <1>2, SubSeqProperties
<1>4. b \in Seq(M) /\ Len(b) = e /\ \A i \in 1 .. e : b[i] = t[h + i]
  BY <1>1, <1>2, SubSeqProperties
<1> HIDE DEF a, b
<1>5. \A i \in 1 .. Len(a) : a[i] = b[i]
  <2> SUFFICES ASSUME NEW i \in 1 .. e PROVE a[i] = b[i]
    BY <1>3
  <2>1. i \in 1 .. c - h
    BY <1>2
  <2> QED  BY <1>1, <1>3, <1>4, <2>1
<1>6. a = b
  BY <1>3, <1>4, <1>5, SeqEqual
<1> QED  BY <1>6 DEF a, b, s

\* A label is looked for, and taken if there is one.
LEMMA LabelRound ==
  ASSUME NEW t \in Seq(Chars), ~labelAlone(t), NEW c, NEW h, NEW said, NEW back,
         Reached(t, c, h, said, back, TRUE), back # <<>>, ~_undecided(back)
  PROVE  \E g : Reached(t, c, g, said, from(back, labelEnd(back)), FALSE)
<1> DEFINE e == labelEnd(back)
<1>1. /\ h \in Nat /\ c \in h .. Len(t) /\ back = SubSeq(t, h + 1, c)
      /\ said \in Seq(Chars) /\ spelled(said) = standing(t, plain(t, h)) /\ LineStart(t, h)
  BY DEF Reached
<1>2. back \in Seq(Chars) /\ Held(t, h, c, back) /\ Len(back) = c - h
  BY <1>1, HeldIs DEF Held
<1>3. lstrip(back, 1) \in 1 .. Len(back)
  BY <1>2, IsDecided
<1>4. /\ e \in 1 .. (c - h) + 1
      /\ Clear(t, (h + e) - 1) /\ plain(t, (h + e) - 1) = plain(t, h)
  <2>1. CASE e = 1 /\ \A k : ~Closes(back, lstrip(back, 1), k)
    <3>1. Clear(t, h)
      BY <1>1, <1>2, <2>1, NoneFound
    <3>2. (h + e) - 1 = h /\ e \in 1 .. (c - h) + 1
      BY <1>1, <2>1
    <3> QED  BY <3>1, <3>2
  <2>2. ASSUME NEW k, Closes(back, lstrip(back, 1), k), e \in k + 1 .. Len(back) + 1,
               \A j \in k + 1 .. e - 1 : back[j] \in Space
        PROVE  /\ e \in 1 .. (c - h) + 1
               /\ Clear(t, (h + e) - 1) /\ plain(t, (h + e) - 1) = plain(t, h)
    <3>1. k \in lstrip(back, 1) + 2 .. Len(back)
      BY <2>2 DEF Closes
    <3>2. e \in 1 .. (c - h) + 1
      BY <1>1, <1>2, <1>3, <2>2, <3>1
    <3> HIDE DEF e
    <3>3. /\ e \in k + 1 .. Len(back) + 1 /\ LineStart(t, h) /\ Held(t, h, c, back)
          /\ \A j \in k + 1 .. e - 1 : back[j] \in Space
      BY <1>1, <1>2, <2>2
    <3>4. Closes(back, lstrip(back, 1), k)
      BY <2>2
    <3>5. back \in Seq(Chars)
      BY <1>2
    <3>6. Clear(t, (h + e) - 1) /\ plain(t, (h + e) - 1) = plain(t, h)
      BY ONLY <3>3, <3>4, <3>5, t \in Seq(Chars), ~labelAlone(t), ~_undecided(back), OneFound
    <3> QED  BY <3>2, <3>6
  <2> QED  BY <1>2, <1>3, <2>1, <2>2, LabelEndIs
<1> HIDE DEF e
<1> DEFINE g == (h + e) - 1
<1>5. g \in Nat /\ c \in g .. Len(t)
  BY <1>1, <1>4
<1>6. from(back, e) = SubSeq(t, g + 1, c)
  BY <1>1, <1>4, FromIs
<1> HIDE DEF g
<1>7. Clear(t, g) /\ spelled(said) = standing(t, plain(t, g))
  BY <1>1, <1>4 DEF g
<1>8. Reached(t, c, g, said, from(back, e), FALSE)
  BY <1>1, <1>5, <1>6, <1>7 DEF Reached
<1> QED  BY <1>8 DEF e

\* What is held is spoken up to a new line, or to its end when there is none.
LEMMA LineRound ==
  ASSUME NEW t \in Seq(Chars), NEW c, NEW h, NEW said, NEW back,
         Reached(t, c, h, said, back, FALSE), NEW e \in 0 .. Len(back),
         \A j \in 1 .. e - 1 : back[j] # "n", NEW start \in BOOLEAN,
         IF start THEN e > 0 /\ back[e] = "n" ELSE e = Len(back) /\ (e > 0 => back[e] # "n")
  PROVE  \E g : Reached(t, c, g, said \o SubSeq(back, 1, e), from(back, e + 1), start)
<1> DEFINE g == h + e
           L == Len(t)
           more == SubSeq(t, h + 1, g)
<1>1. /\ h \in Nat /\ c \in h .. L /\ back = SubSeq(t, h + 1, c)
      /\ said \in Seq(Chars) /\ spelled(said) = standing(t, plain(t, h)) /\ Clear(t, h)
  BY DEF Reached
<1>2. back \in Seq(Chars) /\ Len(back) = c - h /\ \A i \in 1 .. c - h : back[i] = t[h + i]
  BY <1>1, HeldIs DEF Held
<1>3. L \in Nat
  OBVIOUS
<1>4. g \in h .. L /\ g \in Nat /\ c \in g .. L /\ e \in 0 .. c - h /\ e + 1 \in 1 .. (c - h) + 1
  BY <1>1, <1>2, <1>3
<1>5. SubSeq(back, 1, e) = more
  BY <1>1, <1>4, FrontIs
<1>6. from(back, e + 1) = SubSeq(t, g + 1, c)
  <2>1. ((h + (e + 1)) - 1) + 1 = g + 1
    BY <1>1, <1>4
  <2>2. from(back, e + 1) = SubSeq(t, ((h + (e + 1)) - 1) + 1, c)
    <3> HIDE DEF g
    <3> QED  BY <1>1, <1>4, FromIs
  <2> QED  BY <2>1, <2>2
<1> HIDE DEF L
<1>7. \A j \in h + 1 .. g - 1 : t[j] # "n"
  <2> TAKE j \in h + 1 .. g - 1
  <2>1. j - h \in 1 .. e - 1 /\ j - h \in 1 .. c - h /\ h + (j - h) = j
    BY <1>1, <1>3, <1>4
  <2> QED  BY <1>2, <2>1
<1>8. \A i \in h + 1 .. g : t[i] \notin Space => ~inLabel(t, i)
  <2> SUFFICES ASSUME NEW i \in h + 1 .. g, inLabel(t, i) PROVE FALSE
    OBVIOUS
  <2>1. i \in h + 1 .. L /\ \A m \in h + 1 .. i - 1 : m \in h + 1 .. g - 1
    BY <1>1, <1>3, <1>4
  <2> QED  BY <1>1, <1>7, <2>1 DEF Clear, L
<1>9. /\ said \o more \in Seq(Chars)
      /\ spelled(said \o more) = standing(t, plain(t, g))
  BY <1>1, <1>4, <1>8, SaidOn DEF L
<1>10. IF start THEN LineStart(t, g) ELSE Clear(t, g)
  <2>1. ASSUME start PROVE LineStart(t, g)
    <3>1. e \in 1 .. c - h /\ back[e] = "n"
      BY <1>4, <2>1
    <3> QED  BY <1>2, <3>1 DEF LineStart
  <2>2. ASSUME ~start PROVE Clear(t, g)
    <3>1. \A j \in h + 1 .. g : t[j] # "n"
      <4> TAKE j \in h + 1 .. g
      <4>1. CASE j = g
        <5>1. e \in 1 .. c - h /\ back[e] # "n"
          BY <1>1, <1>3, <1>4, <2>2, <4>1
        <5> QED  BY <1>2, <4>1, <5>1
      <4> QED  BY <1>1, <1>3, <1>4, <1>7, <4>1
    <3> SUFFICES ASSUME NEW i \in g + 1 .. L, inLabel(t, i) PROVE \E m \in g + 1 .. i - 1 : t[m] = "n"
      BY DEF Clear, L
    <3>2. i \in h + 1 .. L
      BY <1>1, <1>3, <1>4
    <3>3. PICK m \in h + 1 .. i - 1 : t[m] = "n"
      BY <1>1, <3>2 DEF Clear, L
    <3>4. m \notin h + 1 .. g
      BY <3>1, <3>3
    <3>5. m \in g + 1 .. i - 1
      BY <1>1, <1>3, <1>4, <3>2, <3>4
    <3> QED  BY <3>3, <3>5
  <2> QED  BY <2>1, <2>2
<1> HIDE DEF g, more
<1>11. Reached(t, c, g, said \o more, SubSeq(t, g + 1, c), start)
  BY <1>4, <1>9, <1>10 DEF Reached, L
<1> QED  BY <1>5, <1>6, <1>11

Settled(back, start) == back = <<>> \/ (start /\ _undecided(back))
Weight(back, start) == IF start THEN 2 * Len(back) + 1 ELSE 2 * Len(back)

\* What a round of the loop is: nothing, a label, the rest of a line or a line.
Outcome == [spoken : Seq(Chars), held : Seq(Chars), start : BOOLEAN]

LEMMA RoundIs ==
  ASSUME NEW s \in Outcome
  PROVE  /\ Settled(s.held, s.start) => round(s) = s
         /\ \/ Settled(s.held, s.start) /\ round(s) = s
            \/ /\ s.held # <<>> /\ s.start /\ ~_undecided(s.held)
               /\ round(s) = [spoken |-> s.spoken, held |-> from(s.held, labelEnd(s.held)), start |-> FALSE]
            \/ /\ s.held # <<>> /\ ~s.start /\ \A j \in 1 .. Len(s.held) : s.held[j] # "n"
               /\ round(s) = [spoken |-> s.spoken \o s.held, held |-> <<>>, start |-> FALSE]
            \/ /\ ~s.start
               /\ \E e \in 1 .. Len(s.held) :
                    /\ s.held[e] = "n" /\ \A j \in 1 .. e - 1 : s.held[j] # "n"
                    /\ round(s) = [spoken |-> s.spoken \o SubSeq(s.held, 1, e),
                                   held |-> from(s.held, e + 1), start |-> TRUE]
<1> DEFINE back == s.held
           newlines == {k \in 1 .. Len(back) : back[k] = "n"}
           end == CHOOSE k \in newlines : \A j \in newlines : k <= j
           told == ~_undecided(back)
           label == from(back, labelEnd(back))
           front == SubSeq(back, 1, end)
           after0 == from(back, end + 1)
           over0 == back = <<>> \/ (s.start /\ ~told)
           first == back # <<>> /\ s.start /\ told
           none == back # <<>> /\ ~s.start /\ newlines = {}
<1>1. /\ s = [spoken |-> s.spoken, held |-> s.held, start |-> s.start] /\ s.start \in BOOLEAN
      /\ s.held \in Seq(Chars)
  BY DEF Outcome
<1>2. round(s) = CASE over0 -> s
                   [] first -> [s EXCEPT !.held = from(@, labelEnd(@)), !.start = FALSE]
                   [] none -> [s EXCEPT !.spoken = @ \o s.held, !.held = <<>>]
                   [] OTHER -> [spoken |-> s.spoken \o front, held |-> after0, start |-> TRUE]
  BY DEF round
<1>3. /\ over0 => round(s) = s
      /\ first => round(s) = [s EXCEPT !.held = from(@, labelEnd(@)), !.start = FALSE]
      /\ none => round(s) = [s EXCEPT !.spoken = @ \o s.held, !.held = <<>>]
      /\ ~over0 /\ ~first /\ ~none =>
           round(s) = [spoken |-> s.spoken \o front, held |-> after0, start |-> TRUE]
  <2>1. ~(over0 /\ first) /\ ~(over0 /\ none) /\ ~(first /\ none)
    <3> HIDE DEF told, newlines
    <3> QED  OBVIOUS
  <2> HIDE DEF over0, first, none, front, after0
  <2> QED  BY <1>2, <2>1
<1>4. Settled(back, s.start) => round(s) = s
  BY <1>3 DEF Settled
<1> HIDE DEF newlines
<1>5. CASE over0
  BY <1>3, <1>5 DEF Settled
<1>6. CASE first
  <2>1. round(s) = [s EXCEPT !.held = from(s.held, labelEnd(s.held)), !.start = FALSE]
    BY <1>3, <1>6
  <2>2. round(s) = [spoken |-> s.spoken, held |-> from(s.held, labelEnd(s.held)), start |-> FALSE]
    <3> DEFINE label0 == from(s.held, labelEnd(s.held))
    <3>1. round(s) = [s EXCEPT !.held = label0, !.start = FALSE]
      BY <2>1
    <3> HIDE DEF label0
    <3>2. round(s) = [spoken |-> s.spoken, held |-> label0, start |-> FALSE]
      BY <1>1, <3>1
    <3> QED  BY <3>2 DEF label0
  <2> QED  BY <1>4, <1>6, <2>2
<1>7. CASE none
  <2>1. \A j \in 1 .. Len(s.held) : s.held[j] # "n"
    BY <1>7 DEF newlines
  <2> DEFINE more == s.spoken \o s.held
  <2>2. round(s) = [s EXCEPT !.spoken = more, !.held = <<>>]
    BY <1>3, <1>7
  <2> HIDE DEF more
  <2>3. round(s) = [spoken |-> more, held |-> <<>>, start |-> s.start]
    BY <1>1, <2>2
  <2>4. s.start = FALSE
    BY <1>1, <1>7
  <2> QED  BY <1>4, <1>7, <2>1, <2>3, <2>4 DEF more
<1>8. CASE ~over0 /\ ~first /\ ~none
  <2>1. newlines # {} /\ ~s.start
    BY <1>8
  <2>2. newlines \in SUBSET Nat
    BY DEF newlines
  <2>3. end \in newlines /\ \A j \in newlines : end <= j
    BY <2>1, <2>2, LeastIsThere
  <2>4. round(s) = [spoken |-> s.spoken \o front, held |-> after0, start |-> TRUE]
    BY <1>3, <1>8
  <2> HIDE DEF end
  <2>5. end \in 1 .. Len(s.held) /\ s.held[end] = "n"
    BY <2>3 DEF newlines
  <2>6. \A j \in 1 .. end - 1 : s.held[j] # "n"
    <3> SUFFICES ASSUME NEW j \in 1 .. end - 1, s.held[j] = "n" PROVE FALSE
      OBVIOUS
    <3>1. j \in newlines
      BY <1>1, <2>5 DEF newlines
    <3> QED  BY <2>3, <2>5, <3>1
  <2> QED  BY <1>4, <2>1, <2>4, <2>5, <2>6
<1> QED  BY <1>5, <1>6, <1>7, <1>8

LEMMA RoundKeeps ==
  ASSUME NEW t \in Seq(Chars), ~labelAlone(t), NEW before \in Seq(Chars), NEW s \in Outcome,
         NEW c, NEW h, Reached(t, c, h, before \o s.spoken, s.held, s.start)
  PROVE  /\ round(s) \in Outcome
         /\ \E g : Reached(t, c, g, before \o round(s).spoken, round(s).held, round(s).start)
         /\ \/ Settled(round(s).held, round(s).start)
            \/ Weight(round(s).held, round(s).start) < Weight(s.held, s.start)
<1> DEFINE a == s.spoken
           back == s.held
           L == Len(back)
           r == round(s)
<1>1. a \in Seq(Chars) /\ back \in Seq(Chars) /\ s.start \in BOOLEAN /\ L \in Nat
  BY DEF Outcome
<1>2. CASE Settled(back, s.start) /\ r = s
  BY <1>2
<1>3. CASE back # <<>> /\ s.start /\ ~_undecided(back) /\ r = [spoken |-> a, held |-> from(back, labelEnd(back)), start |-> FALSE]
  <2> DEFINE e == labelEnd(back)
             f == from(back, e)
  <2>1. Reached(t, c, h, before \o a, back, TRUE)
    BY <1>1, <1>3
  <2>2. \E g : Reached(t, c, g, before \o a, f, FALSE)
    <3> HIDE DEF a, back
    <3> QED  BY <1>3, <2>1, LabelRound
  <2>3. e \in 1 .. L + 1
    <3> HIDE DEF back
    <3>1. lstrip(back, 1) \in 1 .. Len(back)
      BY <1>1, <1>3, IsDecided
    <3>2. \A k : Closes(back, lstrip(back, 1), k) => k \in lstrip(back, 1) + 2 .. Len(back)
      BY DEF Closes
    <3> QED  BY <1>1, <3>1, <3>2, LabelEndIs
  <2>4. f \in Seq(Chars) /\ Len(f) = (L - e) + 1
    <3> HIDE DEF back, e
    <3> QED  BY <1>1, <2>3, SubSeqProperties DEF from
  <2>5. r.spoken = a /\ r.held = f /\ r.start = FALSE /\ r = [spoken |-> a, held |-> f, start |-> FALSE]
    BY <1>3
  <2> HIDE DEF r, f, a, e
  <2>6. r \in Outcome
    BY <1>1, <2>4, <2>5 DEF Outcome
  <2>7. Weight(r.held, r.start) < Weight(back, s.start)
    <3>1. Weight(r.held, r.start) = 2 * Len(f) /\ Weight(back, s.start) = 2 * L + 1
      BY <1>3, <2>5 DEF Weight
    <3>2. 2 * ((L - e) + 1) < 2 * L + 1
      BY <1>1, <2>3
    <3> QED  BY <2>4, <3>1, <3>2
  <2> QED  BY <2>2, <2>5, <2>6, <2>7 DEF r, a
<1>4. CASE /\ back # <<>> /\ ~s.start /\ \A j \in 1 .. L : back[j] # "n"
           /\ r = [spoken |-> a \o back, held |-> <<>>, start |-> FALSE]
  <2>1. Reached(t, c, h, before \o a, back, FALSE)
    BY <1>1, <1>4
  <2>2. \E g : Reached(t, c, g, (before \o a) \o SubSeq(back, 1, L), from(back, L + 1), FALSE)
    <3> HIDE DEF a, back
    <3>1. /\ L \in 0 .. Len(back) /\ L = Len(back) /\ FALSE \in BOOLEAN
          /\ \A j \in 1 .. L - 1 : back[j] # "n"
          /\ L > 0 => back[L] # "n"
      BY <1>1, <1>4
    <3> HIDE DEF L
    <3> QED  BY <2>1, <3>1, LineRound
  <2>3. SubSeq(back, 1, L) = back /\ from(back, L + 1) = <<>>
    <3> HIDE DEF back
    <3>1. SubSeq(back, 1, Len(back)) = back
      BY <1>1, SubSeqFull
    <3> QED  BY <1>1, <3>1 DEF from
  <2>4. (before \o a) \o back = before \o (a \o back)
    <3> HIDE DEF a, back
    <3>1. before \in Seq(Chars) /\ a \in Seq(Chars) /\ back \in Seq(Chars)
      BY <1>1
    <3> QED  BY ONLY <3>1, ConcatAssociative
  <2>5. a \o back \in Seq(Chars)
    <3> HIDE DEF a, back
    <3> QED  BY <1>1, ConcatProperties
  <2>6. r.spoken = a \o back /\ r.held = <<>> /\ r.start = FALSE /\ r = [spoken |-> a \o back, held |-> <<>>, start |-> FALSE]
    <3> DEFINE more == a \o back
    <3>1. r = [spoken |-> more, held |-> <<>>, start |-> FALSE]
      BY <1>4
    <3> HIDE DEF r, more
    <3> QED  BY <3>1 DEF more
  <2> HIDE DEF r, a, back
  <2>7. r \in Outcome
    BY <2>5, <2>6 DEF Outcome
  <2>8. \E g : Reached(t, c, g, before \o r.spoken, r.held, r.start)
    BY <2>2, <2>3, <2>4, <2>6
  <2>9. Settled(r.held, r.start)
    BY <2>6 DEF Settled
  <2> QED  BY <2>7, <2>8, <2>9 DEF r
<1>5. ASSUME ~s.start, NEW e \in 1 .. L, back[e] = "n", \A j \in 1 .. e - 1 : back[j] # "n",
             r = [spoken |-> a \o SubSeq(back, 1, e), held |-> from(back, e + 1), start |-> TRUE]
      PROVE  /\ r \in Outcome
             /\ \E g : Reached(t, c, g, before \o r.spoken, r.held, r.start)
             /\ Weight(r.held, r.start) < Weight(back, s.start)
  <2> DEFINE b == SubSeq(back, 1, e)
             f == from(back, e + 1)
  <2>1. Reached(t, c, h, before \o a, back, FALSE)
    BY <1>1, <1>5
  <2>2. \E g : Reached(t, c, g, (before \o a) \o b, f, TRUE)
    <3> HIDE DEF a, back
    <3>1. e \in 0 .. Len(back) /\ e > 0
      BY <1>1
    <3> QED  BY <1>1, <1>5, <2>1, <3>1, LineRound
  <2>3. b \in Seq(Chars) /\ f \in Seq(Chars) /\ Len(f) = L - e
    <3> HIDE DEF back
    <3> QED  BY <1>1, SubSeqProperties DEF from
  <2> HIDE DEF b, f
  <2>4. (before \o a) \o b = before \o (a \o b)
    <3> HIDE DEF a, back, L
    <3>1. a \in Seq(Chars) /\ b \in Seq(Chars)
      BY <1>1, <2>3
    <3> QED  BY ONLY before \in Seq(Chars), <3>1, ConcatAssociative
  <2>5. a \o b \in Seq(Chars)
    <3> HIDE DEF a
    <3> QED  BY <1>1, <2>3, ConcatProperties
  <2>6. r.spoken = a \o b /\ r.held = f /\ r.start = TRUE /\ r = [spoken |-> a \o b, held |-> f, start |-> TRUE]
    <3> HIDE DEF r, a, back
    <3>1. r = [spoken |-> a \o b, held |-> f, start |-> TRUE]
      BY <1>5 DEF b, f
    <3> QED  BY <3>1
  <2> HIDE DEF r, a, back, L
  <2>7. r \in Outcome
    BY <2>3, <2>5, <2>6 DEF Outcome
  <2>8. \E g : Reached(t, c, g, before \o r.spoken, r.held, r.start)
    BY <2>2, <2>4, <2>6
  <2>9. Weight(r.held, r.start) < Weight(back, s.start)
    <3>1. Weight(r.held, r.start) = 2 * Len(f) + 1 /\ Weight(back, s.start) = 2 * L
      BY <1>5, <2>6 DEF Weight, L
    <3>2. 2 * (L - e) + 1 < 2 * L
      BY <1>1
    <3> QED  BY <2>3, <3>1, <3>2
  <2> QED  BY <2>7, <2>8, <2>9
<1>6. \/ Settled(back, s.start) /\ r = s
      \/ /\ back # <<>> /\ s.start /\ ~_undecided(back)
         /\ r = [spoken |-> a, held |-> from(back, labelEnd(back)), start |-> FALSE]
      \/ /\ back # <<>> /\ ~s.start /\ \A j \in 1 .. L : back[j] # "n"
         /\ r = [spoken |-> a \o back, held |-> <<>>, start |-> FALSE]
      \/ /\ ~s.start
         /\ \E e \in 1 .. L :
              /\ back[e] = "n" /\ \A j \in 1 .. e - 1 : back[j] # "n"
              /\ r = [spoken |-> a \o SubSeq(back, 1, e), held |-> from(back, e + 1), start |-> TRUE]
  BY RoundIs
<1> HIDE DEF r, a, back, L
<1> DEFINE Goal == /\ r \in Outcome
                   /\ \E g : Reached(t, c, g, before \o r.spoken, r.held, r.start)
                   /\ \/ Settled(r.held, r.start)
                      \/ Weight(r.held, r.start) < Weight(back, s.start)
<1>7. Goal
  <2>1. Settled(back, s.start) /\ r = s => Goal
    BY <1>2 DEF r, back
  <2> QED  BY <1>3, <1>4, <1>5, <1>6, <2>1 DEF r, back
<1> QED  BY <1>7 DEF r, back

\* The loop ends: a round that does something leaves less to do.
LEMMA FeedIs ==
  ASSUME NEW t \in Seq(Chars), ~labelAlone(t), NEW before \in Seq(Chars), NEW c, NEW h,
         NEW all \in Seq(Chars), NEW atStart \in BOOLEAN, Reached(t, c, h, before, all, atStart)
  PROVE  /\ feed(all, atStart) \in Outcome
         /\ \E g : Reached(t, c, g, before \o feed(all, atStart).spoken, feed(all, atStart).held,
                           feed(all, atStart).start)
         /\ Settled(feed(all, atStart).held, feed(all, atStart).start)
<1> DEFINE L == 2 * Len(all) + 1
           first == [spoken |-> <<>>, held |-> all, start |-> atStart]
           upTo(d, m) == [n \in 0 .. m |-> IF n = 0 THEN first ELSE round(d[n - 1])]
           Fine(s, n) == /\ s \in Outcome
                         /\ \E g : Reached(t, c, g, before \o s.spoken, s.held, s.start)
                         /\ \/ Settled(s.held, s.start)
                            \/ Weight(s.held, s.start) + n <= L
<1>1. L \in Nat /\ Len(all) \in Nat
  OBVIOUS
<1>2. Fine(first, 0)
  <2>1. /\ first \in Outcome /\ first.spoken = <<>> /\ first.held = all /\ first.start = atStart
    BY DEF Outcome
  <2>2. before \o <<>> = before
    BY ConcatEmptySeq
  <2>3. Weight(all, atStart) + 0 <= L
    BY <1>1 DEF Weight
  <2> HIDE DEF first, L
  <2> QED  BY <2>1, <2>2, <2>3
<1> HIDE DEF L
<1>3. ASSUME NEW n \in Nat, NEW s, Fine(s, n) PROVE Fine(round(s), n + 1)
  <2>1. PICK g : Reached(t, c, g, before \o s.spoken, s.held, s.start)
    BY <1>3
  <2> DEFINE r == round(s)
  <2>2. /\ r \in Outcome
        /\ \E k : Reached(t, c, k, before \o r.spoken, r.held, r.start)
        /\ \/ Settled(r.held, r.start)
           \/ Weight(r.held, r.start) < Weight(s.held, s.start)
    BY <1>3, <2>1, RoundKeeps
  <2>3. CASE Settled(s.held, s.start)
    <3>1. r = s
      BY <1>3, <2>3, RoundIs
    <3> QED  BY <1>3, <2>3, <3>1
  <2>4. CASE Weight(s.held, s.start) + n <= L
    <3>1. ASSUME NEW x \in Outcome PROVE Weight(x.held, x.start) \in Nat
      <4>1. x.held \in Seq(Chars)
        BY DEF Outcome
      <4>2. Len(x.held) \in Nat
        BY <4>1
      <4> QED  BY <4>2 DEF Weight
    <3>2. Weight(r.held, r.start) \in Nat /\ Weight(s.held, s.start) \in Nat
      BY <1>3, <2>2, <3>1
    <3>3. Settled(r.held, r.start) \/ Weight(r.held, r.start) + (n + 1) <= L
      <4> DEFINE v == Weight(r.held, r.start)
                 w == Weight(s.held, s.start)
      <4>1. v \in Nat /\ w \in Nat /\ w + n <= L
        BY <2>4, <3>2
      <4>2. Settled(r.held, r.start) \/ v < w
        BY <2>2
      <4> HIDE DEF v, w
      <4>3. v < w => v + (n + 1) <= L
        BY <1>1, <4>1
      <4> QED  BY <4>2, <4>3 DEF v
    <3> HIDE DEF r
    <3> QED  BY <2>2, <3>3 DEF r
  <2> QED  BY <1>3, <2>3, <2>4
<1> HIDE DEF first, Fine
<1>4. feed(all, atStart) = (CHOOSE d : d = upTo(d, L))[L]
  BY DEF feed, L, first
<1>5. \E d : d = upTo(d, L)
  <2> DEFINE S == {m \in Nat : \E d : d = upTo(d, m)}
  <2>1. 0 \in S
    <3> DEFINE d == [n \in 0 .. 0 |-> first]
    <3>1. d = upTo(d, 0)
      OBVIOUS
    <3> QED  BY <3>1
  <2>2. ASSUME NEW m \in Nat, m \in S PROVE m + 1 \in S
    <3>1. PICK d : d = upTo(d, m)
      BY <2>2
    <3> DEFINE e == [n \in 0 .. m + 1 |-> IF n = 0 THEN first ELSE round(d[n - 1])]
    <3>2. \A n \in 0 .. m : e[n] = d[n]
      BY <3>1
    <3>3. e = upTo(e, m + 1)
      <4>1. \A n \in 0 .. m + 1 : n # 0 => n - 1 \in 0 .. m
        OBVIOUS
      <4>2. \A n \in 0 .. m + 1 : n # 0 => e[n - 1] = d[n - 1]
        BY <3>2, <4>1
      <4>3. e = [n \in 0 .. m + 1 |-> IF n = 0 THEN first ELSE round(d[n - 1])]
        OBVIOUS
      <4> HIDE DEF e
      <4> QED  BY <4>2, <4>3
    <3> HIDE DEF e, upTo
    <3> QED  BY <3>3
  <2> HIDE DEF S
  <2>3. L \in S
    BY <1>1, <2>1, <2>2, ByCounting
  <2> QED  BY <2>3 DEF S
<1>6. PICK d : d = upTo(d, L) /\ feed(all, atStart) = d[L]
  <2> HIDE DEF upTo
  <2> QED  BY <1>4, <1>5
<1>7. d[0] = first /\ \A n \in 1 .. L : d[n] = round(d[n - 1])
  BY <1>1, <1>6
<1>8. \A n \in Nat : n <= L => Fine(d[n], n)
  <2> DEFINE S == {n \in Nat : n <= L => Fine(d[n], n)}
  <2>1. 0 \in S
    BY <1>2, <1>7
  <2>2. ASSUME NEW n \in Nat, n \in S PROVE n + 1 \in S
    <3>1. CASE n + 1 <= L
      <4>1. n + 1 \in 1 .. L /\ (n + 1) - 1 = n /\ Fine(d[n], n)
        BY <1>1, <2>2, <3>1
      <4>2. Fine(round(d[n]), n + 1)
        BY <1>3, <4>1
      <4>3. d[n + 1] = round(d[n])
        BY <1>7, <4>1
      <4> QED  BY <4>2, <4>3
    <3>2. CASE ~(n + 1 <= L)
      BY <3>2
    <3> QED  BY <3>1, <3>2
  <2> HIDE DEF S
  <2>3. \A n \in Nat : n \in S
    BY <2>1, <2>2, ByCounting
  <2> QED  BY <2>3 DEF S
<1> DEFINE fed == feed(all, atStart)
<1>9. Fine(fed, L)
  BY <1>1, <1>6, <1>8
<1> HIDE DEF fed
<1>10. fed \in Outcome /\ \E g : Reached(t, c, g, before \o fed.spoken, fed.held, fed.start)
  BY <1>9 DEF Fine
<1>11. ASSUME Weight(fed.held, fed.start) + L <= L PROVE Settled(fed.held, fed.start)
  <2>1. fed.held \in Seq(Chars) /\ fed.start \in BOOLEAN
    BY <1>10 DEF Outcome
  <2> DEFINE back == fed.held
  <2>2. Len(back) \in Nat /\ Len(back) = 0 => back = <<>>
    BY <2>1
  <2>3. Len(back) = 0
    <3> HIDE DEF back
    <3> QED  BY <1>1, <1>11, <2>1, <2>2 DEF Weight, back
  <2> QED  BY <2>2, <2>3 DEF Settled
<1>12. Settled(fed.held, fed.start)
  BY <1>9, <1>11 DEF Fine
<1> QED  BY <1>10, <1>12 DEF fed

\* Until a tool call came, the letters passed on are those outside the labels
\* up to where something is held, which may be the beginning of a label.
LabelsInd ==
  /\ text \in Seq(Chars) /\ came \in Nat /\ (over => came = Len(text))
  /\ ~calledTool /\ ~labelAlone(text) =>
       IF over THEN spelled(saidOut) = standing(text, plain(text, Len(text)))
       ELSE /\ lineStart \in BOOLEAN /\ Settled(heldText, lineStart)
            /\ \E h : Reached(text, came, h, saidOut, heldText, lineStart)

LEMMA LabelsStart == LabelsInit => LabelsInd
<1> SUFFICES ASSUME LabelsInit PROVE LabelsInd
  OBVIOUS
<1>1. text \in Seq(Chars)
  <2>1. PICK k \in 0 .. MaxText : text \in [1 .. k -> Chars]
    BY DEF LabelsInit, Texts0
  <2>2. k \in Nat
    BY LabelsAssumption
  <2> HIDE DEF Chars
  <2> QED  BY <2>1, <2>2
<1>2. /\ came = 0 /\ heldText = <<>> /\ lineStart = TRUE /\ saidOut = <<>> /\ over = FALSE
  BY DEF LabelsInit
<1>3. spelled(<<>>) = standing(text, plain(text, 0))
  <2>1. SubSeq(text, 1, 0) = <<>> /\ 0 \in 0 .. Len(text)
    BY <1>1, SubSeqEmpty
  <2>2. spelled(SubSeq(text, 0 + 1, 0)) = standing(text, {i \in 0 + 1 .. 0 : text[i] \notin Space})
    BY <1>1, <2>1, SpelledInPiece
  <2> DEFINE none == {i \in 0 + 1 .. 0 : text[i] \notin Space}
  <2>3. none = {} /\ plain(text, 0) = {} /\ 0 + 1 = 1
    BY DEF plain
  <2>4. spelled(SubSeq(text, 0 + 1, 0)) = standing(text, none)
    BY <2>2
  <2> HIDE DEF none
  <2>5. SubSeq(text, 0 + 1, 0) = <<>>
    BY <2>1, <2>3
  <2> QED  BY <2>3, <2>4, <2>5
<1>4. Reached(text, came, 0, saidOut, heldText, lineStart)
  <2>1. SubSeq(text, 0 + 1, 0) = <<>> /\ 0 \in 0 .. Len(text) /\ <<>> \in Seq(Chars)
    BY <1>1, SubSeqEmpty
  <2> QED  BY <1>2, <1>3, <2>1 DEF Reached, LineStart
<1> QED  BY <1>1, <1>2, <1>4 DEF LabelsInd, Settled

LEMMA PieceKeeps ==
  ASSUME LabelsInd, NEW n \in 1 .. MaxText, piece(n)
  PROVE  LabelsInd'
<1> DEFINE more == SubSeq(text, came + 1, came + n)
           all == heldText \o more
           fed == feed(all, lineStart)
<1>1. /\ text \in Seq(Chars) /\ came \in Nat /\ n \in Nat /\ n > 0 /\ Len(text) \in Nat
      /\ came + n <= Len(text) /\ ~over
  BY LabelsAssumption DEF LabelsInd, piece
<1>2. /\ came' = came + n /\ text' = text /\ calledTool' = calledTool /\ over' = over
      /\ saidOut' = saidOut \o fed.spoken /\ heldText' = fed.held /\ lineStart' = fed.start
  BY DEF piece
<1> HIDE DEF fed
<1>3. ASSUME ~calledTool, ~labelAlone(text)
      PROVE  /\ lineStart' \in BOOLEAN /\ Settled(heldText', lineStart')
             /\ \E h : Reached(text', came', h, saidOut', heldText', lineStart')
  <2>1. /\ lineStart \in BOOLEAN /\ Settled(heldText, lineStart)
        /\ \E h : Reached(text, came, h, saidOut, heldText, lineStart)
    BY <1>1, <1>3 DEF LabelsInd
  <2>2. PICK h : Reached(text, came, h, saidOut, heldText, lineStart)
    BY <2>1
  <2>3. /\ h \in Nat /\ came \in h .. Len(text) /\ heldText = SubSeq(text, h + 1, came)
        /\ saidOut \in Seq(Chars) /\ spelled(saidOut) = standing(text, plain(text, h))
        /\ IF lineStart THEN LineStart(text, h) ELSE Clear(text, h)
    BY <2>2 DEF Reached
  <2>4. all = SubSeq(text, h + 1, came + n) /\ all \in Seq(Chars)
    <3> DEFINE b == SubSeq(text, h + 1, came + n)
    <3>1. /\ heldText \in Seq(Chars) /\ Len(heldText) = came - h
          /\ \A i \in 1 .. came - h : heldText[i] = text[h + i]
      BY <1>1, <2>3, SubSeqProperties
    <3>2. /\ more \in Seq(Chars) /\ Len(more) = n
          /\ \A i \in 1 .. n : more[i] = text[came + i]
      BY <1>1, SubSeqProperties
    <3>3. /\ b \in Seq(Chars) /\ Len(b) = (came + n) - h
          /\ \A i \in 1 .. (came + n) - h : b[i] = text[h + i]
      <4>1. /\ h + 1 \in Int /\ came + n \in Int /\ h + 1 <= (came + n) + 1
            /\ \A i \in h + 1 .. came + n : text[i] \in Chars
        BY <1>1, <2>3
      <4>2. /\ b \in Seq(Chars) /\ Len(b) = IF h + 1 <= came + n THEN (came + n) - (h + 1) + 1 ELSE 0
            /\ \A i \in 1 .. (came + n) - (h + 1) + 1 : b[i] = text[(h + 1) + i - 1]
        BY <4>1, SubSeqProperties
      <4> HIDE DEF b
      <4> QED  BY <1>1, <2>3, <4>2
    <3> HIDE DEF more, b
    <3>4. /\ all \in Seq(Chars) /\ Len(all) = (came - h) + n
          /\ \A i \in 1 .. (came - h) + n : all[i] = IF i <= came - h THEN heldText[i] ELSE more[i - (came - h)]
      <4>1. heldText \in Seq(Chars) /\ more \in Seq(Chars)
        BY <3>1, <3>2
      <4>2. /\ all \in Seq(Chars) /\ Len(all) = Len(heldText) + Len(more)
            /\ \A i \in 1 .. Len(heldText) + Len(more) :
                 all[i] = IF i <= Len(heldText) THEN heldText[i] ELSE more[i - Len(heldText)]
        BY ONLY <4>1, ConcatProperties
      <4> HIDE DEF all
      <4> QED  BY <3>1, <3>2, <4>2
    <3> HIDE DEF all
    <3>5. Len(all) = Len(b)
      BY <1>1, <2>3, <3>3, <3>4
    <3>6. \A i \in 1 .. Len(all) : all[i] = b[i]
      <4> TAKE i \in 1 .. Len(all)
      <4>1. i \in 1 .. (came - h) + n /\ i \in 1 .. (came + n) - h /\ came - h \in Nat
        BY <1>1, <2>3, <3>4
      <4>2. CASE i <= came - h
        <5>1. i \in 1 .. came - h
          BY <4>1, <4>2
        <5> QED  BY <3>1, <3>3, <3>4, <4>1, <4>2, <5>1
      <4>3. CASE ~(i <= came - h)
        <5>1. i - (came - h) \in 1 .. n /\ came + (i - (came - h)) = h + i
          BY <1>1, <2>3, <4>1, <4>3
        <5> QED  BY <3>2, <3>3, <3>4, <4>1, <4>3, <5>1
      <4> QED  BY <4>2, <4>3
    <3>7. all = b
      BY <3>3, <3>4, <3>5, <3>6, SeqEqual
    <3> QED  BY <3>4, <3>7 DEF b
  <2> HIDE DEF all
  <2>5. Reached(text, came + n, h, saidOut, all, lineStart)
    <3>1. came + n \in h .. Len(text)
      BY <1>1, <2>3
    <3> QED  BY <2>3, <2>4, <3>1 DEF Reached
  <2>6. /\ fed \in Outcome /\ Settled(fed.held, fed.start)
        /\ \E g : Reached(text, came + n, g, saidOut \o fed.spoken, fed.held, fed.start)
    BY <1>1, <1>3, <2>1, <2>3, <2>4, <2>5, FeedIs DEF fed
  <2>7. fed.start \in BOOLEAN
    BY <2>6 DEF Outcome
  <2> QED  BY <1>2, <2>6, <2>7
<1>4. /\ text' \in Seq(Chars) /\ came' \in Nat /\ ~over'
  BY <1>1, <1>2
<1> QED  BY <1>1, <1>2, <1>3, <1>4 DEF LabelsInd

LEMMA LastKeeps ==
  ASSUME LabelsInd, lastPiece
  PROVE  LabelsInd'
<1> DEFINE L == Len(text)
<1>1. /\ text \in Seq(Chars) /\ came \in Nat /\ L \in Nat /\ ~over /\ came = L
      /\ over' = TRUE /\ saidOut' = saidOut \o heldText
      /\ text' = text /\ came' = came /\ lineStart' = lineStart /\ calledTool' = calledTool
  BY DEF LabelsInd, lastPiece, rest0
<1>2. ASSUME ~calledTool, ~labelAlone(text)
      PROVE  spelled(saidOut') = standing(text, plain(text, L))
  <2>1. /\ lineStart \in BOOLEAN /\ Settled(heldText, lineStart)
        /\ \E h : Reached(text, came, h, saidOut, heldText, lineStart)
    BY <1>1, <1>2 DEF LabelsInd
  <2>2. PICK h : Reached(text, came, h, saidOut, heldText, lineStart)
    BY <2>1
  <2>3. /\ h \in Nat /\ L \in h .. L /\ heldText = SubSeq(text, h + 1, L)
        /\ saidOut \in Seq(Chars) /\ spelled(saidOut) = standing(text, plain(text, h))
        /\ lineStart => LineStart(text, h)
    BY <1>1, <2>2 DEF Reached
  <2>4. heldText \in Seq(Chars) /\ Len(heldText) = L - h /\ \A i \in 1 .. L - h : heldText[i] = text[h + i]
    BY <1>1, <2>3, SubSeqProperties
  <2> HIDE DEF L
  <2>5. \A i \in h + 1 .. L : ~inLabel(text, i)
    <3>1. CASE heldText = <<>>
      <4>1. L - h = 0
        BY <2>4, <3>1
      <4> QED  BY <1>1, <2>3, <4>1
    <3>2. CASE lineStart /\ _undecided(heldText)
      <4>1. \A i \in 1 .. L - h : heldText[i] # "]"
        BY <2>4, <3>2, NotDecided
      <4> SUFFICES ASSUME NEW i \in h + 1 .. L, inLabel(text, i) PROVE FALSE
        OBVIOUS
      <4>2. PICK p \in 1 .. L, q \in 1 .. L : LabelAt(text, p, q) /\ i \in p .. q
        BY <1>1, LabelsAre DEF L
      <4>3. text[q] = "]" /\ q \in h + 1 .. L
        BY <1>1, <2>3, <4>2 DEF LabelAt
      <4>4. q - h \in 1 .. L - h /\ h + (q - h) = q
        BY <1>1, <2>3, <4>3
      <4> QED  BY <2>4, <4>1, <4>3, <4>4
    <3> QED  BY <2>1, <3>1, <3>2 DEF Settled
  <2>6. spelled(saidOut \o SubSeq(text, h + 1, L)) = standing(text, plain(text, L))
    BY <1>1, <2>3, <2>5, SaidOn DEF L
  <2> QED  BY <1>1, <2>3, <2>6
<1> HIDE DEF L
<1>3. Len(text') = L
  BY <1>1 DEF L
<1> QED  BY <1>1, <1>2, <1>3 DEF LabelsInd

LEMMA LabelsIndHolds == LabelsSpec => []LabelsInd
<1>1. LabelsInd /\ [LabelsNext]_labelsVars => LabelsInd'
  <2> SUFFICES ASSUME LabelsInd, [LabelsNext]_labelsVars PROVE LabelsInd'
    OBVIOUS
  <2>1. CASE \E n \in 1 .. MaxText : piece(n)
    BY <2>1, PieceKeeps
  <2>2. CASE toolPiece
    <3>1. text' = text /\ came' = came /\ over' = over /\ calledTool' = TRUE
      BY <2>2 DEF toolPiece
    <3> QED  BY <3>1 DEF LabelsInd
  <2>3. CASE lastPiece
    BY <2>3, LastKeeps
  <2>4. CASE UNCHANGED labelsVars
    <3>1. /\ text' = text /\ came' = came /\ over' = over /\ calledTool' = calledTool
          /\ saidOut' = saidOut /\ heldText' = heldText /\ lineStart' = lineStart
      BY <2>4 DEF labelsVars
    <3> QED  BY <3>1 DEF LabelsInd
  <2> QED  BY <2>1, <2>2, <2>3, <2>4 DEF LabelsNext
<1> QED  BY LabelsStart, <1>1, PTL DEF LabelsSpec

\* However an answer is cut into pieces, of any length and with any names, a
\* listener hears every letter of it that is in no label, in its order, and no
\* letter of a label: what is held back is always enough to tell.
THEOREM LabelsNeverSpoken == LabelsSpec => []LabelsAreTakenOut
<1>1. LabelsInd => LabelsAreTakenOut
  <2> SUFFICES ASSUME LabelsInd, over, ~calledTool, ~labelAlone(text)
               PROVE  spelled(saidOut) = standing(text, {i \in DOMAIN text : text[i] \notin Space /\ ~inLabel(text, i)})
    BY DEF LabelsAreTakenOut
  <2>1. DOMAIN text = 1 .. Len(text) /\ spelled(saidOut) = standing(text, plain(text, Len(text)))
    BY DEF LabelsInd
  <2>2. plain(text, Len(text)) = {i \in DOMAIN text : text[i] \notin Space /\ ~inLabel(text, i)}
    BY <2>1 DEF plain
  <2> QED  BY <2>1, <2>2
<1> QED  BY <1>1, LabelsIndHolds, PTL

-----------------------------------------------------------------------------
(***************************************************************************)
(* Wording.  Each reading is the loop of the code, and a loop is a         *)
(* function of its round: LoopIs says so once, and what a loop keeps is    *)
(* counted over its rounds.                                                *)
(***************************************************************************)

\* A loop of N rounds over states in S.
Loops(g, N, S, a, f) ==
  g \in [0 .. N -> S] /\ g = [n \in 0 .. N |-> IF n = 0 THEN a ELSE f[<<n, g[n - 1]>>]]

LEMMA LoopIs ==
  ASSUME NEW N \in Nat, NEW S, NEW a \in S, NEW f \in [(1 .. N) \X S -> S]
  PROVE  \E g : Loops(g, N, S, a, f)
<1> DEFINE on(g, m) == [n \in 0 .. m |-> IF n = 0 THEN a ELSE f[<<n, g[n - 1]>>]]
           T == {m \in Nat : m <= N => \E g \in [0 .. m -> S] : g = on(g, m)}
<1>1. 0 \in T
  <2> DEFINE g == [n \in 0 .. 0 |-> a]
  <2>1. g \in [0 .. 0 -> S] /\ g = on(g, 0)
    OBVIOUS
  <2> QED  BY <2>1
<1>2. ASSUME NEW m \in Nat, m \in T PROVE m + 1 \in T
  <2> SUFFICES ASSUME m + 1 <= N PROVE \E g \in [0 .. m + 1 -> S] : g = on(g, m + 1)
    OBVIOUS
  <2>1. PICK g \in [0 .. m -> S] : g = on(g, m)
    BY <1>2
  <2> DEFINE e == [n \in 0 .. m + 1 |-> IF n = 0 THEN a ELSE f[<<n, g[n - 1]>>]]
  <2>2. \A n \in 1 .. m + 1 : n \in 1 .. N /\ n - 1 \in 0 .. m /\ g[n - 1] \in S
    OBVIOUS
  <2>3. \A n \in 1 .. m + 1 : <<n, g[n - 1]>> \in (1 .. N) \X S
    BY <2>2
  <2>4. e \in [0 .. m + 1 -> S]
    <3>1. \A n \in 0 .. m + 1 : (IF n = 0 THEN a ELSE f[<<n, g[n - 1]>>]) \in S
      BY <2>3
    <3> QED  BY <3>1
  <2>5. \A n \in 0 .. m : e[n] = g[n]
    <3>1. \A n \in 0 .. m : g[n] = IF n = 0 THEN a ELSE f[<<n, g[n - 1]>>]
      BY <2>1
    <3> QED  BY <3>1
  <2>6. e = on(e, m + 1)
    <3>1. \A n \in 1 .. m + 1 : e[n - 1] = g[n - 1]
      BY <2>2, <2>5
    <3>2. e = [n \in 0 .. m + 1 |-> IF n = 0 THEN a ELSE f[<<n, g[n - 1]>>]]
      OBVIOUS
    <3> HIDE DEF e
    <3>3. \A n \in 0 .. m + 1 : (IF n = 0 THEN a ELSE f[<<n, g[n - 1]>>])
                                = (IF n = 0 THEN a ELSE f[<<n, e[n - 1]>>])
      BY <3>1
    <3> QED  BY <3>2, <3>3
  <2> HIDE DEF e, on
  <2> QED  BY <2>4, <2>6
<1> HIDE DEF T
<1>3. N \in T
  BY <1>1, <1>2, ByCounting
<1> QED  BY <1>3 DEF T, Loops

\* What each round keeps holds after all of them.
LEMMA RoundsKeep ==
  ASSUME NEW N \in Nat, NEW T \in SUBSET (0 .. N), 0 \in T, \A n \in 1 .. N : n - 1 \in T => n \in T
  PROVE  \A n \in 0 .. N : n \in T
<1> DEFINE K == {n \in Nat : n <= N => n \in T}
<1>1. 0 \in K
  OBVIOUS
<1>2. ASSUME NEW n \in Nat, n \in K PROVE n + 1 \in K
  <2> SUFFICES ASSUME n + 1 <= N PROVE n + 1 \in T
    OBVIOUS
  <2>1. n + 1 \in 1 .. N /\ (n + 1) - 1 = n /\ n \in T
    BY <1>2
  <2> QED  BY <2>1
<1> HIDE DEF K
<1>3. \A n \in Nat : n \in K
  BY <1>1, <1>2, ByCounting
<1> QED  BY <1>3 DEF K

\* Of some numbers that are not above n the greatest is among them.
LEMMA MostIs ==
  ASSUME NEW n \in Nat, NEW S \in SUBSET (0 .. n), S # {}
  PROVE  Max(S) \in S /\ \A k \in S : k <= Max(S)
<1> DEFINE over0 == {b \in 0 .. n : \A k \in S : k <= b}
<1>1. over0 \in SUBSET Nat /\ n \in over0
  OBVIOUS
<1>2. PICK b \in over0 : \A k \in over0 : b <= k
  <2> HIDE DEF over0
  <2> QED  BY <1>1, LeastIsThere
<1>3. b \in S
  <2> SUFFICES ASSUME b \notin S PROVE FALSE
    OBVIOUS
  <2>1. \A k \in S : k \in 0 .. n /\ k <= b /\ k # b
    BY <1>2
  <2>2. b \in 1 .. n
    <3>1. PICK k \in S : TRUE
      OBVIOUS
    <3> QED  BY <1>2, <2>1, <3>1
  <2>3. b - 1 \in over0
    BY <2>1, <2>2
  <2> QED  BY <1>2, <2>2, <2>3
<1>4. \E k \in S : \A j \in S : k >= j
  BY <1>2, <1>3
<1>5. Max(S) \in S /\ \A j \in S : Max(S) >= j
  BY <1>4 DEF Max
<1> QED  BY <1>5

-----------------------------------------------------------------------------
\* The place up to which two words are the same.
FirstApart(a, b, i) ==
  /\ i \in 0 .. Len(a)
  /\ \A n \in 1 .. i : a[n] = b[n]
  /\ i < Len(a) => a[i + 1] # b[i + 1]

LEMMA WordsPart ==
  ASSUME NEW S, NEW a \in Seq(S), NEW b \in Seq(S), Len(a) <= Len(b)
  PROVE  /\ \E i : FirstApart(a, b, i)
         /\ \A i, j : FirstApart(a, b, i) /\ FirstApart(a, b, j) => i = j
<1> DEFINE T == {k \in 0 .. Len(a) : k < Len(a) => a[k + 1] # b[k + 1]}
<1>1. Len(a) \in Nat
  OBVIOUS
<1>2. PICK i \in T : \A k \in T : i <= k
  <2>1. T \in SUBSET Nat /\ Len(a) \in T
    BY <1>1
  <2> HIDE DEF T
  <2> QED  BY <2>1, LeastIsThere
<1>3. \A n \in 1 .. i : a[n] = b[n]
  <2> TAKE n \in 1 .. i
  <2>1. n - 1 \in 0 .. Len(a) /\ n - 1 < Len(a) /\ n - 1 < i /\ (n - 1) + 1 = n /\ i \in Nat
    BY <1>1, <1>2
  <2>2. n - 1 \notin T
    <3> HIDE DEF T
    <3> QED  BY <1>2, <2>1
  <2> QED  BY <2>1, <2>2
<1>4. FirstApart(a, b, i)
  BY <1>2, <1>3 DEF FirstApart
<1>5. ASSUME NEW k, NEW j, FirstApart(a, b, k), FirstApart(a, b, j), k < j PROVE FALSE
  <2>1. k \in 0 .. Len(a) /\ j \in 0 .. Len(a) /\ k + 1 \in 1 .. j /\ k < Len(a)
    BY <1>1, <1>5 DEF FirstApart
  <2> QED  BY <1>5, <2>1 DEF FirstApart
<1>6. \A k, j : FirstApart(a, b, k) /\ FirstApart(a, b, j) => k = j
  <2> SUFFICES ASSUME NEW k, NEW j, FirstApart(a, b, k), FirstApart(a, b, j) PROVE k = j
    OBVIOUS
  <2>1. k \in Nat /\ j \in Nat
    BY <1>1 DEF FirstApart
  <2>2. ~(k < j) /\ ~(j < k)
    BY <1>5
  <2> QED  BY <2>1, <2>2
<1> QED  BY <1>4, <1>6

\* One letter left out of each of two words leaves the same.
LEMMA BothDropped ==
  ASSUME NEW S, NEW a \in Seq(S), NEW b \in Seq(S), Len(a) = Len(b), NEW k \in 1 .. Len(a)
  PROVE  drop(a, k) = drop(b, k) <=> \A j \in 1 .. Len(a) : j # k => a[j] = b[j]
<1> DEFINE n == Len(a)
           at0(j) == IF j < k THEN j ELSE j + 1
<1>1. n \in Nat /\ n = Len(b) /\ k \in 1 .. n
  OBVIOUS
<1>2. drop(a, k) = [j \in 1 .. n - 1 |-> a[at0(j)]] /\ drop(b, k) = [j \in 1 .. n - 1 |-> b[at0(j)]]
  BY DEF drop
<1> HIDE DEF n
<1>3. ASSUME drop(a, k) = drop(b, k), NEW j \in 1 .. n, j # k PROVE a[j] = b[j]
  <2>1. \A m \in 1 .. n - 1 : a[at0(m)] = b[at0(m)]
    BY <1>2, <1>3
  <2>2. CASE j < k
    <3>1. j \in 1 .. n - 1 /\ at0(j) = j
      BY <1>1, <2>2
    <3> QED  BY <2>1, <3>1
  <2>3. CASE ~(j < k)
    <3>1. j - 1 \in 1 .. n - 1 /\ at0(j - 1) = j
      BY <1>1, <1>3, <2>3
    <3> QED  BY <2>1, <3>1
  <2> QED  BY <2>2, <2>3
<1>4. ASSUME \A j \in 1 .. n : j # k => a[j] = b[j] PROVE drop(a, k) = drop(b, k)
  <2>1. \A m \in 1 .. n - 1 : at0(m) \in 1 .. n /\ at0(m) # k
    BY <1>1
  <2>2. \A m \in 1 .. n - 1 : a[at0(m)] = b[at0(m)]
    BY <1>4, <2>1
  <2> QED  BY <1>2, <2>2
<1> QED  BY <1>3, <1>4 DEF n

\* One letter left out of the longer of two words gives the other.
LEMMA OneDropped ==
  ASSUME NEW S, NEW a \in Seq(S), NEW b \in Seq(S), Len(b) = Len(a) + 1, NEW k \in 1 .. Len(b)
  PROVE  a = drop(b, k) <=> \A j \in 1 .. Len(a) : a[j] = IF j < k THEN b[j] ELSE b[j + 1]
<1> DEFINE n == Len(a)
<1>1. n \in Nat /\ a = [j \in 1 .. n |-> a[j]]
  OBVIOUS
<1>2. drop(b, k) = [j \in 1 .. n |-> b[IF j < k THEN j ELSE j + 1]]
  BY <1>1 DEF drop
<1>3. \A j \in 1 .. n : b[IF j < k THEN j ELSE j + 1] = IF j < k THEN b[j] ELSE b[j + 1]
  OBVIOUS
<1> HIDE DEF n
<1>4. a = drop(b, k) => \A j \in 1 .. n : a[j] = IF j < k THEN b[j] ELSE b[j + 1]
  BY <1>2, <1>3
<1>5. (\A j \in 1 .. n : a[j] = IF j < k THEN b[j] ELSE b[j + 1]) => a = drop(b, k)
  BY <1>1, <1>2, <1>3
<1> QED  BY <1>4, <1>5 DEF n

\* Behind the first letter that is not the same, the words go on alike just if
\* one edit there makes them the same.
LEMMA OneReplaced ==
  ASSUME NEW S, NEW a \in Seq(S), NEW b \in Seq(S), Len(a) = Len(b), NEW i \in Nat, FirstApart(a, b, i)
  PROVE  SubSeq(a, i + 2, Len(a)) = SubSeq(b, i + 2, Len(b))
           <=> a = b \/ \E k \in 1 .. Len(a) : drop(a, k) = drop(b, k)
<1> DEFINE n == Len(a)
           alike == \A j \in 1 .. n - (i + 1) : a[(i + 1) + j] = b[(i + 1) + j]
<1>1. /\ n \in Nat /\ n = Len(b) /\ i \in 0 .. n /\ i + 1 \in Nat /\ (i + 1) + 1 = i + 2
      /\ \A j \in 1 .. i : a[j] = b[j]
      /\ i < n => a[i + 1] # b[i + 1]
  BY DEF FirstApart
<1>2. SubSeq(a, i + 2, Len(a)) = SubSeq(b, i + 2, Len(b)) <=> alike
  <2> DEFINE m == n - (i + 1)
             c == SubSeq(a, i + 2, Len(a))
             d == SubSeq(b, i + 2, Len(b))
  <2>1. c = [j \in 1 .. (Len(a) - (i + 2)) + 1 |-> a[((i + 2) + j) - 1]]
    OBVIOUS
  <2>2. d = [j \in 1 .. (Len(b) - (i + 2)) + 1 |-> b[((i + 2) + j) - 1]]
    OBVIOUS
  <2>3. c = [j \in 1 .. m |-> a[(i + 1) + j]] /\ d = [j \in 1 .. m |-> b[(i + 1) + j]]
    BY <1>1, <2>1, <2>2
  <2> HIDE DEF c, d, m
  <2>4. c = d <=> \A j \in 1 .. m : a[(i + 1) + j] = b[(i + 1) + j]
    <3>1. \A j \in 1 .. m : c[j] = a[(i + 1) + j] /\ d[j] = b[(i + 1) + j]
      BY <2>3
    <3>2. c = d => \A j \in 1 .. m : a[(i + 1) + j] = b[(i + 1) + j]
      BY <3>1
    <3> QED  BY <2>3, <3>2
  <2> QED  BY <2>4 DEF c, d, m
<1> HIDE DEF n
<1>3. ASSUME alike PROVE a = b \/ \E k \in 1 .. n : drop(a, k) = drop(b, k)
  <2>1. CASE i = n
    <3>1. \A j \in 1 .. n : a[j] = b[j]
      BY <1>1, <2>1
    <3> QED  BY <1>1, <3>1 DEF n
  <2>2. CASE i # n
    <3>1. i + 1 \in 1 .. n
      BY <1>1, <2>2
    <3>2. \A j \in 1 .. n : j # i + 1 => a[j] = b[j]
      <4> TAKE j \in 1 .. n
      <4>1. CASE j > i + 1
        <5>1. j - (i + 1) \in 1 .. n - (i + 1) /\ (i + 1) + (j - (i + 1)) = j
          BY <1>1, <4>1
        <5> QED  BY <1>3, <5>1
      <4>2. CASE j <= i
        BY <1>1, <4>2
      <4> QED  BY <1>1, <4>1, <4>2
    <3>3. drop(a, i + 1) = drop(b, i + 1)
      BY <3>1, <3>2, BothDropped DEF n
    <3> QED  BY <3>1, <3>3
  <2> QED  BY <2>1, <2>2
<1>4. a = b => alike
  <2> SUFFICES ASSUME a = b PROVE alike
    OBVIOUS
  <2> QED  OBVIOUS
<1>5. ASSUME NEW k \in 1 .. n, drop(a, k) = drop(b, k) PROVE alike
  <2>1. \A j \in 1 .. n : j # k => a[j] = b[j]
    BY <1>5, BothDropped DEF n
  <2>2. i < n => k = i + 1
    <3> SUFFICES ASSUME i < n PROVE k = i + 1
      OBVIOUS
    <3>1. i + 1 \in 1 .. n
      BY <1>1
    <3> QED  BY <1>1, <2>1, <3>1
  <2>3. \A j \in 1 .. n - (i + 1) : (i + 1) + j \in 1 .. n /\ (i + 1) + j # k
    BY <1>1, <2>2
  <2> QED  BY <2>1, <2>3
<1> QED  BY <1>2, <1>3, <1>4, <1>5 DEF n

LEMMA OneInserted ==
  ASSUME NEW S, NEW a \in Seq(S), NEW b \in Seq(S), Len(b) = Len(a) + 1, NEW i \in Nat, FirstApart(a, b, i)
  PROVE  SubSeq(a, i + 1, Len(a)) = SubSeq(b, i + 2, Len(b))
           <=> \E k \in 1 .. Len(b) : a = drop(b, k)
<1> DEFINE n == Len(a)
           alike == \A j \in 1 .. n - i : a[i + j] = b[(i + 1) + j]
<1>1. /\ n \in Nat /\ Len(b) = n + 1 /\ i \in 0 .. n /\ i + 1 \in Nat /\ (i + 1) + 1 = i + 2
      /\ \A j \in 1 .. i : a[j] = b[j]
      /\ i < n => a[i + 1] # b[i + 1]
  BY DEF FirstApart
<1>2. SubSeq(a, i + 1, Len(a)) = SubSeq(b, i + 2, Len(b)) <=> alike
  <2> DEFINE m == n - i
             c == SubSeq(a, i + 1, Len(a))
             d == SubSeq(b, i + 2, Len(b))
  <2>1. c = [j \in 1 .. (Len(a) - (i + 1)) + 1 |-> a[((i + 1) + j) - 1]]
    OBVIOUS
  <2>2. d = [j \in 1 .. (Len(b) - (i + 2)) + 1 |-> b[((i + 2) + j) - 1]]
    OBVIOUS
  <2>3. c = [j \in 1 .. m |-> a[i + j]] /\ d = [j \in 1 .. m |-> b[(i + 1) + j]]
    BY <1>1, <2>1, <2>2
  <2> HIDE DEF c, d, m
  <2>4. c = d <=> \A j \in 1 .. m : a[i + j] = b[(i + 1) + j]
    <3>1. \A j \in 1 .. m : c[j] = a[i + j] /\ d[j] = b[(i + 1) + j]
      BY <2>3
    <3>2. c = d => \A j \in 1 .. m : a[i + j] = b[(i + 1) + j]
      BY <3>1
    <3> QED  BY <2>3, <3>2
  <2> QED  BY <2>4 DEF c, d, m
<1> HIDE DEF n
<1>3. ASSUME alike PROVE \E k \in 1 .. n + 1 : a = drop(b, k)
  <2>1. i + 1 \in 1 .. n + 1
    BY <1>1
  <2>2. \A j \in 1 .. n : a[j] = IF j < i + 1 THEN b[j] ELSE b[j + 1]
    <3> TAKE j \in 1 .. n
    <3>1. CASE j <= i
      BY <1>1, <3>1
    <3>2. CASE j > i
      <4>1. j - i \in 1 .. n - i /\ i + (j - i) = j /\ (i + 1) + (j - i) = j + 1
        BY <1>1, <3>2
      <4>2. a[j] = b[j + 1]
        BY <1>3, <4>1
      <4> QED  BY <1>1, <3>2, <4>2
    <3> QED  BY <1>1, <3>1, <3>2
  <2>3. a = drop(b, i + 1)
    BY <1>1, <2>1, <2>2, OneDropped DEF n
  <2> QED  BY <2>1, <2>3
<1>4. ASSUME NEW k \in 1 .. n + 1, a = drop(b, k) PROVE alike
  <2>1. \A j \in 1 .. n : a[j] = IF j < k THEN b[j] ELSE b[j + 1]
    <3>1. k \in 1 .. Len(b)
      BY <1>1
    <3> QED  BY <1>4, <3>1, OneDropped DEF n
  <2>2. k <= i + 1
    <3> SUFFICES ASSUME k > i + 1 PROVE FALSE
      BY <1>1
    <3>1. i + 1 \in 1 .. n /\ i + 1 < k
      BY <1>1
    <3>2. a[i + 1] = b[i + 1]
      BY <2>1, <3>1
    <3> QED  BY <1>1, <3>1, <3>2
  <2>3. \A j \in 1 .. n - i : i + j \in 1 .. n /\ ~(i + j < k) /\ (i + j) + 1 = (i + 1) + j
    BY <1>1, <2>2
  <2>4. \A j \in 1 .. n - i : a[i + j] = b[(i + j) + 1]
    BY <2>1, <2>3
  <2> QED  BY <2>3, <2>4
<1> QED  BY <1>1, <1>2, <1>3, <1>4 DEF n

\* What there is to say of two words, the first no longer than the other.
EditDistanceOne(a, b) ==
  \/ a = b
  \/ \E i \in 1 .. Len(a) : b = drop(a, i)
  \/ \E i \in 1 .. Len(b) : a = drop(b, i)
  \/ \E i \in (1 .. Len(a)) \cap (1 .. Len(b)) : drop(a, i) = drop(b, i) /\ Len(a) = Len(b)

LEMMA DroppedLength ==
  ASSUME NEW S, NEW a \in Seq(S), NEW i \in 1 .. Len(a)
  PROVE  Len(drop(a, i)) = Len(a) - 1
<1>1. Len(a) - 1 \in Nat
  OBVIOUS
<1> DEFINE n == Len(a) - 1
<1>2. drop(a, i) = [j \in 1 .. n |-> a[IF j < i THEN j ELSE j + 1]]
  BY DEF drop
<1> HIDE DEF n
<1>3. Len(drop(a, i)) = n
  BY <1>1, <1>2 DEF n
<1> QED  BY <1>3 DEF n

LEMMA ShorterFirst ==
  ASSUME NEW S, NEW a \in Seq(S), NEW b \in Seq(S), Len(a) <= Len(b), NEW i \in Nat, FirstApart(a, b, i)
  PROVE  EditDistanceOne(a, b) <=>
           /\ Len(b) - Len(a) <= 1
           /\ IF Len(a) = Len(b)
                THEN SubSeq(a, i + 2, Len(a)) = SubSeq(b, i + 2, Len(b))
                ELSE SubSeq(a, i + 1, Len(a)) = SubSeq(b, i + 2, Len(b))
<1>1. /\ Len(a) \in Nat /\ Len(b) \in Nat
      /\ \A k \in 1 .. Len(a) : Len(drop(a, k)) = Len(a) - 1
      /\ \A k \in 1 .. Len(b) : Len(drop(b, k)) = Len(b) - 1
  BY DroppedLength
<1>2. ~ \E k \in 1 .. Len(a) : b = drop(a, k)
  <2> SUFFICES ASSUME NEW k \in 1 .. Len(a), b = drop(a, k) PROVE FALSE
    OBVIOUS
  <2>1. Len(b) = Len(a) - 1
    BY <1>1
  <2> QED  BY <1>1, <2>1
<1>3. (\E k \in 1 .. Len(b) : a = drop(b, k)) => Len(b) = Len(a) + 1
  <2> SUFFICES ASSUME NEW k \in 1 .. Len(b), a = drop(b, k) PROVE Len(b) = Len(a) + 1
    OBVIOUS
  <2>1. Len(a) = Len(b) - 1
    BY <1>1
  <2> QED  BY <1>1, <2>1
<1>4. CASE Len(a) = Len(b)
  <2>1. SubSeq(a, i + 2, Len(a)) = SubSeq(b, i + 2, Len(b))
           <=> a = b \/ \E k \in 1 .. Len(a) : drop(a, k) = drop(b, k)
    BY <1>4, OneReplaced
  <2>2. EditDistanceOne(a, b) <=> a = b \/ \E k \in 1 .. Len(a) : drop(a, k) = drop(b, k)
    <3>1. ~ \E k \in 1 .. Len(b) : a = drop(b, k)
      BY <1>1, <1>3, <1>4
    <3>2. (1 .. Len(a)) \cap (1 .. Len(b)) = 1 .. Len(a)
      BY <1>4
    <3> QED  BY <1>2, <1>4, <3>1, <3>2 DEF EditDistanceOne
  <2>3. Len(b) - Len(a) <= 1
    BY <1>1, <1>4
  <2> QED  BY <1>4, <2>1, <2>2, <2>3
<1>5. CASE Len(b) = Len(a) + 1
  <2>1. SubSeq(a, i + 1, Len(a)) = SubSeq(b, i + 2, Len(b)) <=> \E k \in 1 .. Len(b) : a = drop(b, k)
    BY <1>5, OneInserted
  <2>2. EditDistanceOne(a, b) <=> \E k \in 1 .. Len(b) : a = drop(b, k)
    <3>1. Len(a) # Len(b) /\ a # b
      BY <1>1, <1>5
    <3> QED  BY <1>2, <3>1 DEF EditDistanceOne
  <2>3. Len(b) - Len(a) <= 1 /\ Len(a) # Len(b)
    BY <1>1, <1>5
  <2> QED  BY <2>1, <2>2, <2>3
<1>6. CASE Len(a) # Len(b) /\ Len(b) # Len(a) + 1
  <2>1. ~(Len(b) - Len(a) <= 1)
    BY <1>1, <1>6
  <2>2. ~EditDistanceOne(a, b)
    <3>1. a # b
      BY <1>6
    <3> QED  BY <1>2, <1>3, <1>6, <3>1 DEF EditDistanceOne
  <2> QED  BY <2>1, <2>2
<1> QED  BY <1>4, <1>5, <1>6

LEMMA EitherFirst ==
  ASSUME NEW S, NEW a \in Seq(S), NEW b \in Seq(S)
  PROVE  EditDistanceOne(a, b) <=> EditDistanceOne(b, a)
BY DEF EditDistanceOne

\* within_one_edit is the edit distance.
LEMMA EditIs ==
  ASSUME NEW S, NEW a \in Seq(S), NEW b \in Seq(S)
  PROVE  within_one_edit(a, b) <=> EditDistanceOne(a, b)
<1> DEFINE short == IF Len(a) > Len(b) THEN b ELSE a
           long == IF Len(a) > Len(b) THEN a ELSE b
           i == CHOOSE k \in 0 .. Len(short) :
                  /\ \A n \in 1 .. k : short[n] = long[n]
                  /\ k < Len(short) => short[k + 1] # long[k + 1]
<1>1. /\ short \in Seq(S) /\ long \in Seq(S) /\ Len(short) <= Len(long)
      /\ Len(a) = Len(b) <=> Len(short) = Len(long)
      /\ EditDistanceOne(a, b) <=> EditDistanceOne(short, long)
  <2>1. Len(a) \in Nat /\ Len(b) \in Nat
    OBVIOUS
  <2>2. CASE Len(a) > Len(b)
    <3>1. short = b /\ long = a
      BY <2>2
    <3> HIDE DEF short, long
    <3> QED  BY <2>1, <2>2, <3>1, EitherFirst
  <2>3. CASE ~(Len(a) > Len(b))
    <3>1. short = a /\ long = b
      BY <2>3
    <3> HIDE DEF short, long
    <3> QED  BY <2>1, <2>3, <3>1
  <2> QED  BY <2>2, <2>3
<1>2. within_one_edit(a, b) <=>
        /\ Len(long) - Len(short) <= 1
        /\ IF Len(a) = Len(b)
             THEN SubSeq(short, i + 2, Len(short)) = SubSeq(long, i + 2, Len(long))
             ELSE SubSeq(short, i + 1, Len(short)) = SubSeq(long, i + 2, Len(long))
  BY Zenon DEF within_one_edit
<1> HIDE DEF short, long
<1>3. FirstApart(short, long, i)
  <2>1. \E k : FirstApart(short, long, k)
    BY <1>1, WordsPart
  <2>2. \E k \in 0 .. Len(short) : /\ \A n \in 1 .. k : short[n] = long[n]
                                   /\ k < Len(short) => short[k + 1] # long[k + 1]
    BY <2>1 DEF FirstApart
  <2> QED  BY <2>2 DEF FirstApart
<1> HIDE DEF i
<1>4. i \in Nat
  BY <1>1, <1>3 DEF FirstApart
<1> QED  BY <1>1, <1>2, <1>3, <1>4, ShorterFirst

-----------------------------------------------------------------------------
\* A spelling stands at word i of a line.
Spells(line, i, s) ==
  IF Len(s) = 1 THEN _is_name_word(line.words[i])
  ELSE i + Len(s) - 1 <= Len(line.words) /\ SubSeq(line.words, i, i + Len(s) - 1) = s

WordedLines == [words: Seq(Vocabulary), breaks: SUBSET Nat]

LEMMA NameAtIs ==
  ASSUME NEW line \in WordedLines, NEW i \in 1 .. Len(line.words)
  PROVE  /\ _name_at(line, i) \in 0 .. (Len(line.words) - i) + 1
         /\ _name_at(line, i) > 0 => \E s \in Names : Spells(line, i, s) /\ Len(s) = _name_at(line, i)
         /\ \A s \in Names : Spells(line, i, s) => Len(s) <= _name_at(line, i)
<1> DEFINE N == Len(line.words)
           here == {s \in Names : Spells(line, i, s)}
           lengths == {0} \cup {Len(s) : s \in here}
<1>1. N \in Nat /\ i \in Nat /\ i >= 1 /\ i <= N
  <2>1. line.words \in Seq(Vocabulary)
    BY DEF WordedLines
  <2> QED  BY <2>1
<1>2. _name_at(line, i) = Max(lengths)
  BY Zenon DEF _name_at, Spells
<1>3. \A s \in here : Len(s) \in 1 .. (N - i) + 1
  <2> TAKE s \in here
  <2>1. Len(s) \in Nat /\ Len(s) >= 1
    <3>1. s \in Seq(Vocabulary) /\ s # <<>>
      BY WordingAssumption
    <3> QED  BY <3>1
  <2>2. Len(s) # 1 => i + Len(s) - 1 <= N
    BY DEF Spells
  <2> DEFINE k == Len(s)
  <2>3. k \in Nat /\ k >= 1 /\ (k # 1 => i + k - 1 <= N)
    BY <2>1, <2>2
  <2> HIDE DEF N, k
  <2>4. k \in 1 .. (N - i) + 1
    BY <1>1, <2>3
  <2> QED  BY <2>4 DEF k
<1> HIDE DEF N, here
<1>4. lengths \in SUBSET (0 .. (N - i) + 1) /\ lengths # {} /\ (N - i) + 1 \in Nat
  BY <1>1, <1>3
<1> DEFINE top == (N - i) + 1
<1>5. Max(lengths) \in lengths /\ \A k \in lengths : k <= Max(lengths)
  <2> HIDE DEF lengths, top
  <2> QED  BY <1>4, MostIs DEF top
<1> DEFINE n == Max(lengths)
<1>6. n \in 0 .. top /\ (n > 0 => \E s \in here : Len(s) = n) /\ \A s \in here : Len(s) <= n
  <2>1. n \in 0 .. top
    <3> HIDE DEF lengths, n
    <3> QED  BY <1>4, <1>5 DEF n
  <2>2. n = 0 \/ \E s \in here : Len(s) = n
    <3>1. n \in {0} \cup {Len(s) : s \in here}
      BY <1>5
    <3> HIDE DEF n
    <3> QED  BY <3>1
  <2>3. \A s \in here : Len(s) \in lengths
    OBVIOUS
  <2>4. \A s \in here : Len(s) <= n
    <3> HIDE DEF lengths
    <3> QED  BY <1>5, <2>3
  <2> HIDE DEF n
  <2> QED  BY <2>1, <2>2, <2>4
<1> HIDE DEF lengths, n
<1>7. _name_at(line, i) = n
  BY <1>2 DEF n
<1> HIDE DEF top
<1>8. /\ _name_at(line, i) \in 0 .. top
      /\ _name_at(line, i) > 0 => \E s \in here : Len(s) = _name_at(line, i)
      /\ \A s \in here : Len(s) <= _name_at(line, i)
  BY <1>6, <1>7
<1> QED  BY <1>8 DEF here, N, top

\* The states of the loop of _spans.
SpanState(N) == [i: 1 .. N + 1, spans: SUBSET ((1 .. N) \X (1 .. N + 1))]

LEMMA SpannedIs ==
  ASSUME NEW line \in WordedLines, NEW N \in Nat, N = Len(line.words), NEW s \in SpanState(N)
  PROVE  /\ s.i > N => spanned(line, s) = s
         /\ s.i <= N /\ _name_at(line, s.i) > 0 =>
              /\ spanned(line, s).i = s.i + _name_at(line, s.i)
              /\ spanned(line, s).spans = s.spans \cup {<<s.i, s.i + _name_at(line, s.i)>>}
         /\ s.i <= N /\ _name_at(line, s.i) = 0 =>
              spanned(line, s).i = s.i + 1 /\ spanned(line, s).spans = s.spans
         /\ spanned(line, s) \in SpanState(N)
         /\ s.spans \subseteq spanned(line, s).spans
<1> DEFINE n == _name_at(line, s.i)
           r == spanned(line, s)
<1>1. s.i \in 1 .. N + 1 /\ s.spans \in SUBSET ((1 .. N) \X (1 .. N + 1))
  BY DEF SpanState
<1>2. r = IF s.i > N THEN s
          ELSE IF n > 0 THEN [i |-> s.i + n, spans |-> s.spans \cup {<<s.i, s.i + n>>}]
          ELSE [s EXCEPT !.i = @ + 1]
  BY Zenon DEF spanned
<1>3. s.i <= N => n \in 0 .. (N - s.i) + 1
  <2> SUFFICES ASSUME s.i <= N PROVE n \in 0 .. (N - s.i) + 1
    OBVIOUS
  <2> DEFINE i == s.i
  <2>1. i \in 1 .. Len(line.words)
    BY <1>1
  <2> HIDE DEF i
  <2>2. _name_at(line, i) \in 0 .. (Len(line.words) - i) + 1
    BY <2>1, NameAtIs
  <2> QED  BY <2>2 DEF i
<1> HIDE DEF n, r
<1>4. CASE s.i > N
  <2>1. r = s /\ ~(s.i <= N)
    BY <1>1, <1>2, <1>4
  <2> QED  BY <1>4, <2>1 DEF r
<1>5. CASE s.i <= N /\ n > 0
  <2>1. s.i + n \in 1 .. N + 1 /\ s.i \in 1 .. N
    BY <1>1, <1>3, <1>5
  <2>2. r = [i |-> s.i + n, spans |-> s.spans \cup {<<s.i, s.i + n>>}]
    BY <1>1, <1>2, <1>5
  <2>3. r.i = s.i + n /\ r.spans = s.spans \cup {<<s.i, s.i + n>>}
    BY <2>2
  <2>4. s.spans \cup {<<s.i, s.i + n>>} \in SUBSET ((1 .. N) \X (1 .. N + 1))
    BY <1>1, <2>1
  <2>5. r \in SpanState(N)
    BY <2>1, <2>2, <2>4 DEF SpanState
  <2>6. ~(s.i > N) /\ n # 0
    BY <1>1, <1>3, <1>5
  <2> QED  BY <1>5, <2>3, <2>5, <2>6 DEF n, r
<1>6. CASE s.i <= N /\ n = 0
  <2>1. r = [s EXCEPT !.i = s.i + 1]
    BY <1>1, <1>2, <1>6
  <2>2. s = [i |-> s.i, spans |-> s.spans]
    BY DEF SpanState
  <2>3. r = [i |-> s.i + 1, spans |-> s.spans]
    BY <2>1, <2>2
  <2>4. s.i + 1 \in 1 .. N + 1
    BY <1>1, <1>6
  <2>5. r \in SpanState(N)
    BY <1>1, <2>3, <2>4 DEF SpanState
  <2>6. ~(s.i > N) /\ ~(n > 0)
    BY <1>1, <1>6
  <2> QED  BY <1>6, <2>3, <2>5, <2>6 DEF n, r
<1>7. s.i > N \/ (s.i <= N /\ n > 0) \/ (s.i <= N /\ n = 0)
  BY <1>1, <1>3
<1> QED  BY <1>4, <1>5, <1>6, <1>7

\* The loop of _spans.
SpanLoop(line, N, g) ==
  /\ g \in [0 .. N -> SpanState(N)]
  /\ g[0] = [i |-> 1, spans |-> {}]
  /\ \A n \in 1 .. N : g[n] = spanned(line, g[n - 1])
  /\ _spans(line) = g[N].spans

LEMMA SpansAre ==
  ASSUME NEW line \in WordedLines, NEW N \in Nat, N = Len(line.words)
  PROVE  \E g : SpanLoop(line, N, g)
<1> DEFINE S == SpanState(N)
           first == [i |-> 1, spans |-> {}]
           f == [p \in (1 .. N) \X S |-> spanned(line, p[2])]
           on(d) == [n \in 0 .. N |-> IF n = 0 THEN first ELSE spanned(line, d[n - 1])]
<1>1. first \in S
  BY DEF SpanState
<1>2. f \in [(1 .. N) \X S -> S]
  BY SpannedIs
<1> HIDE DEF S, first
<1>3. PICK g : Loops(g, N, S, first, f)
  <2> HIDE DEF f
  <2> QED  BY <1>1, <1>2, LoopIs
<1>4. g = on(g)
  <2>9. g \in [0 .. N -> S]
    BY <1>3, Zenon DEF Loops
  <2>1. \A n \in 1 .. N : n - 1 \in 0 .. N /\ <<n, g[n - 1]>> \in (1 .. N) \X S
    BY <2>9
  <2>2. \A n \in 1 .. N : f[<<n, g[n - 1]>>] = spanned(line, g[n - 1])
    BY <2>1
  <2> HIDE DEF f
  <2>3. \A n \in 0 .. N : (IF n = 0 THEN first ELSE f[<<n, g[n - 1]>>])
                          = (IF n = 0 THEN first ELSE spanned(line, g[n - 1]))
    BY <2>2
  <2> QED  BY <1>3, <2>3 DEF Loops
<1> DEFINE loop == CHOOSE d : d = on(d)
<1>5. loop = on(loop)
  <2> HIDE DEF on
  <2> QED  BY <1>4
<1>6. _spans(line) = loop[N].spans
  BY DEF _spans, first
<1> HIDE DEF loop
<1>7. loop[0] = first /\ \A n \in 1 .. N : loop[n] = spanned(line, loop[n - 1])
  <2>1. 0 \in 0 .. N /\ \A n \in 1 .. N : n \in 0 .. N /\ n # 0
    OBVIOUS
  <2>2. \A n \in 0 .. N : loop[n] = IF n = 0 THEN first ELSE spanned(line, loop[n - 1])
    BY <1>5, Zenon
  <2> QED  BY <2>1, <2>2
<1>8. \A n \in 0 .. N : loop[n] \in S
  <2> DEFINE T == {n \in 0 .. N : loop[n] \in S}
  <2>1. 0 \in T
    BY <1>1, <1>7
  <2>2. ASSUME NEW n \in 1 .. N, n - 1 \in T PROVE n \in T
    <3>1. spanned(line, loop[n - 1]) \in S
      BY <2>2, SpannedIs DEF S
    <3> QED  BY <1>7, <3>1
  <2> HIDE DEF T
  <2>3. \A n \in 0 .. N : n \in T
    <3>1. T \in SUBSET (0 .. N)
      BY DEF T
    <3> QED  BY <2>1, <2>2, <3>1, RoundsKeep
  <2> QED  BY <2>3 DEF T
<1>9. loop \in [0 .. N -> S]
  <2>1. \A n \in 0 .. N : loop[n] \in S
    BY <1>8
  <2>2. loop = [n \in 0 .. N |-> loop[n]]
    BY <1>5
  <2> QED  BY <2>1, <2>2
<1>10. SpanLoop(line, N, loop)
  BY <1>6, <1>7, <1>9 DEF SpanLoop, S, first
<1> QED  BY <1>10

\* What a loop of _spans found it keeps, and it looks at every word.
LEMMA SpansFound ==
  ASSUME NEW line \in WordedLines, NEW N \in Nat, N = Len(line.words), NEW g, SpanLoop(line, N, g)
  PROVE  \A n \in 0 .. N : g[n].spans \subseteq _spans(line) /\ g[n].i > n
<1>1. /\ \A n \in 0 .. N : g[n] \in SpanState(N)
      /\ \A n \in 1 .. N : n - 1 \in 0 .. N /\ g[n - 1] \in SpanState(N) /\ g[n] = spanned(line, g[n - 1])
      /\ _spans(line) = g[N].spans
  <2>1. g \in [0 .. N -> SpanState(N)]
    BY Zenon DEF SpanLoop
  <2>2. \A n \in 1 .. N : n - 1 \in 0 .. N
    OBVIOUS
  <2>3. (\A n \in 1 .. N : g[n] = spanned(line, g[n - 1])) /\ _spans(line) = g[N].spans
    BY Zenon DEF SpanLoop
  <2> QED  BY <2>1, <2>2, <2>3
<1>2. \A n \in 1 .. N : g[n - 1].spans \subseteq g[n].spans
  BY <1>1, SpannedIs
<1>3. \A n \in 0 .. N : g[n].spans \subseteq _spans(line)
  <2> DEFINE T == {m \in 0 .. N : g[N - m].spans \subseteq _spans(line)}
  <2>1. 0 \in T
    BY <1>1
  <2>2. ASSUME NEW m \in 1 .. N, m - 1 \in T PROVE m \in T
    <3> DEFINE k == N - (m - 1)
    <3>1. k \in 1 .. N /\ k - 1 = N - m /\ g[k].spans \subseteq _spans(line)
      BY <2>2
    <3>2. g[k - 1].spans \subseteq g[k].spans
      <4> HIDE DEF k
      <4> QED  BY <1>2, <3>1
    <3> HIDE DEF k
    <3>3. g[N - m].spans \subseteq _spans(line) /\ m \in 0 .. N
      BY <3>1, <3>2
    <3> QED  BY <3>3
  <2>3. T \in SUBSET (0 .. N)
    OBVIOUS
  <2> HIDE DEF T
  <2>4. \A m \in 0 .. N : m \in T
    BY <2>1, <2>2, <2>3, RoundsKeep
  <2>5. \A m \in 0 .. N : g[N - m].spans \subseteq _spans(line)
    BY <2>4 DEF T
  <2>6. ASSUME NEW n \in 0 .. N PROVE g[n].spans \subseteq _spans(line)
    <3>1. N - n \in 0 .. N /\ N - (N - n) = n
      OBVIOUS
    <3> QED  BY <2>5, <3>1
  <2> QED  BY <2>6
<1>4. \A n \in 0 .. N : g[n].i > n
  <2> DEFINE T == {n \in 0 .. N : g[n].i > n}
  <2>1. 0 \in T
    BY DEF SpanLoop
  <2>2. ASSUME NEW n \in 1 .. N, n - 1 \in T PROVE n \in T
    <3> DEFINE s == g[n - 1]
               r == g[n]
    <3>1. s \in SpanState(N) /\ r = spanned(line, s) /\ s.i > n - 1
      BY <1>1, <2>2
    <3> HIDE DEF s, r
    <3>2. s.i \in 1 .. N + 1
      BY <3>1 DEF SpanState
    <3>3. r.i > n
      <4>1. CASE s.i > N
        <5>1. r = s
          BY <3>1, <4>1, SpannedIs
        <5> QED  BY <3>2, <4>1, <5>1
      <4>2. CASE s.i <= N
        <5> DEFINE i == s.i
                   k == _name_at(line, i)
        <5>1. i \in 1 .. Len(line.words)
          BY <3>2, <4>2
        <5> HIDE DEF i
        <5>2. k \in 0 .. (Len(line.words) - i) + 1
          BY <5>1, NameAtIs
        <5>3. k \in Nat /\ (k > 0 \/ k = 0)
          BY <5>1, <5>2
        <5>4. (k > 0 => r.i = s.i + k) /\ (k = 0 => r.i = s.i + 1)
          BY <3>1, <4>2, SpannedIs DEF i
        <5> HIDE DEF k
        <5> QED  BY <3>1, <3>2, <5>3, <5>4
      <4> QED  BY <3>2, <4>1, <4>2
    <3> QED  BY <3>3 DEF r
  <2>3. T \in SUBSET (0 .. N)
    OBVIOUS
  <2> HIDE DEF T
  <2>4. \A n \in 0 .. N : n \in T
    BY <2>1, <2>2, <2>3, RoundsKeep
  <2> QED  BY <2>4 DEF T
<1> QED  BY <1>3, <1>4

\* The first words of a line are a line.
frontOf(line, gap) == [line EXCEPT !.words = SubSeq(@, 1, gap)]

LEMMA FrontLineIs ==
  ASSUME NEW line \in WordedLines, NEW gap \in 1 .. Len(line.words)
  PROVE  /\ frontOf(line, gap) \in WordedLines /\ Len(frontOf(line, gap).words) = gap
         /\ frontOf(line, gap).breaks = line.breaks
         /\ \A i \in 1 .. gap : frontOf(line, gap).words[i] = line.words[i]
         /\ \A i, j \in 1 .. gap : SubSeq(frontOf(line, gap).words, i, j) = SubSeq(line.words, i, j)
<1> DEFINE w == line.words
           u == SubSeq(w, 1, gap)
           f == frontOf(line, gap)
<1>1. w \in Seq(Vocabulary) /\ line = [words |-> w, breaks |-> line.breaks] /\ line.breaks \in SUBSET Nat
  BY DEF WordedLines
<1> HIDE DEF w
<1>2. gap \in 1 .. Len(w) /\ Len(w) \in Nat
  BY <1>1 DEF w
<1>3. u \in Seq(Vocabulary) /\ Len(u) = gap /\ \A i \in 1 .. gap : u[i] = w[i]
  BY <1>1, <1>2
<1>4. \A i, j \in 1 .. gap : SubSeq(u, i, j) = SubSeq(w, i, j)
  <2> TAKE i, j \in 1 .. gap
  <2> DEFINE c == SubSeq(u, i, j)
             d == SubSeq(w, i, j)
  <2> HIDE DEF u
  <2>9. i \in Int /\ j \in Int
    BY <1>2
  <2>1. c = [k \in 1 .. (j - i) + 1 |-> u[(i + k) - 1]] /\ d = [k \in 1 .. (j - i) + 1 |-> w[(i + k) - 1]]
    BY <2>9
  <2>2. \A k \in 1 .. (j - i) + 1 : (i + k) - 1 \in 1 .. gap
    BY <1>2
  <2>3. \A k \in 1 .. (j - i) + 1 : u[(i + k) - 1] = w[(i + k) - 1]
    BY <1>3, <2>2
  <2> QED  BY <2>1, <2>3
<1>5. f = [line EXCEPT !.words = u]
  BY Zenon DEF frontOf, w
<1> HIDE DEF u, f
<1>6. f = [words |-> u, breaks |-> line.breaks]
  BY <1>1, <1>5
<1>7. f \in WordedLines /\ f.words = u /\ f.breaks = line.breaks
  BY <1>1, <1>3, <1>6 DEF WordedLines
<1>8. /\ f \in WordedLines /\ Len(f.words) = gap /\ f.breaks = line.breaks
      /\ \A i \in 1 .. gap : f.words[i] = w[i]
      /\ \A i, j \in 1 .. gap : SubSeq(f.words, i, j) = SubSeq(w, i, j)
  BY <1>3, <1>4, <1>7
<1> QED  BY <1>8 DEF f, w

\* A name that does not go on behind the gap is found in front of it, and none
\* is found there that is not in the line.
LEMMA NameInFront ==
  ASSUME NEW line \in WordedLines, NEW gap \in 1 .. Len(line.words), NEW i \in 1 .. gap,
         i + _name_at(line, i) <= gap + 1
  PROVE  _name_at(frontOf(line, gap), i) = _name_at(line, i)
<1> DEFINE f == frontOf(line, gap)
           m == _name_at(line, i)
           n == _name_at(f, i)
           N == Len(line.words)
<1>1. N \in Nat /\ gap \in 1 .. N /\ i \in 1 .. N /\ gap \in Nat /\ i \in Nat
  <2>1. line.words \in Seq(Vocabulary)
    BY DEF WordedLines
  <2>2. N \in Nat
    BY <2>1
  <2> HIDE DEF N
  <2> QED  BY <2>2 DEF N
<1>2. /\ f \in WordedLines /\ Len(f.words) = gap
      /\ \A k \in 1 .. gap : f.words[k] = line.words[k]
      /\ \A k, j \in 1 .. gap : SubSeq(f.words, k, j) = SubSeq(line.words, k, j)
  BY FrontLineIs
<1> HIDE DEF f
<1>3. /\ m \in 0 .. (N - i) + 1 /\ (m > 0 => \E s \in Names : Spells(line, i, s) /\ Len(s) = m)
      /\ \A s \in Names : Spells(line, i, s) => Len(s) <= m
  <2> HIDE DEF N
  <2> QED  BY <1>1, NameAtIs DEF N
<1>4. /\ n \in 0 .. (gap - i) + 1 /\ (n > 0 => \E s \in Names : Spells(f, i, s) /\ Len(s) = n)
      /\ \A s \in Names : Spells(f, i, s) => Len(s) <= n
  <2>1. i \in 1 .. Len(f.words)
    BY <1>2
  <2> QED  BY <1>2, <2>1, NameAtIs
<1>5. \A s \in Names : Len(s) \in Nat /\ Len(s) >= 1
  <2> TAKE s \in Names
  <2>1. s \in Seq(Vocabulary) /\ s # <<>>
    BY WordingAssumption
  <2> QED  BY <2>1
<1>6. ASSUME NEW s \in Names, i + Len(s) <= gap + 1 PROVE Spells(f, i, s) <=> Spells(line, i, s)
  <2>1. CASE Len(s) = 1
    <3>1. f.words[i] = line.words[i]
      BY <1>2
    <3> QED  BY <2>1, <3>1 DEF Spells
  <2>2. CASE Len(s) # 1
    <3> DEFINE k == Len(s)
               j == i + k - 1
    <3>1. k \in Nat /\ k >= 1
      BY <1>5
    <3>2. j \in 1 .. gap /\ j <= gap /\ j <= N
      <4> HIDE DEF k, N
      <4> QED  BY <1>1, <1>6, <3>1 DEF k
    <3> HIDE DEF j
    <3>3. SubSeq(f.words, i, j) = SubSeq(line.words, i, j)
      BY <1>2, <3>2
    <3>4. j <= Len(f.words) /\ j <= Len(line.words)
      BY <1>2, <3>2
    <3> QED  BY <2>2, <3>3, <3>4 DEF Spells, j
  <2> QED  BY <2>1, <2>2
<1> HIDE DEF m, n, N
<1>7. i + m <= gap + 1
  BY DEF m
<1>8. m <= n
  <2>1. CASE m > 0
    <3>1. PICK s \in Names : Spells(line, i, s) /\ Len(s) = m
      BY <1>3, <2>1
    <3>2. Spells(f, i, s)
      BY <1>6, <1>7, <3>1
    <3> QED  BY <1>4, <3>1, <3>2
  <2>2. CASE ~(m > 0)
    BY <1>3, <1>4, <1>1, <2>2
  <2> QED  BY <2>1, <2>2
<1>9. n <= m
  <2>1. CASE n > 0
    <3>1. PICK s \in Names : Spells(f, i, s) /\ Len(s) = n
      BY <1>4, <2>1
    <3>2. i + Len(s) <= gap + 1
      BY <1>1, <1>4, <3>1
    <3>3. Spells(line, i, s)
      BY <1>6, <3>1, <3>2
    <3> QED  BY <1>3, <3>1, <3>3
  <2>2. CASE ~(n > 0)
    BY <1>3, <1>4, <1>1, <2>2
  <2> QED  BY <2>1, <2>2
<1>10. m = n
  BY <1>1, <1>3, <1>4, <1>8, <1>9
<1> QED  BY <1>10 DEF m, n, f

\* The spans in front of a gap that no span of the line crosses are spans of
\* the line.
LEMMA SpansInFront ==
  ASSUME NEW line \in WordedLines, NEW gap \in 1 .. Len(line.words),
         \A s \in _spans(line) : s[1] <= gap => s[2] <= gap + 1
  PROVE  /\ _spans(frontOf(line, gap)) \subseteq _spans(line)
         /\ _spans(frontOf(line, gap)) \subseteq (1 .. gap) \X (1 .. gap + 1)
<1> DEFINE f == frontOf(line, gap)
           N == Len(line.words)
<1>1. N \in Nat /\ gap \in 1 .. N /\ gap \in Nat
  <2>1. line.words \in Seq(Vocabulary)
    BY DEF WordedLines
  <2>2. N \in Nat
    BY <2>1
  <2> HIDE DEF N
  <2> QED  BY <2>2 DEF N
<1>2. f \in WordedLines /\ Len(f.words) = gap
  BY FrontLineIs
<1> HIDE DEF f
<1>3. PICK g : SpanLoop(line, N, g)
  BY <1>1, SpansAre
<1>4. PICK h : SpanLoop(f, gap, h)
  BY <1>1, <1>2, SpansAre
<1>5. \A n \in 0 .. N : g[n].spans \subseteq _spans(line)
  <2> HIDE DEF N
  <2> QED  BY <1>1, <1>3, SpansFound DEF N
<1>6. \A n \in 0 .. gap : h[n].i > n
  BY <1>1, <1>2, <1>4, SpansFound
<1>7. /\ \A n \in 1 .. N : n - 1 \in 0 .. N /\ g[n - 1] \in SpanState(N) /\ g[n] = spanned(line, g[n - 1])
      /\ g[0] = [i |-> 1, spans |-> {}]
  <2>1. g \in [0 .. N -> SpanState(N)]
    BY <1>3, Zenon DEF SpanLoop
  <2>2. \A n \in 1 .. N : n - 1 \in 0 .. N
    BY <1>1
  <2>3. (\A n \in 1 .. N : g[n] = spanned(line, g[n - 1])) /\ g[0] = [i |-> 1, spans |-> {}]
    BY <1>3, Zenon DEF SpanLoop
  <2> QED  BY <2>1, <2>2, <2>3
<1>8. /\ \A n \in 1 .. gap : n - 1 \in 0 .. gap /\ h[n - 1] \in SpanState(gap) /\ h[n] = spanned(f, h[n - 1])
      /\ h[0] = [i |-> 1, spans |-> {}] /\ h[gap] \in SpanState(gap) /\ _spans(f) = h[gap].spans
  <2>1. h \in [0 .. gap -> SpanState(gap)]
    BY <1>4, Zenon DEF SpanLoop
  <2>2. \A n \in 1 .. gap : n - 1 \in 0 .. gap
    BY <1>1
  <2>3. (\A n \in 1 .. gap : h[n] = spanned(f, h[n - 1])) /\ h[0] = [i |-> 1, spans |-> {}]
    BY <1>4, Zenon DEF SpanLoop
  <2>4. _spans(f) = h[gap].spans
    BY <1>4, Zenon DEF SpanLoop
  <2> QED  BY <1>1, <2>1, <2>2, <2>3, <2>4
<1> DEFINE Fine(n) == h[n].spans \subseteq g[n].spans /\ (h[n].i > gap \/ h[n].i = g[n].i)
<1>9. ASSUME NEW n \in 1 .. gap, Fine(n - 1) PROVE Fine(n)
  <2> DEFINE a == g[n - 1]
             b == g[n]
             c == h[n - 1]
             d == h[n]
  <2>1. n \in 1 .. N
    BY <1>1
  <2>2. /\ a \in SpanState(N) /\ b = spanned(line, a) /\ c \in SpanState(gap) /\ d = spanned(f, c)
        /\ b.spans \subseteq _spans(line)
        /\ c.spans \subseteq a.spans /\ (c.i > gap \/ c.i = a.i)
    BY <1>5, <1>7, <1>8, <1>9, <2>1
  <2> HIDE DEF a, b, c, d, N
  <2>3. a.i \in 1 .. N + 1 /\ c.i \in 1 .. gap + 1
    BY <2>2 DEF SpanState
  <2>4. a.spans \subseteq b.spans
    BY <1>1, <2>2, SpannedIs DEF N
  <2>5. CASE c.i > gap
    <3>1. d = c
      BY <1>1, <1>2, <2>2, <2>5, SpannedIs
    <3> QED  BY <2>2, <2>4, <2>5, <3>1 DEF b, d
  <2>6. CASE ~(c.i > gap)
    <3> DEFINE i == c.i
               m == _name_at(line, i)
    <3>1. i = a.i /\ i \in 1 .. gap /\ i \in 1 .. N /\ i <= N
      BY <1>1, <2>2, <2>3, <2>6
    <3> HIDE DEF i
    <3>2. m \in 0 .. (N - i) + 1
      BY <3>1, NameAtIs DEF N
    <3>3. m > 0 => b.i = i + m /\ b.spans = a.spans \cup {<<i, i + m>>}
      BY <1>1, <2>2, <3>1, SpannedIs DEF N
    <3>4. m = 0 => b.i = i + 1 /\ b.spans = a.spans
      BY <1>1, <2>2, <3>1, SpannedIs DEF N
    <3>5. m > 0 => i + m <= gap + 1
      <4> SUFFICES ASSUME m > 0 PROVE i + m <= gap + 1
        OBVIOUS
      <4> DEFINE s == <<i, i + m>>
      <4>1. s \in _spans(line) /\ s[1] = i /\ s[2] = i + m
        BY <2>2, <3>3
      <4> HIDE DEF s
      <4>2. s[1] <= gap
        BY <1>1, <3>1, <4>1
      <4>3. s[2] <= gap + 1
        BY <4>1, <4>2
      <4> QED  BY <4>1, <4>3
    <3> HIDE DEF m
    <3>6. i + m <= gap + 1
      BY <1>1, <3>1, <3>2, <3>5
    <3>7. _name_at(f, i) = m
      BY <3>1, <3>6, NameInFront DEF f, m
    <3>8. c.i = i /\ i <= gap
      BY <1>1, <3>1 DEF i
    <3>9. m > 0 => d.i = i + m /\ d.spans = c.spans \cup {<<i, i + m>>}
      BY <1>1, <1>2, <2>2, <3>7, <3>8, SpannedIs
    <3>10. m = 0 => d.i = i + 1 /\ d.spans = c.spans
      BY <1>1, <1>2, <2>2, <3>7, <3>8, SpannedIs
    <3>11. m > 0 \/ m = 0
      BY <3>1, <3>2, <1>1
    <3>12. d.spans \subseteq b.spans /\ d.i = b.i
      BY <2>2, <3>3, <3>4, <3>9, <3>10, <3>11
    <3> QED  BY <3>12 DEF b, d
  <2> QED  BY <2>5, <2>6
<1>10. \A n \in 0 .. gap : Fine(n)
  <2> DEFINE T == {n \in 0 .. gap : Fine(n)}
  <2>1. 0 \in T
    <3>1. Fine(0)
      BY <1>7, <1>8
    <3> HIDE DEF Fine
    <3> QED  BY <1>1, <3>1
  <2> HIDE DEF Fine
  <2>2. \A n \in 1 .. gap : n - 1 \in T => n \in T
    BY <1>1, <1>9
  <2>3. T \in SUBSET (0 .. gap)
    OBVIOUS
  <2> HIDE DEF T
  <2>4. \A n \in 0 .. gap : n \in T
    BY <1>1, <2>1, <2>2, <2>3, RoundsKeep
  <2> QED  BY <2>4 DEF T
<1>11. h[gap].spans \subseteq g[gap].spans
  <2>1. Fine(gap)
    <3> HIDE DEF Fine
    <3> QED  BY <1>1, <1>10
  <2> QED  BY <2>1
<1>12. g[gap].spans \subseteq _spans(line)
  <2>1. gap \in 0 .. N
    BY <1>1
  <2> QED  BY <1>5, <2>1
<1>13. h[gap].spans \subseteq (1 .. gap) \X (1 .. gap + 1)
  BY <1>8 DEF SpanState
<1>14. _spans(f) \subseteq _spans(line) /\ _spans(f) \subseteq (1 .. gap) \X (1 .. gap + 1)
  BY <1>8, <1>11, <1>12, <1>13
<1> QED  BY <1>14 DEF f

\* A name that calls her in front of a break calls her in the line.
LEMMA CalledInFront ==
  ASSUME NEW line \in WordedLines, NEW gap \in 1 .. Len(line.words), gap \in line.breaks,
         NEW start \in 1 .. gap, NEW end \in 1 .. gap + 1,
         _vocative(frontOf(line, gap), start, end)
  PROVE  _vocative(line, start, end)
<1> DEFINE f == frontOf(line, gap)
           N == Len(line.words)
<1>1. N \in Nat /\ gap \in 1 .. N /\ gap \in Nat /\ start \in Nat /\ end \in Nat
  <2>1. line.words \in Seq(Vocabulary)
    BY DEF WordedLines
  <2>2. N \in Nat
    BY <2>1
  <2> HIDE DEF N
  <2> QED  BY <2>2 DEF N
<1>2. /\ Len(f.words) = gap /\ f.breaks = line.breaks
      /\ \A k \in 1 .. gap : f.words[k] = line.words[k]
  BY FrontLineIs
<1>3. _vocative(f, start, end)
  OBVIOUS
<1> HIDE DEF f
<1>4. \A k : breakAt(f, k) => breakAt(line, k)
  BY <1>2 DEF breakAt
<1>5. CASE breakAt(f, start - 1) /\ breakAt(f, end - 1)
  BY <1>4, <1>5 DEF _vocative
<1>6. CASE /\ start - 1 <= 2
           /\ \A k \in 1 .. start - 1 : f.words[k] \in Particles
           /\ \/ breakAt(f, end - 1) \/ end > Len(f.words)
              \/ f.words[end] \notin Followers
  <2>1. \A k \in 1 .. start - 1 : line.words[k] \in Particles
    <3>1. \A k \in 1 .. start - 1 : k \in 1 .. gap
      BY <1>1
    <3> QED  BY <1>2, <1>6, <3>1
  <2>2. CASE breakAt(f, end - 1)
    BY <1>4, <1>6, <2>1, <2>2 DEF _vocative
  <2>3. CASE end > gap
    <3>1. end - 1 = gap
      BY <1>1, <2>3
    <3>2. breakAt(line, end - 1)
      BY <3>1 DEF breakAt
    <3> QED  BY <1>6, <2>1, <3>2 DEF _vocative
  <2>4. CASE end <= gap /\ f.words[end] \notin Followers
    <3>1. end \in 1 .. gap
      BY <1>1, <2>4
    <3>2. line.words[end] \notin Followers
      BY <1>2, <2>4, <3>1
    <3> QED  BY <1>6, <2>1, <3>2 DEF _vocative
  <2>5. end > gap \/ end <= gap
    BY <1>1
  <2> QED  BY <1>2, <1>6, <2>2, <2>3, <2>4, <2>5
<1> QED  BY <1>3, <1>5, <1>6 DEF _vocative

calls(line) == \E s \in _spans(line) : _vocative(line, s[1], s[2])

LEMMA HearIs ==
  ASSUME NEW line
  PROVE  hear(line) \in {"CALLED", "STOPPED"} <=> calls(line)
<1> DEFINE stops == _rest(line) \in StopLines
           none == _spans(line) = {}
<1>1. hear(line) = CASE calls(line) /\ stops -> "STOPPED"
                     [] calls(line) /\ ~stops -> "CALLED"
                     [] ~calls(line) /\ none /\ stops -> "STOP"
                     [] OTHER -> "ASIDE"
  BY Zenon DEF hear, calls
<1> HIDE DEF stops, none
<1>2. CASE calls(line)
  BY <1>1, <1>2
<1>3. CASE ~calls(line)
  <2>1. hear(line) = "STOP" \/ hear(line) = "ASIDE"
    BY <1>1, <1>3
  <2> QED  BY <1>3, <2>1
<1> QED  BY <1>2, <1>3

LEMMA CalledStays ==
  ASSUME NEW line \in WordedLines, NEW gap \in line.breaks \cap (1 .. Len(line.words)),
         \A s \in _spans(line) : s[1] <= gap => s[2] <= gap + 1,
         hear(frontOf(line, gap)) \in {"CALLED", "STOPPED"}
  PROVE  hear(line) \in {"CALLED", "STOPPED"}
<1> DEFINE f == frontOf(line, gap)
<1>1. PICK s \in _spans(f) : _vocative(f, s[1], s[2])
  BY HearIs DEF calls
<1>2. s \in _spans(line) /\ s \in (1 .. gap) \X (1 .. gap + 1)
  BY SpansInFront
<1>3. s[1] \in 1 .. gap /\ s[2] \in 1 .. gap + 1
  BY <1>2
<1>4. _vocative(line, s[1], s[2])
  BY <1>1, <1>3, CalledInFront
<1>5. calls(line)
  BY <1>2, <1>4 DEF calls
<1> QED  BY <1>5, HearIs

-----------------------------------------------------------------------------
\* A phrase stands at word i of what is said.
LEMMA PhraseAtIs ==
  ASSUME NEW w \in Seq(Vocabulary), NEW N \in Nat, N = Len(w), NEW i \in 1 .. N
  PROVE  /\ _phrase_at(w, i) \in 0 .. (N - i) + 1
         /\ _phrase_at(w, i) > 0 => SubSeq(w, i, i + _phrase_at(w, i) - 1) \in Phrases
         /\ \A p \in Phrases : i + Len(p) - 1 <= N /\ SubSeq(w, i, i + Len(p) - 1) = p
                                 => Len(p) <= _phrase_at(w, i)
<1> DEFINE here == {q \in Phrases : i + Len(q) - 1 <= N /\ SubSeq(w, i, i + Len(q) - 1) = q}
           lengths == {0} \cup {Len(p) : p \in here}
           top == (N - i) + 1
           n == Max(lengths)
<1>1. _phrase_at(w, i) = n
  BY Zenon DEF _phrase_at
<1>2. \A p \in here : Len(p) \in 0 .. top
  <2> TAKE p \in here
  <2>1. Len(p) \in Nat
    <3>1. p \in Seq(Vocabulary)
      BY WordingAssumption
    <3> QED  BY <3>1
  <2>2. i + Len(p) - 1 <= N
    OBVIOUS
  <2> DEFINE k == Len(p)
  <2> HIDE DEF k
  <2>3. k \in 0 .. (N - i) + 1
    BY <2>1, <2>2 DEF k
  <2> QED  BY <2>3 DEF k
<1>3. \A p \in here : p \in Phrases /\ SubSeq(w, i, i + Len(p) - 1) = p
  OBVIOUS
<1>4. top \in Nat
  OBVIOUS
<1>5. \A p \in Phrases : i + Len(p) - 1 <= N /\ SubSeq(w, i, i + Len(p) - 1) = p => p \in here
  OBVIOUS
<1> HIDE DEF here, top
<1>6. lengths \in SUBSET (0 .. top) /\ lengths # {}
  BY <1>2, <1>4
<1>7. n \in lengths /\ \A k \in lengths : k <= n
  <2> HIDE DEF lengths
  <2> QED  BY <1>4, <1>6, MostIs
<1>8. n = 0 \/ \E p \in here : Len(p) = n
  <2>1. n \in {0} \cup {Len(p) : p \in here}
    BY <1>7
  <2> HIDE DEF n
  <2> QED  BY <2>1
<1>9. \A p \in here : Len(p) <= n
  <2>1. \A p \in here : Len(p) \in lengths
    OBVIOUS
  <2> HIDE DEF lengths, n
  <2> QED  BY <1>7, <2>1
<1> HIDE DEF lengths
<1>10. n \in 0 .. top
  BY <1>6, <1>7
<1> HIDE DEF n
<1>11. n > 0 => SubSeq(w, i, i + n - 1) \in Phrases
  <2> SUFFICES ASSUME n > 0 PROVE SubSeq(w, i, i + n - 1) \in Phrases
    OBVIOUS
  <2>1. PICK p \in here : Len(p) = n
    BY <1>8
  <2>2. SubSeq(w, i, i + n - 1) = p /\ p \in Phrases
    BY <1>3, <2>1
  <2> QED  BY <2>2
<1> QED  BY <1>1, <1>5, <1>9, <1>10, <1>11 DEF top

\* The states of the loop of _parse.
ParseState(N) == [at: 1 .. N + 1, kept: Seq(Vocabulary), acknowledged: BOOLEAN]

LEMMA ParsedIs ==
  ASSUME NEW w \in Seq(Vocabulary), NEW N \in Nat, N = Len(w), NEW s \in ParseState(N)
  PROVE  /\ parsed(w, s) \in ParseState(N)
         /\ s.at > N => parsed(w, s) = s
         /\ s.at <= N /\ _phrase_at(w, s.at) > 0 =>
              /\ parsed(w, s).at = s.at + _phrase_at(w, s.at)
              /\ parsed(w, s).kept = s.kept /\ parsed(w, s).acknowledged = TRUE
         /\ s.at <= N /\ _phrase_at(w, s.at) = 0 =>
              /\ parsed(w, s).at = s.at + 1 /\ parsed(w, s).acknowledged = s.acknowledged
              /\ parsed(w, s).kept = IF w[s.at] \in Strays THEN s.kept ELSE Append(s.kept, w[s.at])
<1> DEFINE n == _phrase_at(w, s.at)
           r == parsed(w, s)
           i == s.at
           kept0 == s.kept
           ack0 == s.acknowledged
<1>1. /\ i \in 1 .. N + 1 /\ kept0 \in Seq(Vocabulary) /\ ack0 \in BOOLEAN
      /\ s = [at |-> i, kept |-> kept0, acknowledged |-> ack0]
  BY DEF ParseState
<1>2. r = IF i > N THEN s
          ELSE IF n > 0 THEN [s EXCEPT !.at = @ + n, !.acknowledged = TRUE]
          ELSE IF w[i] \in Strays THEN [s EXCEPT !.at = @ + 1]
          ELSE [s EXCEPT !.at = @ + 1, !.kept = Append(@, w[i])]
  BY Zenon DEF parsed
<1>3. i <= N => n \in 0 .. (N - i) + 1
  <2> SUFFICES ASSUME i <= N PROVE n \in 0 .. (N - i) + 1
    OBVIOUS
  <2>1. i \in 1 .. N
    BY <1>1
  <2> HIDE DEF i
  <2> QED  BY <2>1, PhraseAtIs DEF i
<1>4. i <= N => w[i] \in Vocabulary
  BY <1>1
<1> HIDE DEF n, r, i, kept0, ack0
<1>5. CASE i > N
  <2>1. r = s /\ ~(i <= N)
    BY <1>1, <1>2, <1>5
  <2> QED  BY <1>5, <2>1 DEF r, i
<1>6. CASE i <= N /\ n > 0
  <2>1. i + n \in 1 .. N + 1 /\ ~(i > N) /\ n # 0
    BY <1>1, <1>3, <1>6
  <2>2. r = [s EXCEPT !.at = i + n, !.acknowledged = TRUE]
    BY <1>2, <1>6, <2>1 DEF i
  <2>3. r = [at |-> i + n, kept |-> kept0, acknowledged |-> TRUE]
    BY <1>1, <2>2
  <2>4. r \in ParseState(N)
    BY <1>1, <2>1, <2>3 DEF ParseState
  <2>5. r.at = i + n /\ r.kept = kept0 /\ r.acknowledged = TRUE
    BY <2>3
  <2> QED  BY <1>6, <2>1, <2>4, <2>5 DEF r, i, n, kept0
<1>7. CASE i <= N /\ n = 0
  <2> DEFINE k == IF w[i] \in Strays THEN kept0 ELSE Append(kept0, w[i])
  <2>1. i + 1 \in 1 .. N + 1 /\ ~(i > N) /\ ~(n > 0)
    BY <1>1, <1>7
  <2>2. r = IF w[i] \in Strays THEN [s EXCEPT !.at = i + 1]
            ELSE [s EXCEPT !.at = i + 1, !.kept = Append(kept0, w[i])]
    BY <1>2, <1>7, <2>1 DEF i, kept0
  <2>3. r = [at |-> i + 1, kept |-> k, acknowledged |-> ack0]
    <3>1. CASE w[i] \in Strays
      BY <1>1, <2>2, <3>1
    <3>2. CASE w[i] \notin Strays
      <4> DEFINE more == Append(kept0, w[i])
      <4>1. r = [s EXCEPT !.at = i + 1, !.kept = more]
        BY <2>2, <3>2
      <4> HIDE DEF more
      <4>2. r = [at |-> i + 1, kept |-> more, acknowledged |-> ack0]
        BY <1>1, <4>1
      <4> QED  BY <3>2, <4>2 DEF more
    <3> QED  BY <3>1, <3>2
  <2>4. k \in Seq(Vocabulary)
    BY <1>1, <1>4, <1>7
  <2> HIDE DEF k
  <2>5. r \in ParseState(N)
    BY <1>1, <2>1, <2>3, <2>4 DEF ParseState
  <2>6. r.at = i + 1 /\ r.kept = k /\ r.acknowledged = ack0
    BY <2>3
  <2> QED  BY <1>7, <2>1, <2>5, <2>6 DEF r, i, n, kept0, ack0, k
<1>8. i > N \/ (i <= N /\ n > 0) \/ (i <= N /\ n = 0)
  BY <1>1, <1>3
<1> QED  BY <1>5, <1>6, <1>7, <1>8

ParseLoop(w, N, g) ==
  /\ g[0] = [at |-> 1, kept |-> <<>>, acknowledged |-> FALSE]
  /\ \A n \in 0 .. N : g[n] \in ParseState(N)
  /\ \A n \in 1 .. N : g[n] = parsed(w, g[n - 1])
  /\ _parse(w) = g[N]

LEMMA ParseIs ==
  ASSUME NEW w \in Seq(Vocabulary), NEW N \in Nat, N = Len(w)
  PROVE  \E g : ParseLoop(w, N, g)
<1> DEFINE S == ParseState(N)
           first == [at |-> 1, kept |-> <<>>, acknowledged |-> FALSE]
           f == [p \in (1 .. N) \X S |-> parsed(w, p[2])]
           on(d) == [n \in 0 .. N |-> IF n = 0 THEN first ELSE parsed(w, d[n - 1])]
<1>1. first \in S
  BY DEF ParseState
<1>2. f \in [(1 .. N) \X S -> S]
  BY ParsedIs
<1> HIDE DEF S, first
<1>3. PICK g : Loops(g, N, S, first, f)
  <2> HIDE DEF f
  <2> QED  BY <1>1, <1>2, LoopIs
<1>4. g = on(g)
  <2>1. g \in [0 .. N -> S]
    BY <1>3, Zenon DEF Loops
  <2>2. \A n \in 1 .. N : n - 1 \in 0 .. N /\ <<n, g[n - 1]>> \in (1 .. N) \X S
    BY <2>1
  <2>3. \A n \in 1 .. N : f[<<n, g[n - 1]>>] = parsed(w, g[n - 1])
    BY <2>2
  <2> HIDE DEF f
  <2>4. \A n \in 0 .. N : (IF n = 0 THEN first ELSE f[<<n, g[n - 1]>>])
                          = (IF n = 0 THEN first ELSE parsed(w, g[n - 1]))
    BY <2>3
  <2> QED  BY <1>3, <2>4 DEF Loops
<1> DEFINE loop == CHOOSE d : d = on(d)
<1>5. loop = on(loop)
  <2> HIDE DEF on
  <2> QED  BY <1>4
<1>6. _parse(w) = loop[N]
  BY DEF _parse, first
<1> HIDE DEF loop
<1>7. loop[0] = first /\ \A n \in 1 .. N : loop[n] = parsed(w, loop[n - 1])
  <2>1. 0 \in 0 .. N /\ \A n \in 1 .. N : n \in 0 .. N /\ n # 0
    OBVIOUS
  <2>2. \A n \in 0 .. N : loop[n] = IF n = 0 THEN first ELSE parsed(w, loop[n - 1])
    BY <1>5, Zenon
  <2> QED  BY <2>1, <2>2
<1>8. \A n \in 0 .. N : loop[n] \in S
  <2> DEFINE T == {n \in 0 .. N : loop[n] \in S}
  <2>1. 0 \in T
    BY <1>1, <1>7
  <2>2. ASSUME NEW n \in 1 .. N, n - 1 \in T PROVE n \in T
    <3>1. parsed(w, loop[n - 1]) \in S
      BY <2>2, ParsedIs DEF S
    <3> QED  BY <1>7, <3>1
  <2>3. T \in SUBSET (0 .. N)
    OBVIOUS
  <2> HIDE DEF T
  <2>4. \A n \in 0 .. N : n \in T
    BY <2>1, <2>2, <2>3, RoundsKeep
  <2> QED  BY <2>4 DEF T
<1>9. ParseLoop(w, N, loop)
  BY <1>6, <1>7, <1>8 DEF ParseLoop, S, first
<1> QED  BY <1>9

-----------------------------------------------------------------------------
\* The words behind the a-th, up to the b-th.
stretch(w, a, b) == SubSeq(w, a + 1, b)

LEMMA MadeOn ==
  ASSUME NEW w, NEW parts, NEW m \in Nat, NEW b \in Nat, m < b,
         madeOf(w, m, parts), stretch(w, m, b) \in parts
  PROVE  madeOf(w, b, parts)
<1>1. PICK S \in SUBSET (0 .. m) :
        /\ {0, m} \subseteq S
        /\ \A a \in S : a < m => \E c \in S : a < c /\ stretch(w, a, c) \in parts
  BY Zenon DEF madeOf, stretch
<1> DEFINE T == S \cup {b}
<1>2. T \in SUBSET (0 .. b) /\ {0, b} \subseteq T
  BY <1>1
<1>3. ASSUME NEW a \in T, a < b PROVE \E c \in T : a < c /\ stretch(w, a, c) \in parts
  <2>1. a \in S /\ a \in Nat /\ a <= m
    BY <1>1, <1>3
  <2>2. CASE a < m
    BY <1>1, <2>1, <2>2
  <2>3. CASE a = m
    BY <2>3
  <2> QED  BY <2>1, <2>2, <2>3
<1> HIDE DEF T
<1> QED  BY <1>2, <1>3, Zenon DEF madeOf, stretch

LEMMA MadeOfNone ==
  ASSUME NEW w, NEW parts
  PROVE  madeOf(w, 0, parts)
<1>1. {0} \in SUBSET (0 .. 0) /\ {0, 0} \subseteq {0} /\ \A a \in {0} : ~(a < 0)
  OBVIOUS
<1> QED  BY <1>1 DEF madeOf

\* Each round of the loop leaves a word behind.
LEMMA RoundsGoOn ==
  ASSUME NEW w \in Seq(Vocabulary), NEW N \in Nat, N = Len(w), NEW g, ParseLoop(w, N, g)
  PROVE  \A n \in 0 .. N : g[n].at > n
<1> DEFINE T == {n \in 0 .. N : g[n].at > n}
<1>1. 0 \in T
  BY DEF ParseLoop
<1>2. ASSUME NEW n \in 1 .. N, n - 1 \in T PROVE n \in T
  <2> DEFINE a == g[n - 1]
             b == g[n]
  <2>1. a \in ParseState(N) /\ b = parsed(w, a) /\ b \in ParseState(N) /\ a.at > n - 1
    BY <1>2 DEF ParseLoop
  <2> HIDE DEF a, b
  <2> DEFINE i == a.at
             m == _phrase_at(w, i)
  <2>2. i \in 1 .. N + 1
    BY <2>1 DEF ParseState
  <2> HIDE DEF i
  <2>3. CASE i > N
    <3>1. b = a
      BY <2>1, <2>3, ParsedIs DEF i
    <3>2. b.at > n /\ n \in 0 .. N
      BY <2>2, <2>3, <3>1 DEF i
    <3> QED  BY <3>2 DEF b
  <2>4. CASE i <= N
    <3>1. m \in 0 .. (N - i) + 1
      BY <2>2, <2>4, PhraseAtIs
    <3>2. m > 0 => b.at = i + m
      BY <2>1, <2>4, ParsedIs DEF i
    <3>3. m = 0 => b.at = i + 1
      BY <2>1, <2>4, ParsedIs DEF i
    <3> HIDE DEF m
    <3>4. b.at > n
      BY <2>1, <2>2, <2>4, <3>1, <3>2, <3>3 DEF i
    <3> QED  BY <3>4 DEF b
  <2> QED  BY <2>2, <2>3, <2>4
<1>3. T \in SUBSET (0 .. N)
  OBVIOUS
<1> HIDE DEF T
<1>4. \A n \in 0 .. N : n \in T
  BY <1>1, <1>2, <1>3, RoundsKeep
<1> QED  BY <1>4 DEF T

\* What says nothing is made of acknowledgements and fillers.
fillers == {<<x>> : x \in Strays}
phrased(w) == \E a, b \in 1 .. Len(w) : SubSeq(w, a, b) \in Phrases

LEMMA NothingIsFilled ==
  ASSUME NEW w \in Seq(Vocabulary), acknowledges(w)
  PROVE  madeOf(w, Len(w), Phrases \cup fillers) /\ phrased(w)
<1> DEFINE N == Len(w)
           F == Phrases \cup fillers
<1>1. N \in Nat
  OBVIOUS
<1>2. \A i \in 1 .. N : stretch(w, i - 1, i) = <<w[i]>>
  <2> TAKE i \in 1 .. N
  <2>1. (i - 1) + 1 = i
    BY <1>1
  <2>2. SubSeq(w, i, i) = <<w[i]>>
    <3>1. SubSeq(w, i, i) = [j \in 1 .. 1 |-> w[i]]
      <4>1. i \in Int /\ (i - i) + 1 = 1 /\ \A j \in 1 .. 1 : (i + j) - 1 = i
        BY <1>1
      <4> QED  BY <4>1
    <3> QED  BY <3>1
  <2> QED  BY <2>1, <2>2 DEF stretch
<1>3. \A i \in 1 .. N, m \in Nat : stretch(w, i - 1, (i + m) - 1) = SubSeq(w, i, i + m - 1)
  BY DEF stretch
<1>4. \A a, b \in 1 .. N : SubSeq(w, a, b) \in Phrases => phrased(w)
  BY DEF phrased
<1>5. PICK g : ParseLoop(w, N, g)
  BY <1>1, ParseIs
<1>6. \A n \in 0 .. N : g[n].at > n
  <2> HIDE DEF N
  <2> QED  BY <1>1, <1>5, RoundsGoOn DEF N
<1> HIDE DEF N
<1> DEFINE Fine(n) == g[n].kept = <<>> => /\ madeOf(w, g[n].at - 1, F)
                                          /\ g[n].acknowledged => phrased(w)
<1>7. ASSUME NEW n \in 1 .. N, Fine(n - 1) PROVE Fine(n)
  <2> DEFINE a == g[n - 1]
             b == g[n]
  <2>1. /\ a \in ParseState(N) /\ b = parsed(w, a)
        /\ a.kept = <<>> => madeOf(w, a.at - 1, F) /\ (a.acknowledged => phrased(w))
    BY <1>1, <1>5, <1>7 DEF ParseLoop
  <2> HIDE DEF a, b, F
  <2> SUFFICES ASSUME b.kept = <<>> PROVE madeOf(w, b.at - 1, F) /\ (b.acknowledged => phrased(w))
    BY DEF b
  <2> DEFINE i == a.at
             m == _phrase_at(w, i)
  <2>2. i \in 1 .. N + 1 /\ a.kept \in Seq(Vocabulary)
    BY <2>1 DEF ParseState
  <2> HIDE DEF i
  <2>3. CASE i > N
    <3>1. b = a
      BY <1>1, <2>1, <2>3, ParsedIs DEF i, N
    <3> QED  BY <2>1, <3>1
  <2>4. CASE i <= N
    <3>1. i \in 1 .. N
      BY <1>1, <2>2, <2>4
    <3>2. m \in 0 .. (N - i) + 1 /\ (m > 0 => SubSeq(w, i, i + m - 1) \in Phrases)
      BY <1>1, <3>1, PhraseAtIs DEF N
    <3>3. m > 0 => b.at = i + m /\ b.kept = a.kept
      BY <1>1, <2>1, <2>4, ParsedIs DEF i, N
    <3>4. m = 0 => /\ b.at = i + 1 /\ b.acknowledged = a.acknowledged
                   /\ b.kept = IF w[i] \in Strays THEN a.kept ELSE Append(a.kept, w[i])
      BY <1>1, <2>1, <2>4, ParsedIs DEF i, N
    <3> HIDE DEF m
    <3>5. CASE m > 0
      <4> DEFINE e == i - 1
                 c == (i + m) - 1
      <4>1. e \in Nat /\ c \in Nat /\ e < c /\ c \in 1 .. N /\ m \in Nat
        BY <1>1, <3>1, <3>2, <3>5
      <4>2. stretch(w, e, c) \in F
        BY <1>3, <3>1, <3>2, <3>5, <4>1 DEF F
      <4>3. madeOf(w, e, F) /\ b.at - 1 = c
        BY <2>1, <3>3, <3>5 DEF i
      <4>4. phrased(w)
        <5>1. SubSeq(w, i, c) \in Phrases
          <6>1. c = i + m - 1
            BY <3>1, <4>1
          <6> HIDE DEF c
          <6> QED  BY <3>2, <3>5, <6>1
        <5> HIDE DEF c
        <5> QED  BY <1>4, <3>1, <4>1, <5>1
      <4> HIDE DEF e, c
      <4>5. madeOf(w, c, F)
        BY <4>1, <4>2, <4>3, MadeOn
      <4> QED  BY <4>3, <4>4, <4>5
    <3>6. CASE m = 0
      <4>1. a.kept = <<>> /\ w[i] \in Strays
        <5>1. CASE w[i] \in Strays
          BY <3>4, <3>6, <5>1
        <5>2. CASE w[i] \notin Strays
          <6>1. Append(a.kept, w[i]) = <<>>
            BY <3>4, <3>6, <5>2
          <6>2. w[i] \in Vocabulary
            BY <3>1 DEF N
          <6>3. Append(a.kept, w[i]) # <<>>
            BY <2>2, <6>2
          <6> QED  BY <6>1, <6>3
        <5> QED  BY <5>1, <5>2
      <4> DEFINE e == i - 1
      <4>2. e \in Nat /\ i \in Nat /\ e < i
        BY <3>1
      <4>3. stretch(w, e, i) \in F
        BY <1>2, <3>1, <4>1 DEF F, fillers
      <4>4. madeOf(w, e, F) /\ b.at - 1 = i
        BY <2>1, <2>2, <3>4, <3>6, <4>1 DEF i
      <4> HIDE DEF e
      <4>5. madeOf(w, i, F)
        BY <4>2, <4>3, <4>4, MadeOn
      <4> QED  BY <2>1, <3>4, <3>6, <4>1, <4>4, <4>5
    <3> QED  BY <3>2, <3>5, <3>6
  <2> QED  BY <1>1, <2>2, <2>3, <2>4
<1>8. \A n \in 0 .. N : Fine(n)
  <2> DEFINE T == {n \in 0 .. N : Fine(n)}
  <2>1. 0 \in T
    <3>1. Fine(0)
      <4>1. g[0].at = 1 /\ ~g[0].acknowledged
        BY <1>5 DEF ParseLoop
      <4>2. madeOf(w, 0, F)
        BY MadeOfNone
      <4> HIDE DEF F
      <4>3. g[0].at - 1 = 0
        BY <4>1
      <4> QED  BY <4>1, <4>2, <4>3
    <3> HIDE DEF Fine
    <3> QED  BY <1>1, <3>1
  <2> HIDE DEF Fine
  <2>2. \A n \in 1 .. N : n - 1 \in T => n \in T
    BY <1>1, <1>7
  <2>3. T \in SUBSET (0 .. N)
    OBVIOUS
  <2> HIDE DEF T
  <2>4. \A n \in 0 .. N : n \in T
    BY <1>1, <2>1, <2>2, <2>3, RoundsKeep
  <2> QED  BY <2>4 DEF T
<1>9. g[N].acknowledged /\ g[N].kept = <<>>
  BY <1>5, Zenon DEF acknowledges, ParseLoop
<1>10. g[N].at - 1 = N
  <2>1. g[N] \in ParseState(N) /\ g[N].at > N
    BY <1>1, <1>5, <1>6 DEF ParseLoop
  <2>2. g[N].at \in 1 .. N + 1
    BY <2>1 DEF ParseState
  <2> QED  BY <1>1, <2>1, <2>2
<1>11. madeOf(w, g[N].at - 1, F) /\ phrased(w)
  <2>1. Fine(N)
    <3> HIDE DEF Fine
    <3> QED  BY <1>1, <1>8
  <2> QED  BY <1>9, <2>1
<1> QED  BY <1>10, <1>11 DEF N

\* What stands behind a word up to another, and behind one between them.
LEMMA StretchIs ==
  ASSUME NEW w \in Seq(Vocabulary), NEW b \in 0 .. Len(w), NEW a \in 0 .. b
  PROVE  /\ stretch(w, a, b) \in Seq(Vocabulary)
         /\ Len(stretch(w, a, b)) = b - a
         /\ stretch(w, a, b) = [j \in 1 .. b - a |-> w[a + j]]
<1>1. Len(w) \in Nat /\ a \in Nat /\ b \in Nat /\ a <= b /\ b <= Len(w)
  OBVIOUS
<1> DEFINE m == a + 1
           k == b - a
<1>2. m \in Nat /\ k \in Nat /\ (b - m) + 1 = k
  BY <1>1
<1>3. \A j \in 1 .. k : (m + j) - 1 = a + j /\ a + j \in 1 .. Len(w)
  BY <1>1
<1>4. SubSeq(w, m, b) = [j \in 1 .. (b - m) + 1 |-> w[(m + j) - 1]]
  <2>1. m \in Int /\ b \in Int
    BY <1>1
  <2> HIDE DEF m
  <2> QED  BY <2>1
<1>5. SubSeq(w, m, b) = [j \in 1 .. k |-> w[a + j]]
  <2> HIDE DEF m, k
  <2> QED  BY <1>2, <1>3, <1>4
<1>6. \A j \in 1 .. k : w[a + j] \in Vocabulary
  BY <1>3
<1> HIDE DEF k
<1>7. [j \in 1 .. k |-> w[a + j]] \in Seq(Vocabulary) /\ Len([j \in 1 .. k |-> w[a + j]]) = k
  BY <1>2, <1>6
<1> QED  BY <1>5, <1>7 DEF stretch, k

LEMMA StretchOf ==
  ASSUME NEW w \in Seq(Vocabulary), NEW c \in 0 .. Len(w), NEW b \in 0 .. c, NEW a \in 0 .. b
  PROVE  /\ SubSeq(stretch(w, a, c), 1, b - a) = stretch(w, a, b)
         /\ SubSeq(stretch(w, a, c), (b - a) + 1, c - a) = stretch(w, b, c)
<1>1. Len(w) \in Nat /\ a \in Nat /\ b \in Nat /\ c \in Nat /\ a <= b /\ b <= c /\ c <= Len(w)
  OBVIOUS
<1> DEFINE p == stretch(w, a, c)
           k == b - a
           n == c - a
           h == c - b
<1>2. /\ p \in Seq(Vocabulary) /\ Len(p) = n /\ p = [j \in 1 .. n |-> w[a + j]]
      /\ stretch(w, a, b) = [j \in 1 .. k |-> w[a + j]]
      /\ stretch(w, b, c) = [j \in 1 .. h |-> w[b + j]]
  <2>1. a \in 0 .. c /\ b \in 0 .. c /\ b \in 0 .. Len(w)
    BY <1>1
  <2>2. p \in Seq(Vocabulary) /\ Len(p) = n /\ p = [j \in 1 .. n |-> w[a + j]]
    BY <2>1, StretchIs
  <2>3. stretch(w, a, b) = [j \in 1 .. k |-> w[a + j]]
    BY <2>1, StretchIs
  <2>4. stretch(w, b, c) = [j \in 1 .. h |-> w[b + j]]
    BY <2>1, StretchIs
  <2> QED  BY <2>2, <2>3, <2>4
<1>3. /\ k \in 0 .. n /\ n \in Nat /\ h \in Nat /\ k + h = n /\ k \in Nat /\ b = a + k
  BY <1>1
<1> HIDE DEF p, k, n, h
<1>4. SubSeq(p, 1, k) = [j \in 1 .. k |-> w[a + j]]
  <2>1. SubSeq(p, 1, k) = [j \in 1 .. (k - 1) + 1 |-> p[(1 + j) - 1]]
    BY <1>2, <1>3
  <2>2. \A j \in 1 .. k : (1 + j) - 1 = j /\ j \in 1 .. n
    BY <1>3
  <2>3. (k - 1) + 1 = k
    BY <1>3
  <2>4. SubSeq(p, 1, k) = [j \in 1 .. k |-> p[j]]
    BY <2>1, <2>2, <2>3
  <2>5. \A j \in 1 .. k : p[j] = w[a + j]
    BY <1>2, <2>2
  <2> QED  BY <2>4, <2>5
<1>5. SubSeq(p, k + 1, n) = [j \in 1 .. h |-> w[b + j]]
  <2> DEFINE m == k + 1
  <2>1. m \in Nat /\ (n - m) + 1 = h
    BY <1>3
  <2>2. \A j \in 1 .. h : (m + j) - 1 = k + j /\ k + j \in 1 .. n /\ a + (k + j) = b + j
    BY <1>1, <1>3
  <2>3. \A j \in 1 .. h : p[(m + j) - 1] = w[b + j]
    <3> HIDE DEF m
    <3> TAKE j \in 1 .. h
    <3>1. p[k + j] = w[a + (k + j)]
      BY <1>2, <2>2
    <3> QED  BY <2>2, <3>1
  <2> HIDE DEF m
  <2>4. SubSeq(p, m, n) = [j \in 1 .. (n - m) + 1 |-> p[(m + j) - 1]]
    BY <1>2, <1>3, <2>1
  <2>5. SubSeq(p, m, n) = [j \in 1 .. h |-> w[b + j]]
    BY <2>1, <2>3, <2>4
  <2> QED  BY <2>5 DEF m
<1> QED  BY <1>2, <1>4, <1>5 DEF p, k, n, h

\* The cuts of a line made of phrases.
Cuts(w, N, S) ==
  /\ S \in SUBSET (0 .. N) /\ {0, N} \subseteq S
  /\ \A a \in S : a < N => \E b \in S : a < b /\ stretch(w, a, b) \in Phrases

\* The longest phrase that begins at a cut ends at one.
LEMMA CutToCut ==
  ASSUME NEW w \in Seq(Vocabulary), NEW N \in Nat, N = Len(w), Unambiguous,
         NEW S, Cuts(w, N, S), NEW a \in S, NEW i \in 1 .. N, i = a + 1
  PROVE  _phrase_at(w, i) > 0 /\ a + _phrase_at(w, i) \in S
<1> DEFINE m == _phrase_at(w, i)
           d == a + m
           q(b) == stretch(w, a, b)
<1>1. a \in Nat /\ a < N /\ i \in Nat
  BY DEF Cuts
<1>2. PICK b \in S : a < b /\ stretch(w, a, b) \in Phrases
  BY <1>1 DEF Cuts
<1>3. b \in Nat /\ b <= N /\ b \in 0 .. N /\ a \in 0 .. b
  BY <1>1, <1>2 DEF Cuts
<1>4. q(b) \in Seq(Vocabulary) /\ Len(q(b)) = b - a
  BY <1>3, StretchIs
<1>5. /\ m \in 0 .. (N - i) + 1
      /\ m > 0 => SubSeq(w, i, i + m - 1) \in Phrases
      /\ \A p \in Phrases : i + Len(p) - 1 <= N /\ SubSeq(w, i, i + Len(p) - 1) = p => Len(p) <= m
  BY PhraseAtIs
<1> HIDE DEF m
<1>6. b - a <= m
  <2> DEFINE k == Len(q(b))
  <2>1. k = b - a
    BY <1>4
  <2>2. i + k - 1 = b
    <3> HIDE DEF k
    <3> QED  BY <1>1, <1>3, <2>1
  <2>3. SubSeq(w, i, b) = q(b)
    BY DEF stretch
  <2>4. i + Len(q(b)) - 1 <= N /\ SubSeq(w, i, i + Len(q(b)) - 1) = q(b)
    <3>1. i + Len(q(b)) - 1 = b
      BY <2>2
    <3> HIDE DEF q
    <3> QED  BY <1>3, <2>3, <3>1
  <2> HIDE DEF q
  <2> QED  BY <1>2, <1>5, <2>1, <2>4 DEF q
<1>7. d \in 0 .. N /\ b \in 0 .. d /\ m > 0 /\ b <= d
  BY <1>1, <1>2, <1>3, <1>5, <1>6
<1>8. q(d) \in Phrases
  <2>1. d = i + m - 1
    BY <1>1, <1>5
  <2> HIDE DEF d
  <2>2. SubSeq(w, i, d) \in Phrases
    BY <1>5, <1>7, <2>1
  <2> QED  BY <2>2 DEF stretch
<1> HIDE DEF d
<1>9. ASSUME b < d PROVE d \in S
  <2> DEFINE p == stretch(w, a, d)
             r == stretch(w, b, d)
             s == stretch(w, a, b)
             o(c) == stretch(w, b, c)
  <2>1. p \in Phrases /\ s \in Phrases
    BY <1>2, <1>8
  <2>2. Len(p) = d - a /\ Len(s) = b - a /\ r = [j \in 1 .. d - b |-> w[b + j]] /\ Len(r) = d - b
    <3>1. d \in 0 .. Len(w) /\ b \in 0 .. Len(w) /\ a \in 0 .. d
      BY <1>1, <1>3, <1>7
    <3>2. Len(p) = d - a
      BY <3>1, StretchIs
    <3>3. Len(s) = b - a
      BY <1>4
    <3>4. r = [j \in 1 .. d - b |-> w[b + j]] /\ Len(r) = d - b
      BY <1>7, <3>1, StretchIs
    <3> QED  BY <3>2, <3>3, <3>4
  <2>3. SubSeq(p, 1, b - a) = s /\ SubSeq(p, (b - a) + 1, d - a) = r
    BY <1>1, <1>3, <1>7, StretchOf
  <2>4. PICK c \in S : b < c /\ o(c) \in Phrases
    BY <1>3, <1>7, <1>9 DEF Cuts
  <2>5. c \in 0 .. N /\ b \in 0 .. c
    BY <1>3, <2>4 DEF Cuts
  <2>6. Len(o(c)) = c - b /\ o(c) = [j \in 1 .. c - b |-> w[b + j]]
    BY <2>5, StretchIs
  <2> DEFINE t == o(c)
  <2>7. t \in Phrases /\ Len(t) = c - b /\ t = [j \in 1 .. c - b |-> w[b + j]]
    BY <2>4, <2>6
  <2> HIDE DEF t, o, p, r, s
  <2>8. t[1] = r[1]
    <3>1. 1 \in 1 .. c - b /\ 1 \in 1 .. d - b
      BY <1>3, <1>7, <1>9, <2>4, <2>5
    <3> QED  BY <2>2, <2>7, <3>1
  <2>9. Len(s) < Len(p)
    BY <1>1, <1>3, <1>7, <1>9, <2>2
  <2>10. IsPrefix(s, p)
    <3>1. Len(s) <= Len(p)
      BY <1>1, <1>3, <1>7, <2>2
    <3>2. SubSeq(p, 1, Len(s)) = s
      BY <2>2, <2>3
    <3>3. SubSeq(s, 1, Len(s)) = s
      <4>1. s \in Seq(Vocabulary)
        BY <1>4 DEF s
      <4> QED  BY <4>1
    <3> QED  BY <3>1, <3>2, <3>3 DEF IsPrefix
  <2>11. SubSeq(p, Len(s) + 1, Len(p)) = r
    BY <2>2, <2>3
  <2>12. t = r
    BY <2>1, <2>7, <2>8, <2>9, <2>10, <2>11 DEF Unambiguous
  <2>13. c = d
    BY <1>3, <1>7, <2>2, <2>5, <2>7, <2>12
  <2> QED  BY <2>4, <2>13
<1>10. d \in S
  BY <1>3, <1>7, <1>9
<1> QED  BY <1>7, <1>10 DEF m, d

\* A line made of acknowledgements alone says nothing: the loop goes from cut
\* to cut and keeps no word.
LEMMA PhrasesSayNothing ==
  ASSUME NEW w \in Seq(Vocabulary), Unambiguous, w # <<>>, madeOf(w, Len(w), Phrases)
  PROVE  acknowledges(w)
<1> DEFINE N == Len(w)
<1>1. N \in Nat /\ N > 0
  OBVIOUS
<1>2. PICK S : Cuts(w, N, S)
  BY Zenon DEF madeOf, Cuts, stretch
<1>3. PICK g : ParseLoop(w, N, g)
  BY <1>1, ParseIs
<1>4. \A n \in 0 .. N : g[n].at > n
  <2> HIDE DEF N
  <2> QED  BY <1>1, <1>3, RoundsGoOn DEF N
<1> HIDE DEF N
<1> DEFINE Fine(n) == /\ g[n].kept = <<>> /\ g[n].at - 1 \in S
                      /\ n > 0 => g[n].acknowledged
<1>5. ASSUME NEW n \in 1 .. N, Fine(n - 1) PROVE Fine(n)
  <2> DEFINE a == g[n - 1]
             b == g[n]
  <2>1. /\ a \in ParseState(N) /\ b = parsed(w, a)
        /\ a.kept = <<>> /\ a.at - 1 \in S /\ (n > 1 => a.acknowledged)
    BY <1>1, <1>3, <1>5 DEF ParseLoop
  <2> HIDE DEF a, b
  <2> DEFINE i == a.at
             m == _phrase_at(w, i)
  <2>2. i \in 1 .. N + 1 /\ a.acknowledged \in BOOLEAN
    BY <2>1 DEF ParseState
  <2>3. n = 1 => i = 1
    <3>1. g[0].at = 1
      BY <1>3 DEF ParseLoop
    <3> QED  BY <3>1 DEF a
  <2> HIDE DEF i
  <2>4. CASE i > N
    <3>1. b = a
      BY <1>1, <2>1, <2>4, ParsedIs DEF i, N
    <3>2. n > 1
      BY <1>1, <2>2, <2>3, <2>4
    <3>3. b.kept = <<>> /\ b.at - 1 \in S /\ b.acknowledged
      BY <2>1, <3>1, <3>2
    <3> QED  BY <3>3 DEF b
  <2>5. CASE i <= N
    <3> DEFINE e == i - 1
    <3>1. i \in 1 .. N /\ e \in S /\ i = e + 1
      BY <1>1, <2>1, <2>2, <2>5 DEF i
    <3> HIDE DEF e
    <3>2. m > 0 /\ e + m \in S
      BY <1>1, <1>2, <3>1, CutToCut DEF N
    <3>3. m > 0 => b.at = i + m /\ b.kept = a.kept /\ b.acknowledged = TRUE
      BY <1>1, <2>1, <2>5, ParsedIs DEF i, N
    <3>4. m \in 0 .. (N - i) + 1
      BY <1>1, <3>1, PhraseAtIs DEF N
    <3> HIDE DEF m
    <3>5. b.at - 1 = e + m
      BY <3>1, <3>2, <3>3, <3>4 DEF e
    <3>6. b.kept = <<>> /\ b.at - 1 \in S /\ b.acknowledged
      BY <2>1, <3>2, <3>3, <3>5
    <3> QED  BY <3>6 DEF b
  <2> QED  BY <1>1, <2>2, <2>4, <2>5
<1>6. \A n \in 0 .. N : Fine(n)
  <2> DEFINE T == {n \in 0 .. N : Fine(n)}
  <2>1. 0 \in T
    <3>1. g[0].at = 1 /\ g[0].kept = <<>> /\ 0 \in S
      BY <1>2, <1>3 DEF ParseLoop, Cuts
    <3>2. g[0].at - 1 = 0
      BY <3>1
    <3>3. Fine(0)
      BY <3>1, <3>2
    <3> HIDE DEF Fine
    <3> QED  BY <1>1, <3>3
  <2> HIDE DEF Fine
  <2>2. \A n \in 1 .. N : n - 1 \in T => n \in T
    BY <1>1, <1>5
  <2>3. T \in SUBSET (0 .. N)
    OBVIOUS
  <2> HIDE DEF T
  <2>4. \A n \in 0 .. N : n \in T
    BY <1>1, <2>1, <2>2, <2>3, RoundsKeep
  <2> QED  BY <2>4 DEF T
<1>7. g[N].kept = <<>> /\ g[N].acknowledged
  <2>1. Fine(N)
    <3> HIDE DEF Fine
    <3> QED  BY <1>1, <1>6
  <2> QED  BY <1>1, <2>1
<1>8. _parse(w) = g[N]
  BY <1>3, Zenon DEF ParseLoop
<1> QED  BY <1>7, <1>8, Zenon DEF acknowledges

-----------------------------------------------------------------------------
(***************************************************************************)
(* The words of a text.  What the scan has is what is written so far: it   *)
(* is in a word when a letter is behind it and only joiners since, and it  *)
(* counted the words that began.                                           *)
(***************************************************************************)
Characters == Letters \cup Signs
inWord(t, n) == \E k \in 1 .. n : /\ t[k] \in Letters
                                  /\ \A j \in k + 1 .. n : t[j] \in Letters \cup {"'"}

LEMMA NoWordYet ==
  ASSUME NEW t
  PROVE  ~inWord(t, 0)
BY DEF inWord

LEMMA InWordIs ==
  ASSUME NEW t \in Seq(Characters), NEW n \in 1 .. Len(t), NEW m \in 0 .. Len(t), m = n - 1
  PROVE  /\ inWord(t, n) <=> \/ t[n] \in Letters
                             \/ t[n] = "'" /\ inWord(t, m)
         /\ n \in wordStarts(t) <=> t[n] \in Letters /\ ~inWord(t, m)
<1> DEFINE W == Letters \cup {"'"}
<1>1. n \in Nat /\ m \in Nat /\ n = m + 1 /\ "'" \notin Letters /\ n \in DOMAIN t
  <2>1. n \in Nat /\ m \in Nat /\ n = m + 1 /\ n \in DOMAIN t
    OBVIOUS
  <2>2. "'" \notin Letters
    <3>1. "'" \in Signs /\ Letters \cap Signs = {}
      BY WordingAssumption DEF Signs
    <3> QED  BY <3>1
  <2> QED  BY <2>1, <2>2
<1>2. \A k \in 1 .. m : (\A j \in k + 1 .. n : t[j] \in W) <=> t[n] \in W /\ \A j \in k + 1 .. m : t[j] \in W
  <2> TAKE k \in 1 .. m
  <2>1. k + 1 .. n = (k + 1 .. m) \cup {n}
    BY <1>1
  <2> DEFINE A == k + 1 .. m
  <2>2. k + 1 .. n = A \cup {n}
    BY <2>1
  <2> HIDE DEF A, W
  <2>3. (\A j \in A \cup {n} : t[j] \in W) <=> t[n] \in W /\ \A j \in A : t[j] \in W
    OBVIOUS
  <2>4. (\A j \in k + 1 .. n : t[j] \in W) <=> t[n] \in W /\ \A j \in A : t[j] \in W
    BY <2>2, <2>3, Zenon
  <2> QED  BY <2>4 DEF A
<1>3. /\ inWord(t, n) <=> \E k \in 1 .. n : t[k] \in Letters /\ \A j \in k + 1 .. n : t[j] \in W
      /\ inWord(t, m) <=> \E k \in 1 .. m : t[k] \in Letters /\ \A j \in k + 1 .. m : t[j] \in W
  BY DEF inWord
<1>4. ASSUME t[n] \in Letters PROVE inWord(t, n)
  <2>1. n \in 1 .. n /\ \A j \in n + 1 .. n : FALSE
    BY <1>1
  <2> QED  BY <1>3, <1>4, <2>1
<1>5. ASSUME t[n] = "'", inWord(t, m) PROVE inWord(t, n)
  <2>1. PICK k \in 1 .. m : t[k] \in Letters /\ \A j \in k + 1 .. m : t[j] \in W
    BY <1>3, <1>5
  <2>2. k \in 1 .. n /\ t[n] \in W
    BY <1>1, <1>5
  <2> QED  BY <1>2, <1>3, <2>1, <2>2
<1>6. ASSUME inWord(t, n), t[n] \notin Letters PROVE t[n] = "'" /\ inWord(t, m)
  <2>1. PICK k \in 1 .. n : t[k] \in Letters /\ \A j \in k + 1 .. n : t[j] \in W
    BY <1>3, <1>6
  <2>2. k # n
    BY <1>6, <2>1
  <2>3. k \in 1 .. m
    BY <1>1, <2>1, <2>2
  <2> QED  BY <1>2, <1>3, <1>6, <2>1, <2>3
<1>7. n \in wordStarts(t) <=> /\ t[n] \in Letters
                              /\ \A k \in 1 .. m : t[k] \in Letters => \E j \in k + 1 .. m : t[j] \notin W
  BY <1>1 DEF wordStarts
<1> HIDE DEF W
<1>8. n \in wordStarts(t) <=> t[n] \in Letters /\ ~inWord(t, m)
  BY <1>3, <1>7
<1> QED  BY <1>4, <1>5, <1>6, <1>8

\* The words that have begun, counted on.
LEMMA WordAtIs ==
  ASSUME NEW t \in Seq(Characters)
  PROVE  /\ \A i \in Nat : wordAt(t, i) \in Nat
         /\ wordAt(t, 0) = 0
         /\ \A i \in Nat, n \in Nat : i <= n => wordAt(t, i) <= wordAt(t, n)
         /\ \A n \in 1 .. Len(t) : wordAt(t, n) = IF n \in wordStarts(t) THEN wordAt(t, n - 1) + 1
                                                  ELSE wordAt(t, n - 1)
<1> DEFINE B(n) == {s \in wordStarts(t) : s <= n}
<1>1. wordStarts(t) \subseteq 1 .. Len(t) /\ wordStarts(t) \in SUBSET Nat /\ Len(t) \in Nat
  BY DEF wordStarts
<1>2. IsFiniteSet(wordStarts(t))
  <2>1. IsFiniteSet(1 .. Len(t))
    BY <1>1, FS_Interval
  <2> QED  BY <1>1, <2>1, FS_Subset
<1>3. \A n : wordAt(t, n) = Cardinality(B(n)) /\ B(n) \in SUBSET wordStarts(t)
  BY DEF wordAt
<1>4. \A n : IsFiniteSet(B(n)) /\ Cardinality(B(n)) \in Nat
  <2> HIDE DEF B
  <2> QED  BY <1>2, <1>3, FS_Subset, FS_CardinalityType
<1>5. wordAt(t, 0) = 0
  <2>1. B(0) = {}
    BY <1>1
  <2> HIDE DEF B
  <2> QED  BY <1>3, <2>1, FS_EmptySet
<1>6. \A i \in Nat, n \in Nat : i <= n => wordAt(t, i) <= wordAt(t, n)
  <2> TAKE i \in Nat, n \in Nat
  <2> HAVE i <= n
  <2>1. B(i) \subseteq B(n)
    <3>1. \A s \in wordStarts(t) : s \in Nat /\ (s <= i => s <= n)
      BY <1>1
    <3> QED  BY <3>1
  <2> HIDE DEF B
  <2>2. Cardinality(B(i)) <= Cardinality(B(n))
    BY <1>4, <2>1, FS_Subset
  <2> QED  BY <1>3, <2>2
<1>7. \A n \in 1 .. Len(t) : wordAt(t, n) = IF n \in wordStarts(t) THEN wordAt(t, n - 1) + 1
                                            ELSE wordAt(t, n - 1)
  <2> TAKE n \in 1 .. Len(t)
  <2> DEFINE m == n - 1
  <2>1. m \in Nat /\ n \notin B(m)
    BY <1>1
  <2>2. B(n) = IF n \in wordStarts(t) THEN B(m) \cup {n} ELSE B(m)
    BY <1>1
  <2> HIDE DEF B, m
  <2>3. CASE n \in wordStarts(t)
    <3>1. Cardinality(B(m) \cup {n}) = Cardinality(B(m)) + 1
      BY <1>4, <2>1, FS_AddElement
    <3> QED  BY <1>3, <2>2, <2>3, <3>1 DEF m
  <2>4. CASE n \notin wordStarts(t)
    BY <1>3, <2>2, <2>4 DEF m
  <2> QED  BY <2>3, <2>4
<1>8. \A i \in Nat : wordAt(t, i) \in Nat
  <2> HIDE DEF B
  <2> QED  BY <1>3, <1>4
<1> QED  BY <1>5, <1>6, <1>7, <1>8

\* What stands at one place, and at none.
LEMMA OneStands ==
  ASSUME NEW M, NEW t \in Seq(M), NEW n \in DOMAIN t
  PROVE  standing(t, {n}) = <<t[n]>> /\ standing(t, {}) = <<>>
<1>1. standing(t, {}) = <<>>
  <2>1. Cardinality({}) = 0
    BY FS_EmptySet
  <2> QED  BY <2>1 DEF standing
<1> DEFINE f == [i \in 1 .. 1 |-> n]
           S == {n}
<1>2. Lists(f, 1, S) /\ S \in SUBSET DOMAIN t
  BY DEF Lists
<1>3. standing(t, S) = [i \in 1 .. 1 |-> t[f[i]]]
  <2> HIDE DEF f, S
  <2> QED  BY <1>2, ListedIs
<1>4. [i \in 1 .. 1 |-> t[f[i]]] = <<t[n]>>
  BY DEF f
<1> QED  BY <1>1, <1>3, <1>4

\* The states of a scan, and what a character does to one.
ScanState == [words: Seq(Seq(Letters)), word: Seq(Letters), breaks: SUBSET Nat]

LEMMA ScannedIs ==
  ASSUME NEW s \in ScanState, NEW c \in Characters
  PROVE  /\ scanned(s, c) \in ScanState /\ wordsOf(s) \in Seq(Seq(Letters))
         /\ c \in Letters => /\ scanned(s, c).words = s.words /\ scanned(s, c).breaks = s.breaks
                             /\ scanned(s, c).word = Append(s.word, c)
         /\ c = "'" /\ s.word # <<>> => scanned(s, c) = s
         /\ c \notin Letters /\ ~(c = "'" /\ s.word # <<>>) =>
              /\ scanned(s, c).words = wordsOf(s) /\ scanned(s, c).word = <<>>
              /\ scanned(s, c).breaks = s.breaks \cup IF c = "," THEN {Len(wordsOf(s))} ELSE {}
<1> DEFINE r == scanned(s, c)
           ws == s.words
           wd == s.word
           bs == s.breaks
           all == wordsOf(s)
           more == s.breaks \cup IF c = "," THEN {Len(wordsOf(s))} ELSE {}
<1>1. /\ ws \in Seq(Seq(Letters)) /\ wd \in Seq(Letters) /\ bs \in SUBSET Nat
      /\ s = [words |-> ws, word |-> wd, breaks |-> bs]
  BY DEF ScanState
<1>2. all = IF wd = <<>> THEN ws ELSE Append(ws, wd)
  BY DEF wordsOf
<1>3. all \in Seq(Seq(Letters)) /\ Len(all) \in Nat
  <2> HIDE DEF all, ws, wd
  <2>1. Append(ws, wd) \in Seq(Seq(Letters))
    BY <1>1
  <2> QED  BY <1>1, <1>2, <2>1
<1>4. more \in SUBSET Nat
  <2> HIDE DEF all
  <2> QED  BY <1>1, <1>3 DEF all
<1>5. c = "'" => c \notin Letters
  <2>1. "'" \in Signs /\ Letters \cap Signs = {}
    BY WordingAssumption DEF Signs
  <2> QED  BY <2>1
<1> DEFINE joins == c = "'" /\ s.word # <<>>
<1>6. r = CASE c \in Letters -> [s EXCEPT !.word = Append(@, c)]
            [] joins -> s
            [] OTHER -> [words |-> all, word |-> <<>>, breaks |-> more]
  BY Zenon DEF scanned
<1>7. CASE c \in Letters
  <2>1. ~joins
    BY <1>5, <1>7
  <2> HIDE DEF joins, r, more, all
  <2>2. r = [s EXCEPT !.word = Append(@, c)]
    BY <1>6, <1>7, <2>1
  <2> HIDE DEF ws, wd, bs
  <2>3. r = [words |-> ws, word |-> Append(wd, c), breaks |-> bs]
    BY <1>1, <2>2
  <2>4. Append(wd, c) \in Seq(Letters)
    BY <1>1, <1>7
  <2>5. r \in ScanState /\ r.words = ws /\ r.word = Append(wd, c) /\ r.breaks = bs
    <3> DEFINE w1 == Append(wd, c)
    <3> HIDE DEF w1
    <3> QED  BY <1>1, <2>3, <2>4 DEF ScanState, w1
  <2> QED  BY <1>3, <1>5, <1>7, <2>5 DEF r, all, ws, wd, bs
<1>8. CASE joins
  <2>1. c \notin Letters
    BY <1>5, <1>8
  <2> HIDE DEF r, more, all
  <2>2. r = s
    <3>1. joins
      BY <1>8
    <3> HIDE DEF joins
    <3> QED  BY <1>6, <2>1, <3>1
  <2> QED  BY <1>3, <1>8, <2>1, <2>2 DEF r, all
<1>9. CASE c \notin Letters /\ ~joins
  <2>1. r = [words |-> all, word |-> <<>>, breaks |-> more]
    <3> HIDE DEF joins, r, all, more
    <3> QED  BY <1>6, <1>9
  <2> HIDE DEF r, all, more
  <2>2. r \in ScanState
    <3>1. <<>> \in Seq(Letters)
      OBVIOUS
    <3> QED  BY <1>3, <1>4, <2>1, <3>1 DEF ScanState
  <2>3. r.words = all /\ r.word = <<>> /\ r.breaks = more
    BY <2>1
  <2> HIDE DEF joins
  <2>4. ~(c = "'" /\ s.word # <<>>)
    BY <1>9 DEF joins
  <2> QED  BY <1>3, <1>9, <2>2, <2>3, <2>4 DEF r, all, more
<1> HIDE DEF joins
<1> QED  BY <1>7, <1>8, <1>9

ScanLoop(t, N, g) ==
  /\ g[0] = [words |-> <<>>, word |-> <<>>, breaks |-> {0}]
  /\ \A n \in 0 .. N : g[n] \in ScanState
  /\ \A n \in 1 .. N : g[n] = scanned(g[n - 1], t[n])
  /\ tokens(t) = [words |-> wordsOf(g[N]), breaks |-> g[N].breaks \cup {Len(wordsOf(g[N]))}]

LEMMA ScanIs ==
  ASSUME NEW t \in Seq(Characters), NEW N \in Nat, N = Len(t)
  PROVE  \E g : ScanLoop(t, N, g)
<1> DEFINE S == ScanState
           first == [words |-> <<>>, word |-> <<>>, breaks |-> {0}]
           f == [p \in (1 .. N) \X S |-> scanned(p[2], t[p[1]])]
           on(d) == [n \in 0 .. N |-> IF n = 0 THEN first ELSE scanned(d[n - 1], t[n])]
<1>1. first \in S
  <2>1. <<>> \in Seq(Seq(Letters)) /\ <<>> \in Seq(Letters) /\ {0} \in SUBSET Nat
    OBVIOUS
  <2> QED  BY <2>1 DEF ScanState
<1>2. f \in [(1 .. N) \X S -> S]
  <2>1. \A n \in 1 .. N : t[n] \in Characters
    OBVIOUS
  <2> QED  BY <2>1, ScannedIs
<1> HIDE DEF S, first
<1>3. PICK g : Loops(g, N, S, first, f)
  <2> HIDE DEF f
  <2> QED  BY <1>1, <1>2, LoopIs
<1>4. g = on(g)
  <2>1. g \in [0 .. N -> S]
    BY <1>3, Zenon DEF Loops
  <2>2. \A n \in 1 .. N : n - 1 \in 0 .. N /\ <<n, g[n - 1]>> \in (1 .. N) \X S
    BY <2>1
  <2>3. \A n \in 1 .. N : f[<<n, g[n - 1]>>] = scanned(g[n - 1], t[n])
    BY <2>2
  <2> HIDE DEF f
  <2>4. \A n \in 0 .. N : (IF n = 0 THEN first ELSE f[<<n, g[n - 1]>>])
                          = (IF n = 0 THEN first ELSE scanned(g[n - 1], t[n]))
    BY <2>3
  <2> QED  BY <1>3, <2>4 DEF Loops
<1> DEFINE loop == CHOOSE d : d = on(d)
<1>5. loop = on(loop)
  <2> HIDE DEF on
  <2> QED  BY <1>4
<1>6. tokens(t) = [words |-> wordsOf(loop[N]), breaks |-> loop[N].breaks \cup {Len(wordsOf(loop[N]))}]
  BY DEF tokens, first
<1> HIDE DEF loop
<1>7. loop[0] = first /\ \A n \in 1 .. N : loop[n] = scanned(loop[n - 1], t[n])
  <2>1. 0 \in 0 .. N /\ \A n \in 1 .. N : n \in 0 .. N /\ n # 0
    OBVIOUS
  <2>2. \A n \in 0 .. N : loop[n] = IF n = 0 THEN first ELSE scanned(loop[n - 1], t[n])
    BY <1>5, Zenon
  <2> QED  BY <2>1, <2>2
<1>8. \A n \in 0 .. N : loop[n] \in S
  <2> DEFINE T == {n \in 0 .. N : loop[n] \in S}
  <2>1. 0 \in T
    BY <1>1, <1>7
  <2>2. ASSUME NEW n \in 1 .. N, n - 1 \in T PROVE n \in T
    <3>1. scanned(loop[n - 1], t[n]) \in S
      <4>1. t[n] \in Characters /\ loop[n - 1] \in ScanState
        BY <2>2 DEF S
      <4> QED  BY <4>1, ScannedIs DEF S
    <3> QED  BY <1>7, <3>1
  <2>3. T \in SUBSET (0 .. N)
    OBVIOUS
  <2> HIDE DEF T
  <2>4. \A n \in 0 .. N : n \in T
    BY <2>1, <2>2, <2>3, RoundsKeep
  <2> QED  BY <2>4 DEF T
<1>9. ScanLoop(t, N, loop)
  BY <1>6, <1>7, <1>8 DEF ScanLoop, S, first
<1> QED  BY <1>9

\* The letters of the k-th word that are among the first n characters.
writtenIn(t, k, n) == {i \in DOMAIN t : i <= n /\ t[i] \in Letters /\ wordAt(t, i) = k}
wordSoFar(t, k, n) == standing(t, writtenIn(t, k, n))

LEMMA WordSoFarIs ==
  ASSUME NEW t \in Seq(Characters), NEW n \in 1 .. Len(t), NEW m \in 0 .. Len(t), m = n - 1,
         NEW c, c = wordAt(t, n)
  PROVE  /\ t[n] \notin Letters => \A k : wordSoFar(t, k, n) = wordSoFar(t, k, m)
         /\ \A k : k # c => wordSoFar(t, k, n) = wordSoFar(t, k, m)
         /\ t[n] \in Letters => wordSoFar(t, c, n) = wordSoFar(t, c, m) \o <<t[n]>>
         /\ n \in wordStarts(t) => wordSoFar(t, c, m) = <<>>
<1>1. n \in Nat /\ m \in Nat /\ n = m + 1 /\ n \in DOMAIN t /\ DOMAIN t \subseteq Nat
  OBVIOUS
<1>2. \A i \in DOMAIN t : i <= n <=> i <= m \/ i = n
  BY <1>1
<1>3. \A k : t[n] \notin Letters \/ k # c => writtenIn(t, k, n) = writtenIn(t, k, m)
  BY <1>2 DEF writtenIn
<1>4. t[n] \in Letters => writtenIn(t, c, n) = writtenIn(t, c, m) \cup {n}
  BY <1>1, <1>2 DEF writtenIn
<1>5. t[n] \in Letters => wordSoFar(t, c, n) = wordSoFar(t, c, m) \o <<t[n]>>
  <2> SUFFICES ASSUME t[n] \in Letters PROVE wordSoFar(t, c, n) = wordSoFar(t, c, m) \o <<t[n]>>
    OBVIOUS
  <2> DEFINE A == writtenIn(t, c, m)
             B == {n}
  <2>1. A \in SUBSET DOMAIN t /\ B \in SUBSET DOMAIN t /\ \A a \in A, b \in B : a < b
    BY <1>1 DEF writtenIn
  <2>2. writtenIn(t, c, n) = A \cup B
    BY <1>4
  <2>3. standing(t, B) = <<t[n]>>
    BY <1>1, OneStands
  <2> HIDE DEF A, B
  <2>4. standing(t, A \cup B) = standing(t, A) \o standing(t, B)
    BY <2>1, StandingOfBoth
  <2> QED  BY <2>2, <2>3, <2>4 DEF wordSoFar, A
<1>6. n \in wordStarts(t) => wordSoFar(t, c, m) = <<>>
  <2> SUFFICES ASSUME n \in wordStarts(t) PROVE wordSoFar(t, c, m) = <<>>
    OBVIOUS
  <2>1. c = wordAt(t, m) + 1 /\ wordAt(t, m) \in Nat
    BY <1>1, WordAtIs
  <2>2. \A i \in DOMAIN t : i <= m => wordAt(t, i) \in Nat /\ wordAt(t, i) <= wordAt(t, m)
    BY <1>1, WordAtIs
  <2>3. writtenIn(t, c, m) = {}
    BY <2>1, <2>2 DEF writtenIn
  <2> QED  BY <1>1, <2>3, OneStands DEF wordSoFar
<1> QED  BY <1>3, <1>5, <1>6 DEF wordSoFar

\* What the scan has of the first n characters.
ScannedTo(t, n, s) ==
  /\ inWord(t, n) => /\ wordAt(t, n) >= 1 /\ s.word # <<>>
                     /\ s.word = wordSoFar(t, wordAt(t, n), n)
                     /\ s.words = [k \in 1 .. wordAt(t, n) - 1 |-> wordSoFar(t, k, n)]
  /\ ~inWord(t, n) => /\ s.word = <<>>
                      /\ s.words = [k \in 1 .. wordAt(t, n) |-> wordSoFar(t, k, n)]
  /\ s.breaks = {0} \cup {wordAt(t, i) : i \in {k \in 1 .. n : t[k] = ","}}

LEMMA WordsScanned ==
  ASSUME NEW t \in Seq(Characters), NEW n \in 0 .. Len(t), NEW s \in ScanState, ScannedTo(t, n, s)
  PROVE  /\ wordsOf(s) = [k \in 1 .. wordAt(t, n) |-> wordSoFar(t, k, n)]
         /\ Len(wordsOf(s)) = wordAt(t, n)
<1> DEFINE c == wordAt(t, n)
           F(k) == wordSoFar(t, k, n)
           all == wordsOf(s)
           wd == s.word
           ws == s.words
<1>1. c \in Nat
  BY WordAtIs
<1>2. all = IF wd = <<>> THEN ws ELSE Append(ws, wd)
  BY DEF wordsOf
<1>3. /\ inWord(t, n) => c >= 1 /\ wd # <<>> /\ wd = F(c) /\ ws = [k \in 1 .. c - 1 |-> F(k)]
      /\ ~inWord(t, n) => wd = <<>> /\ ws = [k \in 1 .. c |-> F(k)]
  BY DEF ScannedTo
<1> HIDE DEF c, all, wd, ws, F
<1>4. all = [k \in 1 .. c |-> F(k)]
  <2>1. CASE inWord(t, n)
    <3> DEFINE d == c - 1
    <3>1. d \in Nat /\ d + 1 = c
      BY <1>1, <1>3, <2>1
    <3> HIDE DEF d
    <3>2. ws = [k \in 1 .. d |-> F(k)] /\ wd = F(d + 1) /\ all = Append(ws, wd)
      BY <1>2, <1>3, <2>1, <3>1 DEF d
    <3>3. Append([k \in 1 .. d |-> F(k)], F(d + 1)) = [k \in 1 .. d + 1 |-> F(k)]
      BY <3>1
    <3> QED  BY <3>1, <3>2, <3>3
  <2>2. CASE ~inWord(t, n)
    BY <1>2, <1>3, <2>2
  <2> QED  BY <2>1, <2>2
<1>5. Len(all) = c
  BY <1>1, <1>4
<1> QED  BY <1>4, <1>5 DEF all, c, F

LEMMA ScannedOn ==
  ASSUME NEW t \in Seq(Characters), NEW n \in 1 .. Len(t), NEW m \in 0 .. Len(t), m = n - 1,
         NEW s \in ScanState, ScannedTo(t, m, s)
  PROVE  ScannedTo(t, n, scanned(s, t[n]))
<1> DEFINE x == t[n]
           r == scanned(s, x)
           c == wordAt(t, n)
           b == wordAt(t, m)
           F(k) == wordSoFar(t, k, n)
           G(k) == wordSoFar(t, k, m)
           all == wordsOf(s)
           B(j) == {0} \cup {wordAt(t, i) : i \in {k \in 1 .. j : t[k] = ","}}
<1>1. n \in Nat /\ m \in Nat /\ x \in Characters /\ c \in Nat /\ b \in Nat
  BY WordAtIs
<1>2. c = IF n \in wordStarts(t) THEN b + 1 ELSE b
  BY WordAtIs
<1>3. /\ inWord(t, n) <=> x \in Letters \/ (x = "'" /\ inWord(t, m))
      /\ n \in wordStarts(t) <=> x \in Letters /\ ~inWord(t, m)
  BY InWordIs
<1>4. /\ x \notin Letters => \A k : F(k) = G(k)
      /\ \A k : k # c => F(k) = G(k)
      /\ x \in Letters => F(c) = G(c) \o <<x>>
      /\ n \in wordStarts(t) => G(c) = <<>>
  BY WordSoFarIs
<1>5. all = [k \in 1 .. b |-> G(k)] /\ Len(all) = b
  BY WordsScanned
<1>6. /\ inWord(t, m) => b >= 1 /\ s.word # <<>> /\ s.word = G(b) /\ s.words = [k \in 1 .. b - 1 |-> G(k)]
      /\ ~inWord(t, m) => s.word = <<>> /\ s.words = [k \in 1 .. b |-> G(k)]
      /\ s.breaks = B(m)
  BY DEF ScannedTo
<1>7. /\ r \in ScanState
      /\ x \in Letters => r.words = s.words /\ r.breaks = s.breaks /\ r.word = Append(s.word, x)
      /\ x = "'" /\ s.word # <<>> => r = s
      /\ x \notin Letters /\ ~(x = "'" /\ s.word # <<>>) =>
           /\ r.words = all /\ r.word = <<>>
           /\ r.breaks = s.breaks \cup IF x = "," THEN {Len(all)} ELSE {}
  BY <1>1, ScannedIs
<1>8. B(n) = B(m) \cup IF x = "," THEN {c} ELSE {}
  <2>1. {k \in 1 .. n : t[k] = ","} = {k \in 1 .. m : t[k] = ","} \cup IF x = "," THEN {n} ELSE {}
    <3>1. 1 .. n = (1 .. m) \cup {n}
      BY <1>1
    <3> QED  BY <3>1
  <2> QED  BY <2>1
<1>9. "," \notin Letters /\ "'" \notin Letters
  <2>1. {",", "'"} \subseteq Signs /\ Letters \cap Signs = {}
    BY WordingAssumption DEF Signs
  <2> QED  BY <2>1
<1> DEFINE w1 == r.word
           ws1 == r.words
           bs1 == r.breaks
           w0 == s.word
           ws0 == s.words
           bs0 == s.breaks
<1>10. w0 \in Seq(Letters)
  BY DEF ScanState
<1> HIDE DEF x, c, b, F, G, B, all, r, w0, ws0, bs0, w1, ws1, bs1
<1>11. CASE x \in Letters
  <2>1. w1 = Append(w0, x) /\ ws1 = ws0 /\ bs1 = bs0 /\ inWord(t, n) /\ x # ","
    BY <1>3, <1>7, <1>9, <1>11 DEF w1, ws1, bs1, w0, ws0, bs0
  <2>2. w0 = G(c) /\ c >= 1 /\ ws0 = [k \in 1 .. c - 1 |-> G(k)]
    <3>1. CASE inWord(t, m)
      BY <1>2, <1>3, <1>6, <3>1 DEF w0, ws0
    <3>2. CASE ~inWord(t, m)
      <4>1. c = b + 1 /\ c - 1 = b /\ G(c) = <<>>
        BY <1>1, <1>2, <1>3, <1>4, <1>11, <3>2
      <4> QED  BY <1>1, <1>6, <3>2, <4>1 DEF w0, ws0
    <3> QED  BY <3>1, <3>2
  <2>3. w1 = F(c) /\ w1 # <<>>
    <3>1. Append(w0, x) = w0 \o <<x>> /\ Append(w0, x) # <<>>
      BY <1>10, <1>11
    <3> QED  BY <1>4, <1>11, <2>1, <2>2, <3>1
  <2>4. [k \in 1 .. c - 1 |-> G(k)] = [k \in 1 .. c - 1 |-> F(k)]
    <3>1. \A k \in 1 .. c - 1 : k # c
      BY <1>1
    <3> QED  BY <1>4, <3>1
  <2>5. bs1 = B(n)
    BY <1>6, <1>8, <2>1 DEF bs0
  <2> QED  BY <2>1, <2>2, <2>3, <2>4, <2>5 DEF ScannedTo, c, F, B, r, x, w1, ws1, bs1
<1>12. CASE x = "'" /\ inWord(t, m)
  <2>1. w1 = w0 /\ ws1 = ws0 /\ bs1 = bs0 /\ inWord(t, n) /\ x # "," /\ x \notin Letters /\ c = b
    BY <1>2, <1>3, <1>6, <1>7, <1>9, <1>12 DEF w1, ws1, bs1, w0, ws0, bs0
  <2>2. w1 = F(c) /\ w1 # <<>> /\ c >= 1 /\ ws1 = [k \in 1 .. c - 1 |-> F(k)]
    BY <1>4, <1>6, <1>12, <2>1 DEF w0, ws0
  <2>3. bs1 = B(n)
    BY <1>6, <1>8, <2>1 DEF bs0
  <2> QED  BY <2>1, <2>2, <2>3 DEF ScannedTo, c, F, B, r, x, w1, ws1, bs1
<1>13. CASE x \notin Letters /\ ~(x = "'" /\ inWord(t, m))
  <2>1. c = b /\ ~inWord(t, n)
    BY <1>2, <1>3, <1>13
  <2>2. ~(x = "'" /\ w0 # <<>>)
    BY <1>6, <1>13 DEF w0
  <2>3. w1 = <<>> /\ ws1 = all /\ bs1 = bs0 \cup IF x = "," THEN {Len(all)} ELSE {}
    BY <1>7, <1>13, <2>2 DEF w1, ws1, bs1, w0, bs0
  <2>4. ws1 = [k \in 1 .. c |-> F(k)]
    BY <1>4, <1>5, <1>13, <2>1, <2>3
  <2>5. bs1 = B(n)
    BY <1>5, <1>6, <1>8, <2>1, <2>3 DEF bs0
  <2> QED  BY <2>1, <2>3, <2>4, <2>5 DEF ScannedTo, c, F, B, r, x, w1, ws1, bs1
<1> QED  BY <1>11, <1>12, <1>13

LEMMA TokensAre ==
  ASSUME NEW t \in Seq(Characters)
  PROVE  LET count == Cardinality(wordStarts(t))
         IN tokens(t) = [words |-> [n \in 1 .. count |->
                                     standing(t, {i \in DOMAIN t : t[i] \in Letters /\ wordAt(t, i) = n})],
                         breaks |-> {0, count} \cup {wordAt(t, i) : i \in {k \in DOMAIN t : t[k] = ","}}]
<1> DEFINE N == Len(t)
           count == Cardinality(wordStarts(t))
           F(n) == standing(t, {i \in DOMAIN t : t[i] \in Letters /\ wordAt(t, i) = n})
           B == {wordAt(t, i) : i \in {k \in DOMAIN t : t[k] = ","}}
<1>1. N \in Nat /\ DOMAIN t = 1 .. N
  OBVIOUS
<1>2. PICK g : ScanLoop(t, N, g)
  BY <1>1, ScanIs
<1>3. \A n \in 0 .. N : g[n] \in ScanState
  BY <1>2 DEF ScanLoop
<1>4. \A n \in 1 .. N : g[n] = scanned(g[n - 1], t[n])
  BY <1>2 DEF ScanLoop
<1>5. ScannedTo(t, 0, g[0])
  <2>1. g[0] = [words |-> <<>>, word |-> <<>>, breaks |-> {0}]
    BY <1>2, Zenon DEF ScanLoop
  <2>2. ~inWord(t, 0) /\ wordAt(t, 0) = 0
    BY NoWordYet, WordAtIs
  <2>3. {wordAt(t, i) : i \in {k \in 1 .. 0 : t[k] = ","}} = {}
    OBVIOUS
  <2>4. [k \in 1 .. 0 |-> wordSoFar(t, k, 0)] = <<>>
    OBVIOUS
  <2>5. g[0].word = <<>> /\ g[0].words = <<>> /\ g[0].breaks = {0}
    BY <2>1
  <2> QED  BY <2>2, <2>3, <2>4, <2>5 DEF ScannedTo
<1>6. \A n \in 0 .. N : ScannedTo(t, n, g[n])
  <2> DEFINE T == {n \in 0 .. N : ScannedTo(t, n, g[n])}
  <2>1. 0 \in T
    BY <1>1, <1>5
  <2>2. ASSUME NEW n \in 1 .. N, n - 1 \in T PROVE n \in T
    <3> DEFINE m == n - 1
               s == g[m]
    <3>1. m \in 0 .. Len(t) /\ n \in 1 .. Len(t) /\ s \in ScanState /\ ScannedTo(t, m, s)
      BY <1>1, <1>3, <2>2
    <3>2. g[n] = scanned(s, t[n])
      BY <1>4
    <3> HIDE DEF s
    <3>3. ScannedTo(t, n, scanned(s, t[n]))
      BY <3>1, ScannedOn
    <3> QED  BY <3>1, <3>2, <3>3
  <2>3. T \in SUBSET (0 .. N)
    OBVIOUS
  <2> HIDE DEF T, N
  <2>4. \A n \in 0 .. N : n \in T
    BY <1>1, <2>1, <2>2, <2>3, RoundsKeep
  <2> QED  BY <2>4 DEF T
<1> DEFINE s == g[N]
           all == wordsOf(s)
           bs == s.breaks
<1>7. s \in ScanState /\ ScannedTo(t, N, s) /\ tokens(t) = [words |-> all, breaks |-> bs \cup {Len(all)}]
  <2>1. tokens(t) = [words |-> all, breaks |-> bs \cup {Len(all)}]
    BY <1>2, Zenon DEF ScanLoop
  <2>2. N \in 0 .. N
    BY <1>1
  <2> HIDE DEF N
  <2> QED  BY <1>3, <1>6, <2>1, <2>2
<1> HIDE DEF s
<1>8. wordAt(t, N) = count
  <2>1. {x \in wordStarts(t) : x <= N} = wordStarts(t)
    BY <1>1 DEF wordStarts
  <2> QED  BY <2>1 DEF wordAt
<1>9. all = [n \in 1 .. count |-> F(n)] /\ Len(all) = count
  <2>1. all = [k \in 1 .. count |-> wordSoFar(t, k, N)] /\ Len(all) = count
    BY <1>1, <1>7, <1>8, WordsScanned
  <2>2. \A k : writtenIn(t, k, N) = {i \in DOMAIN t : t[i] \in Letters /\ wordAt(t, i) = k}
    BY <1>1 DEF writtenIn
  <2>3. \A k : wordSoFar(t, k, N) = F(k)
    BY <2>2 DEF wordSoFar
  <2> HIDE DEF all, F, count
  <2> QED  BY <2>1, <2>3
<1>10. bs = {0} \cup B
  <2>1. bs = {0} \cup {wordAt(t, i) : i \in {k \in 1 .. N : t[k] = ","}}
    BY <1>7 DEF ScannedTo
  <2> QED  BY <1>1, <2>1
<1>11. bs \cup {Len(all)} = {0, count} \cup B
  <2> HIDE DEF bs, all, count, B
  <2> QED  BY <1>9, <1>10
<1> HIDE DEF all, bs
<1>12. tokens(t) = [words |-> [n \in 1 .. count |-> F(n)], breaks |-> {0, count} \cup B]
  <2> HIDE DEF count, F, B
  <2> QED  BY <1>7, <1>9, <1>11
<1> QED  BY <1>12

-----------------------------------------------------------------------------
\* What is read is a pair of words, a text or a line, and it is read as that.
EditCase(a, b) ==
  /\ case = [of |-> "edit", a |-> a, b |-> b]
  /\ done => reading = [edit |-> within_one_edit(a, b), same |-> recognized_as(a, b)]
TextCase(t) ==
  /\ case = [of |-> "text", text |-> t]
  /\ done => reading = tokens(t)
LineCase(l) ==
  /\ case = [of |-> "line", line |-> l]
  /\ done => reading = [heard |-> hear(l), acknowledges |-> acknowledges(l.words)]

WordingInd ==
  \/ \E a, b \in Seq(Letters) : EditCase(a, b)
  \/ \E t \in Seq(Characters) : TextCase(t)
  \/ \E l \in WordedLines : LineCase(l)

LEMMA AtMostAreSequences ==
  ASSUME NEW S, NEW n \in Nat
  PROVE  atMost(S, n) \subseteq Seq(S)
<1>1. \A k \in 0 .. n : [1 .. k -> S] \subseteq Seq(S)
  OBVIOUS
<1> QED  BY <1>1 DEF atMost

LEMMA WordingStarts == WordingInit => WordingInd
<1> SUFFICES ASSUME WordingInit PROVE WordingInd
  OBVIOUS
<1>1. ~done
  BY DEF WordingInit
<1>2. MaxLetters \in Nat /\ MaxChars \in Nat /\ MaxLine \in Nat
  BY WordingAssumption
<1>3. CASE \E a, b \in atMost(Letters, MaxLetters) : case = [of |-> "edit", a |-> a, b |-> b]
  <2>1. \E a, b \in Seq(Letters) : case = [of |-> "edit", a |-> a, b |-> b]
    BY <1>2, <1>3, AtMostAreSequences
  <2> QED  BY <1>1, <2>1 DEF WordingInd, EditCase
<1>4. CASE \E t \in atMost(Letters \cup Signs, MaxChars) : case = [of |-> "text", text |-> t]
  <2>1. \E t \in Seq(Characters) : case = [of |-> "text", text |-> t]
    BY <1>2, <1>4, AtMostAreSequences DEF Characters
  <2> QED  BY <1>1, <2>1 DEF WordingInd, TextCase
<1>5. CASE \E l \in Lines : case = [of |-> "line", line |-> l]
  <2>1. Lines \subseteq WordedLines
    <3>1. atMost(Vocabulary, MaxLine) \subseteq Seq(Vocabulary)
      BY <1>2, AtMostAreSequences
    <3>2. SUBSET (1 .. MaxLine - 1) \subseteq SUBSET Nat
      BY <1>2
    <3> QED  BY <3>1, <3>2 DEF Lines, WordedLines
  <2>2. \E l \in WordedLines : case = [of |-> "line", line |-> l]
    BY <1>5, <2>1
  <2> QED  BY <1>1, <2>2 DEF WordingInd, LineCase
<1> QED  BY <1>3, <1>4, <1>5 DEF WordingInit

LEMMA WordingGoesOn == WordingInd /\ [WordingNext]_wordingVars => WordingInd'
<1> SUFFICES ASSUME WordingInd, [WordingNext]_wordingVars PROVE WordingInd'
  OBVIOUS
<1>1. CASE UNCHANGED wordingVars
  BY <1>1 DEF WordingInd, EditCase, TextCase, LineCase, wordingVars
<1>2. CASE WordingNext
  <2>1. case' = case /\ (compared \/ tokenized \/ understood)
    BY <1>2 DEF WordingNext
  <2>2. ASSUME NEW a \in Seq(Letters), NEW b \in Seq(Letters), EditCase(a, b) PROVE EditCase(a, b)'
    <3>1. case = [of |-> "edit", a |-> a, b |-> b]
      BY <2>2 DEF EditCase
    <3>2. case.of = "edit" /\ case.a = a /\ case.b = b
      BY <3>1
    <3>3. compared
      BY <2>1, <3>2 DEF tokenized, understood
    <3> QED  BY <2>1, <3>1, <3>2, <3>3 DEF EditCase, compared
  <2>3. ASSUME NEW t \in Seq(Characters), TextCase(t) PROVE TextCase(t)'
    <3>1. case = [of |-> "text", text |-> t]
      BY <2>3 DEF TextCase
    <3>2. case.of = "text" /\ case.text = t
      BY <3>1
    <3>3. tokenized
      BY <2>1, <3>2 DEF compared, understood
    <3> QED  BY <2>1, <3>1, <3>2, <3>3 DEF TextCase, tokenized
  <2>4. ASSUME NEW l \in WordedLines, LineCase(l) PROVE LineCase(l)'
    <3>1. case = [of |-> "line", line |-> l]
      BY <2>4 DEF LineCase
    <3>2. case.of = "line" /\ case.line = l
      BY <3>1
    <3>3. understood
      BY <2>1, <3>2 DEF compared, tokenized
    <3> QED  BY <2>1, <3>1, <3>2, <3>3 DEF LineCase, understood
  <2> QED  BY <2>2, <2>3, <2>4 DEF WordingInd
<1> QED  BY <1>1, <1>2

LEMMA ReadAsPromised == WordingInd => WordingInv
<1> SUFFICES ASSUME WordingInd PROVE WordingInv
  OBVIOUS
<1>1. ASSUME NEW a \in Seq(Letters), NEW b \in Seq(Letters), EditCase(a, b) PROVE WordingInv
  <2>1. case.of = "edit" /\ case.a = a /\ case.b = b
    BY <1>1 DEF EditCase
  <2>2. done => reading.edit = within_one_edit(a, b)
    BY <1>1 DEF EditCase
  <2>3. within_one_edit(a, b) <=> EditDistanceOne(a, b)
    BY EditIs
  <2>4. OneEdit
    BY <2>1, <2>2, <2>3 DEF OneEdit, EditDistanceOne, read
  <2>5. ~read("text") /\ ~read("line")
    BY <2>1 DEF read
  <2> QED  BY <2>4, <2>5 DEF WordingInv, TokensAsWritten, CalledStaysCalled, SaysNothing
<1>2. ASSUME NEW t \in Seq(Characters), TextCase(t) PROVE WordingInv
  <2>1. case.of = "text" /\ case.text = t
    BY <1>2 DEF TextCase
  <2>2. done => reading = tokens(t)
    BY <1>2 DEF TextCase
  <2>3. TokensAsWritten
    <3>1. read("text") => reading = tokens(t)
      BY <2>2 DEF read
    <3> QED  BY <2>1, <3>1, TokensAre, Zenon DEF TokensAsWritten
  <2>4. ~read("edit") /\ ~read("line")
    BY <2>1 DEF read
  <2> QED  BY <2>3, <2>4 DEF WordingInv, OneEdit, CalledStaysCalled, SaysNothing
<1>3. ASSUME NEW l \in WordedLines, LineCase(l) PROVE WordingInv
  <2>1. case.of = "line" /\ case.line = l
    BY <1>3 DEF LineCase
  <2>2. done => reading.heard = hear(l) /\ reading.acknowledges = acknowledges(l.words)
    BY <1>3 DEF LineCase
  <2>3. CalledStaysCalled
    <3>1. read("line") => reading.heard = hear(l)
      BY <2>2 DEF read
    <3>2. \A gap \in l.breaks \cap (1 .. Len(l.words)) :
            /\ \A s \in _spans(l) : s[1] <= gap => s[2] <= gap + 1
            /\ hear(frontOf(l, gap)) \in {"CALLED", "STOPPED"}
            => hear(l) \in {"CALLED", "STOPPED"}
      BY CalledStays
    <3> QED  BY <2>1, <3>1, <3>2, Zenon DEF CalledStaysCalled, frontOf
  <2>4. SaysNothing
    <3> DEFINE w == l.words
    <3>1. w \in Seq(Vocabulary)
      BY DEF WordedLines
    <3>2. read("line") => reading.acknowledges = acknowledges(w)
      BY <2>2 DEF read
    <3> HIDE DEF w
    <3>3. acknowledges(w) => madeOf(w, Len(w), Phrases \cup fillers) /\ phrased(w)
      BY <3>1, NothingIsFilled
    <3>4. Unambiguous /\ w # <<>> /\ madeOf(w, Len(w), Phrases) => acknowledges(w)
      BY <3>1, PhrasesSayNothing
    <3>5. case.line.words = w
      BY <2>1 DEF w
    <3> QED  BY <3>2, <3>3, <3>4, <3>5, Zenon DEF SaysNothing, fillers, phrased
  <2>5. ~read("edit") /\ ~read("text")
    BY <2>1 DEF read
  <2> QED  BY <2>3, <2>4, <2>5 DEF WordingInv, OneEdit, TokensAsWritten
<1> QED  BY <1>1, <1>2, <1>3 DEF WordingInd

\* A line is read as it promises, whatever the words: words one edit apart are
\* told by the edit distance, a text falls into the words it was written in,
\* whoever called her before a pause called her, and what says nothing to the
\* gate is made of acknowledgements and fillers (naming.py, noise.py,
\* own_voice.py).
THEOREM LinesReadRight == WordingSpec => []WordingInv
<1>1. WordingInit => WordingInd
  BY WordingStarts
<1>2. WordingInd /\ [WordingNext]_wordingVars => WordingInd'
  BY WordingGoesOn
<1>3. WordingInd => WordingInv
  BY ReadAsPromised
<1> QED  BY <1>1, <1>2, <1>3, PTL DEF WordingSpec
=============================================================================
