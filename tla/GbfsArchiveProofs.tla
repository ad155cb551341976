--------------------------- MODULE GbfsArchiveProofs ---------------------------
(***************************************************************************)
(* Proof that what the raw archive keeps can be loaded: a manifest that    *)
(* stored its own object leaves the disk before the object does.           *)
(***************************************************************************)
EXTENDS GbfsArchive, ListsAndSums, TLAPS

Objects == [kind : {"object"}, body : Bodies]
Manifests == [kind : {"manifest"}, feed : Feeds, at : Nat, cycle : Nat]
Names == Objects \cup Manifests
ObjectFiles == [whole : BOOLEAN, mtime : Nat]
ManifestFiles == [whole : BOOLEAN, body : Bodies \cup {None}, own : BOOLEAN]
Fetched == [feed : Feeds, body : Bodies \cup {None}, at : Nat, stored : BOOLEAN]

\* What is on the disk, and that no manifest is from tomorrow.
FileOK(n, file) ==
  \/ n \in Objects /\ file \in ObjectFiles
  \/ /\ n \in Manifests /\ file \in ManifestFiles
     /\ n.at <= day /\ (file.own => file.body \in Bodies)

DiskOK == /\ IsFiniteSet(DOMAIN disk)
          /\ \A n \in DOMAIN disk : FileOK(n, disk[n])

TypeOK == /\ day \in Nat /\ cycle \in Nat /\ feeds \in Seq(Feeds)
          /\ plan \in [Pruners -> Seq(Names)]
          /\ DiskOK

Writing == pc \in {"object", "object_end"}
Recording == pc \in {"manifest", "manifest_end"}

\* An object that is named o is complete and was written at t or later.
WholeSince(o, t) == disk[o].whole /\ t <= disk[o].mtime

\* What the poller fetched last, and the object it says it stored.
GotOK ==
  /\ Writing \/ Recording => got \in Fetched /\ got.at <= day
  /\ Writing => got.body \in Bodies /\ ~ got.stored
  /\ Recording /\ got.stored =>
       /\ got.body \in Bodies
       /\ LET o == ObjectOf(got.body)
          IN o \in DOMAIN disk => WholeSince(o, got.at)

\* A manifest of the kind the property is about, and the object it names.
Owner(n) == /\ n \in DOMAIN disk /\ n.kind = "manifest" /\ disk[n].own
            /\ \/ disk[n].body.published = None
               \/ disk[n].body.published <= n.at
Owned(n) == ObjectOf(disk[n].body)

\* In the list q the name n comes before o.
Ahead(n, o, q) ==
  \A j \in DOMAIN q : q[j] = o => \E i \in DOMAIN q : i < j /\ q[i] = n

\* The object of an owner is there, whole and not older; and whoever is to
\* remove it removes the owner first.
OwnersOK ==
  \A n : Owner(n) =>
    /\ Owned(n) \in DOMAIN disk /\ WholeSince(Owned(n), n.at)
    /\ \A p \in Pruners : Ahead(n, Owned(n), plan[p])

ArchiveInv == TypeOK /\ GotOK /\ OwnersOK

------------------------------------------------------------------------------
(* The order of the files and what is to be deleted.                       *)

LEMMA PathsOrdered ==
  ASSUME NEW x \in Names, NEW y \in Names, NEW z \in Names
  PROVE  /\ ~ PathBefore(x, x)
         /\ x = y \/ PathBefore(x, y) \/ PathBefore(y, x)
         /\ PathBefore(x, y) /\ PathBefore(y, z) => PathBefore(x, z)
<1>1. \A n \in Objects : n.kind = "object" /\ n.body \in Bodies /\ n.body.hash \in Nat
  BY GbfsArchiveAssumption DEF Objects
<1>2. \A n \in Manifests : /\ n.kind = "manifest" /\ FeedRank[n.feed] \in Nat
                           /\ n.feed \in Feeds /\ n.at \in Nat /\ n.cycle \in Nat
  BY GbfsArchiveAssumption DEF Manifests
<1>3. \A n, m \in Objects : n.body.hash = m.body.hash => n = m
  BY GbfsArchiveAssumption DEF Objects
<1>4. \A n, m \in Manifests :
        n.feed = m.feed /\ n.at = m.at /\ n.cycle = m.cycle => n = m
  BY DEF Manifests
<1>5. \A n, m \in Manifests : FeedRank[n.feed] = FeedRank[m.feed] => n.feed = m.feed
  BY <1>2, GbfsArchiveAssumption
<1>6. ~ PathBefore(x, x)
  BY <1>1, <1>2 DEF PathBefore, Names
<1>7. x = y \/ PathBefore(x, y) \/ PathBefore(y, x)
  BY <1>1, <1>2, <1>3, <1>4, <1>5 DEF PathBefore, Names
<1>8. PathBefore(x, y) /\ PathBefore(y, z) => PathBefore(x, z)
  BY <1>1, <1>2, <1>5 DEF PathBefore, Names
<1> QED
  BY <1>6, <1>7, <1>8

LEMMA AgeTyped ==
  ASSUME TypeOK, NEW n \in DOMAIN disk
  PROVE  n \in Names /\ AgeBasis(n) \in Int
<1>1. CASE n \in Objects /\ disk[n] \in ObjectFiles
  BY <1>1 DEF Objects, ObjectFiles, AgeBasis, Names
<1>2. CASE n \in Manifests /\ disk[n] \in ManifestFiles
  BY <1>2, GbfsArchiveAssumption DEF Manifests, ManifestFiles, AgeBasis, Names
<1> QED
  BY <1>1, <1>2 DEF TypeOK, DiskOK, FileOK

LEMMA OlderOrdered ==
  ASSUME TypeOK, NEW x \in DOMAIN disk, NEW y \in DOMAIN disk, NEW z \in DOMAIN disk
  PROVE  /\ ~ Older(x, x)
         /\ x = y \/ Older(x, y) \/ Older(y, x)
         /\ Older(x, y) /\ Older(y, z) => Older(x, z)
<1> DEFINE a == AgeBasis(x)  b == AgeBasis(y)  c == AgeBasis(z)
<1>1. a \in Int /\ b \in Int /\ c \in Int /\ x \in Names /\ y \in Names /\ z \in Names
  BY AgeTyped
<1>2. /\ ~ PathBefore(x, x)
      /\ x = y \/ PathBefore(x, y) \/ PathBefore(y, x)
      /\ PathBefore(x, y) /\ PathBefore(y, z) => PathBefore(x, z)
  BY <1>1, PathsOrdered
<1>3. /\ Older(x, x) <=> a < a \/ (a = a /\ PathBefore(x, x))
      /\ Older(x, y) <=> a < b \/ (a = b /\ PathBefore(x, y))
      /\ Older(y, x) <=> b < a \/ (b = a /\ PathBefore(y, x))
      /\ Older(y, z) <=> b < c \/ (b = c /\ PathBefore(y, z))
      /\ Older(x, z) <=> a < c \/ (a = c /\ PathBefore(x, z))
  BY DEF Older
<1> HIDE DEF a, b, c
<1> QED
  BY <1>1, <1>2, <1>3

\* The size of a set of files as the sum of their weights.
Weights(S) == [n \in S |-> BytesOf[n.kind]]

LEMMA BytesIsSum ==
  ASSUME NEW S, IsFiniteSet(S)
  PROVE  Bytes(S) = SumOf(Weights(S), S)
<1> DEFINE w == Weights(S)
           H(g) == [s \in SUBSET S |-> IF s = {} THEN 0
                      ELSE BytesOf[Chosen(s).kind] + g[Rest(s)]]
           h == CHOOSE g : g = H(g)
<1>1. Bytes(S) = h[S]
  BY DEF Bytes, FoldSet, MapThenFoldSet, Chosen, Rest
<1>2. \A g : g = H(g) <=> Adds(g, w, S)
  <2> TAKE g
  <2> DEFINE K == [s \in SUBSET S |-> IF s = {} THEN 0 ELSE w[Chosen(s)] + g[Rest(s)]]
  <2>1. \A s \in SUBSET S : s # {} => Chosen(s) \in S
    BY DEF Chosen
  <2>2. \A s \in SUBSET S : H(g)[s] = K[s]
    BY <2>1 DEF Weights
  <2>3. H(g) = K
    BY <2>2
  <2> HIDE DEF H, w
  <2> QED
    BY <2>3 DEF Adds
<1>3. Adds(Adder(w, S), w, S)
  BY AddsExists
<1>4. h = H(h)
  <2>1. \E g : g = H(g)
    BY <1>2, <1>3
  <2> HIDE DEF H
  <2> QED
    BY <2>1
<1> HIDE DEF h, H, w
<1>5. Adds(h, w, S)
  BY <1>2, <1>4
<1>6. h[S] = Adder(w, S)[S]
  BY <1>3, <1>5, AddsAgree
<1> QED
  BY <1>1, <1>6, SumIsFold DEF w

\* More files are no smaller.
LEMMA BytesGrow ==
  ASSUME NEW S, IsFiniteSet(S), NEW T, T \subseteq S, S \subseteq Names
  PROVE  Bytes(T) \in Nat /\ Bytes(S) \in Nat /\ Bytes(T) <= Bytes(S)
<1> DEFINE w == Weights(S)  v == Weights(T)
<1>1. IsFiniteSet(T)
  BY FS_Subset
<1>2. Bytes(S) = SumOf(w, S) /\ Bytes(T) = SumOf(v, T)
  BY <1>1, BytesIsSum
<1>3. \A n \in S : w[n] \in Nat
  <2>1. \A n \in Names : n.kind \in {"manifest", "object"}
    BY DEF Names, Objects, Manifests
  <2> QED
    BY <2>1, GbfsArchiveAssumption DEF Weights
<1>4. \A n \in T : v[n] = w[n]
  BY DEF Weights
<1> HIDE DEF v, w
<1>5. SumOf(v, T) = SumOf(w, T)
  BY <1>1, <1>4, SumSame
<1>6. \A t \in SUBSET S : SumOf(w, t) \in Nat /\ SumOf(w, t) <= SumOf(w, S)
  BY <1>3, SumGrows
<1> QED
  BY <1>2, <1>5, <1>6

\* What is older than a file to be deleted is deleted as well.
LEMMA DeletesOldest ==
  ASSUME TypeOK, NEW o \in DeleteCandidates, NEW n \in DOMAIN disk, Older(n, o)
  PROVE  n \in DeleteCandidates
<1> DEFINE aged == {m \in DOMAIN disk : AgeBasis(m) < day - Retention}
           rest == DOMAIN disk \ aged
           upTo(x) == {m \in rest : m = x \/ Older(m, x)}
           left(x) == rest \ (upTo(x) \ {x})
           over(x) == MaxBytes # NoLimit /\ Bytes(left(x)) > MaxBytes
<1>1. DeleteCandidates = aged \cup {x \in rest : over(x)}
  BY DEF DeleteCandidates
<1>2. o \in DOMAIN disk
  BY <1>1
<1>3. AgeBasis(n) \in Int /\ AgeBasis(o) \in Int /\ AgeBasis(n) <= AgeBasis(o)
  <2>1. AgeBasis(n) \in Int /\ AgeBasis(o) \in Int
    BY <1>2, AgeTyped
  <2> QED
    BY <2>1 DEF Older
<1>4. day - Retention \in Int
  BY GbfsArchiveAssumption DEF TypeOK
<1>5. CASE o \in aged
  BY <1>1, <1>3, <1>4, <1>5
<1>6. CASE o \in rest /\ over(o) /\ n \in rest
  <2>1. left(o) \subseteq left(n) /\ left(n) \subseteq DOMAIN disk
    <3> SUFFICES ASSUME NEW x \in left(o), x \notin left(n) PROVE FALSE
      OBVIOUS
    <3>1. x \in DOMAIN disk /\ x # n /\ Older(x, n) /\ (x = o \/ ~ Older(x, o))
      OBVIOUS
    <3>2. Older(x, o)
      BY <1>2, <3>1, OlderOrdered
    <3>3. x = o
      BY <3>1, <3>2
    <3> QED
      BY <1>2, <3>2, <3>3, OlderOrdered
  <2>2. IsFiniteSet(left(n)) /\ left(n) \subseteq Names
    BY <2>1, FS_Subset, AgeTyped DEF TypeOK, DiskOK
  <2> HIDE DEF left
  <2>3. /\ Bytes(left(o)) \in Nat /\ Bytes(left(n)) \in Nat
        /\ Bytes(left(o)) <= Bytes(left(n))
    BY <2>1, <2>2, BytesGrow
  <2>4. over(n)
    BY <1>6, <2>3, GbfsArchiveAssumption
  <2> QED
    BY <1>1, <1>6, <2>4
<1>7. CASE n \in aged
  BY <1>1, <1>7
<1> QED
  BY <1>1, <1>5, <1>6, <1>7

\* The list of what is to be deleted has all of it, the older files first.
LEMMA PlanListed ==
  ASSUME TypeOK
  PROVE  LET q == InOrder(DeleteCandidates, Older)
         IN /\ q \in Seq(DeleteCandidates) /\ DeleteCandidates \subseteq DOMAIN disk
            /\ \A x \in DeleteCandidates : \E i \in DOMAIN q : q[i] = x
            /\ \A i, j \in DOMAIN q : i < j => Older(q[i], q[j])
<1> DEFINE S == DeleteCandidates
           R == {p \in S \X S : Older(p[1], p[2])}
           q == InOrder(S, Older)
           A(i) == CHOOSE x \in S : Cardinality({y \in S : Older(y, x)}) = i - 1
<1>1. S \subseteq DOMAIN disk
  BY DEF DeleteCandidates
<1>2. IsFiniteSet(S)
  BY <1>1, FS_Subset DEF TypeOK, DiskOK
<1>3. \A x \in S : Rank(R, S, x) = Cardinality({y \in S : Older(y, x)})
  <2>1. \A x \in S : {y \in S : <<y, x>> \in R} = {y \in S : Older(y, x)}
    OBVIOUS
  <2> QED
    BY <2>1 DEF Rank
<1>4. q = [i \in 1..Cardinality(S) |-> A(i)]
  BY DEF InOrder
<1>5. \A i \in 1..Cardinality(S) :
        (\E x \in S : Rank(R, S, x) = i - 1) => A(i) \in S /\ Rank(R, S, A(i)) = i - 1
  <2> HIDE DEF R, S
  <2> QED
    BY <1>3
<1>6. Orders(R, S)
  <2>1. /\ \A x \in S : ~ Older(x, x)
        /\ \A x, y \in S : x = y \/ Older(x, y) \/ Older(y, x)
        /\ \A x, y, z \in S : Older(x, y) /\ Older(y, z) => Older(x, z)
    BY <1>1, OlderOrdered
  <2> HIDE DEF S
  <2> QED
    BY <2>1 DEF Orders
<1>7. \A x, y : <<x, y>> \in R => Older(x, y)
  OBVIOUS
<1> HIDE DEF R, S, q, A
<1>8. Listed(R, S, q)
  BY <1>4, <1>5 DEF Listed
<1>9. /\ q \in Seq(S) /\ Len(q) = Cardinality(S) /\ Cardinality(S) \in Nat
      /\ \A x \in S : \E i \in 1..Len(q) : q[i] = x
      /\ \A i, j \in 1..Len(q) : i < j => <<q[i], q[j]>> \in R
  BY <1>2, <1>6, <1>8, ListedInOrder
<1>10. DOMAIN q = 1..Len(q)
  BY <1>9
<1>11. /\ q \in Seq(S) /\ S \subseteq DOMAIN disk
       /\ \A x \in S : \E i \in DOMAIN q : q[i] = x
       /\ \A i, j \in DOMAIN q : i < j => Older(q[i], q[j])
  BY <1>1, <1>7, <1>9, <1>10
<1> QED
  BY <1>11 DEF q, S

------------------------------------------------------------------------------
(* The steps.                                                              *)

\* An owner's name and the name of its object are not the same.
LEMMA OwnerTyped ==
  ASSUME DiskOK, NEW n, Owner(n)
  PROVE  /\ n \in Manifests /\ disk[n] \in ManifestFiles /\ disk[n].body \in Bodies
         /\ n.at \in Nat /\ n.at <= day
         /\ Owned(n) \in Objects /\ Owned(n).kind = "object" /\ Owned(n) # n
<1>1. FileOK(n, disk[n]) /\ n.kind = "manifest" /\ disk[n].own
  BY DEF Owner, DiskOK
<1>2. n \notin Objects
  BY <1>1 DEF Objects
<1>3. n \in Manifests /\ disk[n] \in ManifestFiles /\ disk[n].body \in Bodies /\ n.at <= day
  BY <1>1, <1>2 DEF FileOK
<1>4. Owned(n) \in Objects /\ Owned(n).kind = "object"
  BY <1>3 DEF Owned, ObjectOf, Objects
<1> QED
  BY <1>1, <1>3, <1>4 DEF Manifests

\* Deleting files or leaving them alone keeps the owners that are left, as long
\* as no object goes before its owner.
LEMMA OwnersLeft ==
  ASSUME OwnersOK, DOMAIN disk' \subseteq DOMAIN disk,
         \A n \in DOMAIN disk' : disk'[n] = disk[n],
         \A n : Owner(n) /\ n \in DOMAIN disk' => Owned(n) \in DOMAIN disk'
  PROVE  \A n : Owner(n)' => /\ Owner(n) /\ Owned(n)' = Owned(n)
                             /\ Owned(n) \in DOMAIN disk'
                             /\ WholeSince(Owned(n), n.at)'
<1> SUFFICES ASSUME NEW n, Owner(n)'
             PROVE  /\ Owner(n) /\ Owned(n)' = Owned(n)
                    /\ Owned(n) \in DOMAIN disk'
                    /\ WholeSince(Owned(n), n.at)'
  OBVIOUS
<1>1. n \in DOMAIN disk' /\ n \in DOMAIN disk /\ disk'[n] = disk[n]
  BY DEF Owner
<1>2. Owner(n) /\ Owned(n)' = Owned(n)
  BY <1>1 DEF Owner, Owned
<1>3. Owned(n) \in DOMAIN disk' /\ WholeSince(Owned(n), n.at)
  BY <1>1, <1>2 DEF OwnersOK
<1>4. disk'[Owned(n)] = disk[Owned(n)]
  BY <1>3
<1>5. Owned(n)' = ObjectOf(disk'[n].body)
  BY DEF Owned
<1>6. WholeSince(Owned(n), n.at)'
  <2>1. disk'[Owned(n)'] = disk[Owned(n)]
    BY <1>2, <1>4
  <2> QED
    BY <1>3, <2>1 DEF WholeSince
<1> QED
  BY <1>2, <1>3, <1>6

\* Steps that leave the disk, the plans and the clock alone.
LEMMA OwnersSame ==
  ASSUME OwnersOK, UNCHANGED <<disk, plan>>
  PROVE  OwnersOK'
<1>1. \A n : Owner(n)' => Owner(n) /\ Owned(n)' = Owned(n)
  BY DEF Owner, Owned
<1>2. \A n : WholeSince(Owned(n), n.at)' <=> WholeSince(Owned(n), n.at)
  BY DEF WholeSince, Owned
<1> QED
  BY <1>1, <1>2 DEF OwnersOK

LEMMA DiskSame ==
  ASSUME DiskOK, UNCHANGED disk, day' \in Nat, day \in Nat, day <= day'
  PROVE  DiskOK'
<1>1. \A n \in DOMAIN disk : FileOK(n, disk[n])'
  <2> TAKE n \in DOMAIN disk
  <2>1. FileOK(n, disk[n])
    BY DEF DiskOK
  <2>2. CASE n \in Objects /\ disk[n] \in ObjectFiles
    BY <2>2 DEF FileOK
  <2>3. CASE /\ n \in Manifests /\ disk[n] \in ManifestFiles
             /\ n.at <= day /\ (disk[n].own => disk[n].body \in Bodies)
    <3>1. n.at \in Nat
      BY <2>3 DEF Manifests
    <3>2. n.at <= day'
      BY <2>3, <3>1
    <3> QED
      BY <2>3, <3>2 DEF FileOK
  <2> QED
    BY <2>1, <2>2, <2>3 DEF FileOK
<1> QED
  BY <1>1 DEF DiskOK

\* One file is written.
LEMMA DiskWith ==
  ASSUME DiskOK, UNCHANGED day, NEW m, NEW file, disk' = With(m, file),
         FileOK(m, file)
  PROVE  /\ DiskOK' /\ DOMAIN disk' = DOMAIN disk \cup {m} /\ disk'[m] = file
         /\ \A n \in DOMAIN disk : n # m => disk'[n] = disk[n]
<1>1. /\ DOMAIN disk' = DOMAIN disk \cup {m} /\ disk'[m] = file
      /\ \A n \in DOMAIN disk : n # m => disk'[n] = disk[n]
  BY DEF With
<1>2. IsFiniteSet(DOMAIN disk')
  BY <1>1, FS_AddElement DEF DiskOK
<1>3. \A n \in DOMAIN disk' : FileOK(n, disk'[n])
  BY <1>1 DEF DiskOK
<1>4. DiskOK'
  BY <1>2, <1>3 DEF DiskOK, FileOK
<1> QED
  BY <1>1, <1>4

LEMMA ArchiveInvInit == Init => ArchiveInv
<1> SUFFICES ASSUME Init PROVE ArchiveInv
  OBVIOUS
<1>1. DOMAIN disk = {}
  BY DEF Init
<1>2. TypeOK
  BY <1>1, FS_EmptySet DEF Init, TypeOK, DiskOK
<1>3. GotOK
  BY DEF Init, GotOK, Writing, Recording
<1>4. OwnersOK
  BY <1>1 DEF OwnersOK, Owner
<1> QED
  BY <1>2, <1>3, <1>4 DEF ArchiveInv

\* The poller is not writing, and the files and the plans are left alone.
LEMMA IdleKeeps ==
  ASSUME ArchiveInv, UNCHANGED <<day, disk, plan>>, pc' \notin
           {"object", "object_end", "manifest", "manifest_end"},
         cycle' \in Nat, feeds' \in Seq(Feeds)
  PROVE  ArchiveInv'
<1>1. TypeOK'
  BY DiskSame DEF ArchiveInv, TypeOK
<1>2. GotOK'
  BY DEF GotOK, Writing, Recording
<1> QED
  BY <1>1, <1>2, OwnersSame DEF ArchiveInv

LEMMA DiscoverKeeps == ArchiveInv /\ Discover => ArchiveInv'
<1> SUFFICES ASSUME ArchiveInv, Discover PROVE ArchiveInv'
  OBVIOUS
<1>1. feeds \in Seq(Feeds) /\ cycle \in Nat
  BY DEF ArchiveInv, TypeOK
<1>2. feeds' \in Seq(Feeds)
  <2>1. CASE UNCHANGED feeds
    BY <1>1, <2>1
  <2>2. ASSUME NEW listed \in SUBSET Feeds, feeds' = SetToSeq(listed)
        PROVE  feeds' \in Seq(Feeds)
    <3>1. /\ IsFiniteSet(listed) /\ Cardinality(listed) \in Nat
          /\ ExistsBijection(1..Cardinality(listed), listed)
      BY FS_Subset, FS_CardinalityType, GbfsArchiveAssumption
    <3>2. \E f \in [1..Cardinality(listed) -> listed] : IsInjective(f)
      BY <3>1 DEF ExistsBijection, Bijection, Injection, IsInjective
    <3>3. SetToSeq(listed) \in [1..Cardinality(listed) -> listed]
      BY <3>2 DEF SetToSeq
    <3> QED
      BY <2>2, <3>1, <3>3
  <2> QED
    BY <2>1, <2>2 DEF Discover
<1>3. /\ UNCHANGED <<day, disk, plan>> /\ cycle' \in Nat
      /\ pc' \notin {"object", "object_end", "manifest", "manifest_end"}
  BY <1>1 DEF Discover, Goto, PollFailed
<1> QED
  BY <1>2, <1>3, IdleKeeps

\* Steps of the poller that write nothing.
LEMMA RestKeeps ==
  ArchiveInv /\ (Callback \/ Wake \/ WriteFails \/ Crash \/ Restart) => ArchiveInv'
<1> SUFFICES ASSUME ArchiveInv, Callback \/ Wake \/ WriteFails \/ Crash \/ Restart
             PROVE  ArchiveInv'
  OBVIOUS
<1>1. feeds \in Seq(Feeds) /\ cycle \in Nat
  BY DEF ArchiveInv, TypeOK
<1>2. /\ UNCHANGED <<day, disk, plan, feeds, cycle>>
      /\ pc' \notin {"object", "object_end", "manifest", "manifest_end"}
  BY DEF Callback, Wake, WriteFails, Crash, Restart, Goto, PollFailed
<1> QED
  BY <1>1, <1>2, IdleKeeps

LEMMA FetchKeeps == ArchiveInv /\ Fetch => ArchiveInv'
<1> SUFFICES ASSUME ArchiveInv, Fetch PROVE ArchiveInv'
  OBVIOUS
<1>1. feeds \in Seq(Feeds) /\ cycle \in Nat /\ day \in Nat /\ feeds # <<>>
  BY DEF ArchiveInv, TypeOK, Fetch
<1>2. Head(feeds) \in Feeds /\ feeds' \in Seq(Feeds)
  BY <1>1 DEF Fetch
<1>3. PICK body \in Bodies \cup {None} :
        /\ got' = [feed |-> Head(feeds), body |-> body, at |-> day, stored |-> FALSE]
        /\ pc' = IF body = None THEN "manifest" ELSE "object"
  BY DEF Fetch, Goto
<1>4. /\ UNCHANGED <<day, disk, plan, cycle>>
  BY DEF Fetch
<1>5. TypeOK'
  BY <1>1, <1>2, <1>4, DiskSame DEF ArchiveInv, TypeOK
<1>6. got' \in Fetched /\ got'.at = day /\ ~ got'.stored /\ got'.body = body
  BY <1>1, <1>2, <1>3 DEF Fetched
<1>7. GotOK'
  BY <1>1, <1>3, <1>4, <1>6 DEF GotOK, Writing, Recording
<1> QED
  BY <1>4, <1>5, <1>7, OwnersSame DEF ArchiveInv

\* The object of the body that was fetched is not an owner.
LEMMA ObjectTyped ==
  ASSUME NEW b \in Bodies
  PROVE  ObjectOf(b) \in Objects /\ ObjectOf(b).kind = "object"
BY DEF ObjectOf, Objects

\* An object is opened where there is none, so no owner has it.
LEMMA OpenObjectKeeps == ArchiveInv /\ OpenObject => ArchiveInv'
<1> SUFFICES ASSUME ArchiveInv, OpenObject PROVE ArchiveInv'
  OBVIOUS
<1> DEFINE o == ObjectOf(got.body)
<1>1. /\ TypeOK /\ DiskOK /\ OwnersOK /\ day \in Nat
      /\ got \in Fetched /\ got.at <= day /\ got.body \in Bodies /\ ~ got.stored
  BY DEF ArchiveInv, TypeOK, OpenObject, GotOK, Writing, Recording
<1>2. UNCHANGED <<day, feeds, got, plan, cycle>>
  BY DEF OpenObject
<1>3. GotOK'
  <2>1. pc' \in {"manifest", "object_end"}
    BY DEF OpenObject, Goto
  <2> QED
    BY <1>1, <1>2, <2>1 DEF GotOK, Writing, Recording
<1>4. CASE o \in DOMAIN disk
  <2>1. UNCHANGED disk
    BY <1>4 DEF OpenObject
  <2> QED
    BY <1>1, <1>2, <1>3, <2>1, DiskSame, OwnersSame DEF ArchiveInv, TypeOK
<1>5. CASE o \notin DOMAIN disk
  <2> DEFINE file == [whole |-> FALSE, mtime |-> day]
  <2>1. disk' = With(o, file)
    BY <1>5 DEF OpenObject
  <2>2. FileOK(o, file) /\ o.kind = "object"
    BY <1>1, ObjectTyped DEF FileOK, ObjectFiles
  <2> HIDE DEF o, file
  <2>3. /\ DiskOK' /\ DOMAIN disk' = DOMAIN disk \cup {o}
        /\ \A n \in DOMAIN disk : n # o => disk'[n] = disk[n]
    BY <1>1, <1>2, <2>1, <2>2, DiskWith
  <2>4. \A n : Owner(n)' => Owner(n) /\ Owned(n)' = Owned(n)
    BY <2>2, <2>3 DEF Owner, Owned
  <2>5. ASSUME NEW n, Owner(n)' PROVE Owned(n) \in DOMAIN disk' /\ WholeSince(Owned(n), n.at)'
    <3>1. Owner(n) /\ Owned(n)' = Owned(n)
      BY <2>4, <2>5
    <3>2. Owned(n) \in DOMAIN disk /\ WholeSince(Owned(n), n.at)
      BY <1>1, <3>1 DEF OwnersOK
    <3>3. disk'[Owned(n)'] = disk[Owned(n)]
      BY <1>5, <2>3, <3>1, <3>2
    <3> QED
      BY <2>3, <3>2, <3>3 DEF WholeSince
  <2>6. OwnersOK'
    BY <1>1, <1>2, <2>4, <2>5 DEF OwnersOK
  <2>7. TypeOK'
    BY <1>1, <1>2, <2>3 DEF TypeOK
  <2> QED
    BY <1>3, <2>6, <2>7 DEF ArchiveInv
<1> QED
  BY <1>4, <1>5

\* The object that is complete is as young as the manifest to come.
LEMMA CloseObjectKeeps == ArchiveInv /\ CloseObject => ArchiveInv'
<1> SUFFICES ASSUME ArchiveInv, CloseObject PROVE ArchiveInv'
  OBVIOUS
<1> DEFINE o == ObjectOf(got.body)  file == [whole |-> TRUE, mtime |-> day]
<1>1. /\ TypeOK /\ DiskOK /\ OwnersOK /\ day \in Nat
      /\ got \in Fetched /\ got.at <= day /\ got.body \in Bodies
  BY DEF ArchiveInv, TypeOK, CloseObject, GotOK, Writing, Recording
<1>2. UNCHANGED <<day, feeds, plan, cycle>> /\ pc' = "manifest"
  BY DEF CloseObject, Goto
<1>3. /\ got' \in Fetched /\ got'.at = got.at /\ got'.body = got.body
  BY <1>1 DEF CloseObject, Fetched
<1>4. FileOK(o, file) /\ o.kind = "object" /\ file.whole /\ file.mtime = day
  BY <1>1, ObjectTyped DEF FileOK, ObjectFiles
<1>5. CASE o \notin DOMAIN disk
  <2>1. UNCHANGED disk
    BY <1>5 DEF CloseObject
  <2>2. GotOK'
    BY <1>1, <1>2, <1>3, <1>5, <2>1 DEF GotOK, Writing, Recording, ObjectOf
  <2> QED
    BY <1>1, <1>2, <2>1, <2>2, DiskSame, OwnersSame DEF ArchiveInv, TypeOK
<1>6. CASE o \in DOMAIN disk
  <2>1. disk' = With(o, file)
    BY <1>6 DEF CloseObject
  <2>2. o' = o
    BY <1>3 DEF ObjectOf
  <2> HIDE DEF o, file
  <2>3. /\ DiskOK' /\ DOMAIN disk' = DOMAIN disk \cup {o} /\ disk'[o] = file
        /\ \A n \in DOMAIN disk : n # o => disk'[n] = disk[n]
    BY <1>1, <1>2, <1>4, <2>1, DiskWith
  <2>4. WholeSince(o, got.at)'
    BY <1>1, <1>3, <1>4, <2>2, <2>3 DEF WholeSince
  <2>5. GotOK'
    BY <1>1, <1>2, <1>3, <2>4 DEF GotOK, Writing, Recording, o
  <2>6. \A n : Owner(n)' => Owner(n) /\ Owned(n)' = Owned(n)
    BY <1>4, <2>3 DEF Owner, Owned
  <2>7. ASSUME NEW n, Owner(n)' PROVE Owned(n) \in DOMAIN disk' /\ WholeSince(Owned(n), n.at)'
    <3>1. Owner(n) /\ Owned(n)' = Owned(n) /\ n.at \in Nat /\ n.at <= day
      BY <1>1, <2>6, <2>7, OwnerTyped
    <3>2. Owned(n) \in DOMAIN disk /\ WholeSince(Owned(n), n.at)
      BY <1>1, <3>1 DEF OwnersOK
    <3>3. disk'[Owned(n)'] = IF Owned(n) = o THEN file ELSE disk[Owned(n)]
      BY <2>3, <3>1, <3>2
    <3> QED
      BY <1>4, <2>3, <3>1, <3>2, <3>3 DEF WholeSince
  <2>8. OwnersOK'
    BY <1>1, <1>2, <2>6, <2>7 DEF OwnersOK
  <2>9. TypeOK'
    BY <1>1, <1>2, <2>3 DEF TypeOK
  <2> QED
    BY <2>5, <2>8, <2>9 DEF ArchiveInv
<1> QED
  BY <1>5, <1>6

\* The manifest says it owns its object only when the object is on the disk,
\* whole, and in nobody's plan.
LEMMA OpenManifestKeeps == ArchiveInv /\ OpenManifest => ArchiveInv'
<1> SUFFICES ASSUME ArchiveInv, OpenManifest PROVE ArchiveInv'
  OBVIOUS
<1> DEFINE m == ManifestOf(got)
           file == [whole |-> FALSE, body |-> got.body, own |-> Own(got)]
           o == ObjectOf(got.body)
<1>1. /\ TypeOK /\ DiskOK /\ OwnersOK /\ day \in Nat /\ cycle \in Nat
      /\ got \in Fetched /\ got.at <= day
      /\ got.stored => got.body \in Bodies /\ (o \in DOMAIN disk => WholeSince(o, got.at))
  BY DEF ArchiveInv, TypeOK, OpenManifest, GotOK, Writing, Recording
<1>2. UNCHANGED <<day, feeds, got, plan, cycle>> /\ pc' = "manifest_end"
  BY DEF OpenManifest, Goto
<1>3. disk' = With(m, file)
  BY DEF OpenManifest
<1>4. Own(got) = (got.stored /\ o \in DOMAIN disk /\ o \notin Planned)
  BY DEF Own
<1>5. /\ m \in Manifests /\ m.kind = "manifest" /\ m.at = got.at
      /\ file.body = got.body /\ file.own = Own(got)
  BY <1>1 DEF ManifestOf, Manifests, Fetched
<1>6. file \in ManifestFiles /\ (file.own => got.stored)
  BY <1>1, <1>4 DEF ManifestFiles, Fetched
<1>7. FileOK(m, file)
  BY <1>1, <1>5, <1>6 DEF FileOK
<1>8. file.own => o \in Objects /\ o \in DOMAIN disk /\ o \notin Planned
                   /\ WholeSince(o, m.at) /\ o.kind = "object" /\ o # m
  BY <1>1, <1>4, <1>5, <1>6, ObjectTyped
<1> HIDE DEF m, file
<1>9. /\ DiskOK' /\ DOMAIN disk' = DOMAIN disk \cup {m} /\ disk'[m] = file
      /\ \A n \in DOMAIN disk : n # m => disk'[n] = disk[n]
  BY <1>1, <1>2, <1>3, <1>7, DiskWith
<1>10. TypeOK'
  BY <1>1, <1>2, <1>9 DEF TypeOK
<1>11. GotOK'
  <2>1. got.stored => got.body \in Bodies /\ (o \in DOMAIN disk' => WholeSince(o, got.at)')
    <3>1. ASSUME got.stored, o \in DOMAIN disk' PROVE WholeSince(o, got.at)'
      <4>1. o # m
        BY <1>1, <1>5, <3>1, ObjectTyped
      <4>2. o \in DOMAIN disk /\ disk'[o] = disk[o]
        BY <1>9, <3>1, <4>1
      <4>3. o' = o
        BY <1>2
      <4> HIDE DEF o
      <4> QED
        BY <1>1, <1>2, <3>1, <4>2, <4>3 DEF WholeSince
    <3> QED
      BY <1>1, <3>1
  <2>2. /\ got' = got /\ day' = day /\ pc' = "manifest_end"
        /\ got \in Fetched /\ got.at <= day
    BY <1>1, <1>2
  <2> QED
    BY <2>1, <2>2 DEF GotOK, Writing, Recording
<1>12. ASSUME NEW n, Owner(n)'
       PROVE  /\ Owned(n)' \in DOMAIN disk' /\ WholeSince(Owned(n), n.at)'
              /\ \A p \in Pruners : Ahead(n, Owned(n)', plan[p])
  <2>1. CASE n = m
    <3>1. file.own /\ Owned(n)' = o
      BY <1>5, <1>9, <1>12, <2>1 DEF Owner, Owned
    <3> HIDE DEF o
    <3>2. o \in DOMAIN disk' /\ disk'[o] = disk[o]
      BY <1>8, <1>9, <3>1
    <3>3. WholeSince(Owned(n), n.at)'
      BY <1>8, <2>1, <3>1, <3>2 DEF WholeSince
    <3>4. \A p \in Pruners : Ahead(n, o, plan[p])
      BY <1>8, <3>1 DEF Ahead, Planned, ToSet
    <3> QED
      BY <3>1, <3>2, <3>3, <3>4
  <2>2. CASE n # m
    <3>1. Owner(n) /\ Owned(n)' = Owned(n)
      BY <1>9, <1>12, <2>2 DEF Owner, Owned
    <3>2. /\ Owned(n) \in DOMAIN disk /\ WholeSince(Owned(n), n.at)
          /\ \A p \in Pruners : Ahead(n, Owned(n), plan[p])
      BY <1>1, <3>1 DEF OwnersOK
    <3>3. Owned(n).kind = "object"
      BY <1>1, <3>1, OwnerTyped
    <3>4. Owned(n) # m
      BY <1>5, <3>3
    <3>5. disk'[Owned(n)'] = disk[Owned(n)]
      BY <1>9, <3>1, <3>2, <3>4
    <3> QED
      BY <1>9, <3>1, <3>2, <3>5 DEF WholeSince
  <2> QED
    BY <2>1, <2>2
<1>13. OwnersOK'
  BY <1>2, <1>12 DEF OwnersOK
<1> QED
  BY <1>10, <1>11, <1>13 DEF ArchiveInv

LEMMA CloseManifestKeeps == ArchiveInv /\ CloseManifest => ArchiveInv'
<1> SUFFICES ASSUME ArchiveInv, CloseManifest PROVE ArchiveInv'
  OBVIOUS
<1> DEFINE m == ManifestOf(got)  file == [disk[m] EXCEPT !.whole = TRUE]
<1>1. /\ TypeOK /\ DiskOK /\ OwnersOK /\ day \in Nat /\ cycle \in Nat
      /\ got \in Fetched
  BY DEF ArchiveInv, TypeOK, CloseManifest, GotOK, Writing, Recording
<1>2. /\ UNCHANGED <<day, feeds, plan, cycle>> /\ pc' \in {"callback", "fetch"}
  BY DEF CloseManifest, Goto
<1>3. GotOK'
  BY <1>2 DEF GotOK, Writing, Recording
<1>4. CASE m \notin DOMAIN disk
  <2>1. UNCHANGED disk
    BY <1>4 DEF CloseManifest
  <2> QED
    BY <1>1, <1>2, <1>3, <2>1, DiskSame, OwnersSame DEF ArchiveInv, TypeOK
<1>5. CASE m \in DOMAIN disk
  <2>1. disk' = With(m, file)
    BY <1>5 DEF CloseManifest
  <2>2. m \in Manifests /\ m \notin Objects /\ m.kind = "manifest"
    BY <1>1 DEF ManifestOf, Manifests, Fetched, Objects
  <2>3. /\ disk[m] \in ManifestFiles /\ m.at <= day
        /\ disk[m].own => disk[m].body \in Bodies
    BY <1>1, <1>5, <2>2 DEF DiskOK, FileOK
  <2>4. /\ file \in ManifestFiles /\ file.own = disk[m].own
        /\ file.body = disk[m].body
    BY <2>3 DEF ManifestFiles
  <2>5. FileOK(m, file)
    BY <2>2, <2>3, <2>4 DEF FileOK
  <2> HIDE DEF m, file
  <2>6. /\ DiskOK' /\ DOMAIN disk' = DOMAIN disk \cup {m} /\ disk'[m] = file
        /\ \A n \in DOMAIN disk : n # m => disk'[n] = disk[n]
    BY <1>1, <1>2, <2>1, <2>5, DiskWith
  <2>7. \A n : Owner(n)' => Owner(n) /\ Owned(n)' = Owned(n)
    BY <1>5, <2>4, <2>6 DEF Owner, Owned
  <2>8. ASSUME NEW n, Owner(n)' PROVE Owned(n) \in DOMAIN disk' /\ WholeSince(Owned(n), n.at)'
    <3>1. Owner(n) /\ Owned(n)' = Owned(n)
      BY <2>7, <2>8
    <3>2. Owned(n) \in DOMAIN disk /\ WholeSince(Owned(n), n.at)
      BY <1>1, <3>1 DEF OwnersOK
    <3>3. Owned(n) # m
      BY <1>1, <2>2, <3>1, OwnerTyped
    <3>4. disk'[Owned(n)'] = disk[Owned(n)]
      BY <2>6, <3>1, <3>2, <3>3
    <3> QED
      BY <2>6, <3>2, <3>4 DEF WholeSince
  <2>9. OwnersOK'
    BY <1>1, <1>2, <2>7, <2>8 DEF OwnersOK
  <2>10. TypeOK'
    BY <1>1, <1>2, <2>6 DEF TypeOK
  <2> QED
    BY <1>3, <2>9, <2>10 DEF ArchiveInv
<1> QED
  BY <1>4, <1>5

\* A plan that has the object of an owner has the owner before it: the manifest
\* is not younger than the object, and of two of an age it comes first.
LEMMA OwnerPlanned ==
  ASSUME TypeOK, OwnersOK, NEW n, Owner(n)
  PROVE  Ahead(n, Owned(n), InOrder(DeleteCandidates, Older))
<1> DEFINE o == Owned(n)  q == InOrder(DeleteCandidates, Older)
<1>1. /\ n \in Manifests /\ disk[n] \in ManifestFiles /\ disk[n].body \in Bodies
      /\ n.at \in Nat /\ n.kind = "manifest" /\ o \in Objects /\ o.kind = "object"
      /\ n \in DOMAIN disk /\ o \in DOMAIN disk /\ n.at <= disk[o].mtime /\ o # n
  BY OwnerTyped DEF TypeOK, OwnersOK, WholeSince, Owner
<1>2. AgeBasis(o) = disk[o].mtime
  BY <1>1 DEF AgeBasis
<1>3. AgeBasis(n) <= n.at
  <2>1. AgeBasis(n) = disk[n].body.published \/ AgeBasis(n) = n.at
    BY <1>1 DEF AgeBasis
  <2>2. disk[n].body.published = None => AgeBasis(n) = n.at
    BY <1>1 DEF AgeBasis
  <2>3. disk[n].body.published = None \/ disk[n].body.published <= n.at
    BY DEF Owner
  <2> QED
    BY <1>1, <2>1, <2>2, <2>3
<1>4. AgeBasis(n) \in Int /\ AgeBasis(o) \in Int
  BY <1>1, AgeTyped
<1>5. PathBefore(n, o)
  BY <1>1 DEF PathBefore
<1>6. Older(n, o)
  <2> DEFINE a == AgeBasis(n)  b == AgeBasis(o)
  <2>1. Older(n, o) <=> a < b \/ (a = b /\ PathBefore(n, o))
    BY DEF Older
  <2>2. a \in Int /\ b \in Int /\ a <= n.at /\ n.at \in Nat /\ n.at <= b
    BY <1>1, <1>2, <1>3, <1>4
  <2> HIDE DEF a, b
  <2> QED
    BY <1>5, <2>1, <2>2
<1>7. /\ q \in Seq(DeleteCandidates) /\ DeleteCandidates \subseteq DOMAIN disk
      /\ \A x \in DeleteCandidates : \E i \in DOMAIN q : q[i] = x
      /\ \A i, j \in DOMAIN q : i < j => Older(q[i], q[j])
  BY PlanListed
<1>8. DOMAIN q \subseteq Nat /\ \A i \in DOMAIN q : q[i] \in DeleteCandidates
  <2> HIDE DEF q
  <2> QED
    BY <1>7
<1> HIDE DEF o, q
<1>9. ASSUME NEW j \in DOMAIN q, q[j] = o
      PROVE  \E i \in DOMAIN q : i < j /\ q[i] = n
  <2>1. n \in DeleteCandidates
    BY <1>1, <1>6, <1>8, <1>9, DeletesOldest
  <2>2. PICK i \in DOMAIN q : q[i] = n
    BY <1>7, <2>1
  <2>3. ~ Older(o, n)
    BY <1>1, <1>6, OlderOrdered
  <2>4. ~ (j < i) /\ i # j
    BY <1>1, <1>7, <1>9, <2>2, <2>3
  <2>5. i < j
    BY <1>8, <2>4
  <2> QED
    BY <2>2, <2>5
<1> QED
  BY <1>9 DEF Ahead, o, q

LEMMA PlanPruneKeeps ==
  ASSUME ArchiveInv, NEW p \in Pruners, PlanPrune(p)
  PROVE  ArchiveInv'
<1> DEFINE q == InOrder(DeleteCandidates, Older)
<1>1. /\ TypeOK /\ DiskOK /\ OwnersOK /\ GotOK /\ plan \in [Pruners -> Seq(Names)]
  BY DEF ArchiveInv, TypeOK
<1>2. /\ UNCHANGED <<day, disk, pc, feeds, got, cycle>>
      /\ plan' = [plan EXCEPT ![p] = q]
  BY DEF PlanPrune, pollVars
<1>3. q \in Seq(Names)
  <2>1. q \in Seq(DeleteCandidates) /\ DeleteCandidates \subseteq DOMAIN disk
    BY <1>1, PlanListed
  <2>2. DOMAIN disk \subseteq Names
    BY <1>1, AgeTyped
  <2> HIDE DEF q
  <2> QED
    BY <2>1, <2>2
<1>4. \A n : Owner(n) => Ahead(n, Owned(n), q)
  BY <1>1, OwnerPlanned
<1> HIDE DEF q
<1>5. TypeOK'
  <2>1. DiskOK'
    BY <1>1, <1>2, DiskSame DEF TypeOK
  <2> QED
    BY <1>1, <1>2, <1>3, <2>1 DEF TypeOK
<1>6. GotOK'
  BY <1>1, <1>2 DEF GotOK, Writing, Recording, WholeSince
<1>7. ASSUME NEW n, Owner(n)'
      PROVE  /\ Owned(n)' \in DOMAIN disk' /\ WholeSince(Owned(n), n.at)'
             /\ \A r \in Pruners : Ahead(n, Owned(n)', plan'[r])
  <2>1. Owner(n) /\ Owned(n)' = Owned(n)
    BY <1>2, <1>7 DEF Owner, Owned
  <2>2. /\ Owned(n) \in DOMAIN disk /\ WholeSince(Owned(n), n.at)
        /\ \A r \in Pruners : Ahead(n, Owned(n), plan[r])
    BY <1>1, <2>1 DEF OwnersOK
  <2>3. \A r \in Pruners : plan'[r] = IF r = p THEN q ELSE plan[r]
    BY <1>1, <1>2
  <2>4. \A r \in Pruners : Ahead(n, Owned(n), plan'[r])
    BY <1>4, <2>1, <2>2, <2>3
  <2> QED
    BY <1>2, <2>1, <2>2, <2>4 DEF WholeSince
<1>8. OwnersOK'
  BY <1>7 DEF OwnersOK, Ahead
<1> QED
  BY <1>5, <1>6, <1>8 DEF ArchiveInv

\* What is left of a plan keeps the order.
LEMMA AheadTail ==
  ASSUME NEW q \in Seq(Names), q # <<>>, NEW n, NEW o, Ahead(n, o, q)
  PROVE  /\ Head(q) # o /\ (Head(q) # n => Ahead(n, o, Tail(q)))
<1>1. Len(q) \in Nat \ {0} /\ DOMAIN q = 1..Len(q) /\ Head(q) = q[1]
  OBVIOUS
<1>2. Head(q) # o
  BY <1>1 DEF Ahead
<1>3. ASSUME Head(q) # n, NEW j \in DOMAIN Tail(q), Tail(q)[j] = o
      PROVE  \E i \in DOMAIN Tail(q) : i < j /\ Tail(q)[i] = n
  <2>1. /\ DOMAIN Tail(q) = 1..(Len(q) - 1)
        /\ \A i \in DOMAIN Tail(q) : Tail(q)[i] = q[i + 1]
    BY <1>1
  <2>2. j + 1 \in DOMAIN q /\ q[j + 1] = o
    BY <1>1, <1>3, <2>1
  <2>3. PICK i \in DOMAIN q : i < j + 1 /\ q[i] = n
    BY <2>2 DEF Ahead
  <2>4. i # 1
    BY <1>1, <1>3, <2>3
  <2>5. i - 1 \in DOMAIN Tail(q) /\ i - 1 < j /\ Tail(q)[i - 1] = n
    BY <1>1, <1>3, <2>1, <2>3, <2>4
  <2> QED
    BY <2>5
<1> QED
  BY <1>2, <1>3 DEF Ahead

\* A pruner comes to the object of an owner only after the owner.
LEMMA UnlinkKeeps ==
  ASSUME ArchiveInv, NEW p \in Pruners, Unlink(p)
  PROVE  ArchiveInv'
<1> DEFINE q == plan[p]  h == Head(q)
<1>1. /\ TypeOK /\ DiskOK /\ OwnersOK /\ GotOK /\ plan \in [Pruners -> Seq(Names)]
      /\ q \in Seq(Names) /\ q # <<>>
  BY DEF ArchiveInv, TypeOK, Unlink
<1>2. /\ UNCHANGED <<day, pc, feeds, got, cycle>>
  BY DEF Unlink, pollVars
<1>3. CASE disk' = Without(h) /\ plan' = [plan EXCEPT ![p] = Tail(q)]
  <2>1. /\ DOMAIN disk' = DOMAIN disk \ {h}
        /\ \A n \in DOMAIN disk' : disk'[n] = disk[n]
    BY <1>3 DEF Without
  <2>2. \A r \in Pruners : plan'[r] = IF r = p THEN Tail(q) ELSE plan[r]
    BY <1>1, <1>3
  <2> HIDE DEF h
  <2>3. \A n : Owner(n) => \A r \in Pruners : Ahead(n, Owned(n), plan[r])
    BY <1>1 DEF OwnersOK
  <2>4. \A n : Owner(n) => /\ h # Owned(n)
                           /\ h # n => Ahead(n, Owned(n), Tail(q))
    BY <1>1, <2>3, AheadTail DEF h
  <2>5. \A n : Owner(n) /\ n \in DOMAIN disk' => Owned(n) \in DOMAIN disk'
    BY <1>1, <2>1, <2>4 DEF OwnersOK
  <2>6. \A n : Owner(n)' => /\ Owner(n) /\ Owned(n)' = Owned(n)
                            /\ Owned(n) \in DOMAIN disk'
                            /\ WholeSince(Owned(n), n.at)'
    BY <1>1, <2>1, <2>5, OwnersLeft
  <2>7. ASSUME NEW n, Owner(n)', NEW r \in Pruners
        PROVE  Ahead(n, Owned(n)', plan'[r])
    <3>1. n # h /\ Owner(n) /\ Owned(n)' = Owned(n)
      BY <2>1, <2>6, <2>7 DEF Owner
    <3> QED
      BY <2>2, <2>3, <2>4, <3>1
  <2>8. OwnersOK'
    BY <2>6, <2>7 DEF OwnersOK, Ahead
  <2>9. DiskOK'
    <3>1. IsFiniteSet(DOMAIN disk')
      BY <1>1, <2>1, FS_Subset DEF DiskOK
    <3>2. \A n \in DOMAIN disk' : FileOK(n, disk'[n])
      BY <1>1, <2>1 DEF DiskOK
    <3> QED
      BY <1>2, <3>1, <3>2 DEF DiskOK, FileOK
  <2>10. TypeOK'
    <3>1. Tail(q) \in Seq(Names)
      BY <1>1
    <3> QED
      BY <1>1, <1>2, <1>3, <2>9, <3>1 DEF TypeOK
  <2>11. GotOK'
    <3> DEFINE o == ObjectOf(got.body)
    <3>1. o \in DOMAIN disk' => o \in DOMAIN disk /\ disk'[o] = disk[o]
      BY <2>1
    <3>2. o' = o
      BY <1>2
    <3> HIDE DEF o
    <3>3. o \in DOMAIN disk' => WholeSince(o, got.at)' = WholeSince(o, got.at)
      BY <1>2, <3>1, <3>2 DEF WholeSince
    <3> QED
      BY <1>1, <1>2, <3>1, <3>2, <3>3 DEF GotOK, Writing, Recording, o
  <2> QED
    BY <2>8, <2>10, <2>11 DEF ArchiveInv
<1>4. CASE disk' = disk /\ plan' = [plan EXCEPT ![p] = <<>>]
  <2>1. \A r \in Pruners : plan'[r] = IF r = p THEN <<>> ELSE plan[r]
    BY <1>1, <1>4
  <2>2. TypeOK'
    <3>1. DiskOK'
      BY <1>1, <1>2, <1>4, DiskSame DEF TypeOK
    <3> QED
      BY <1>1, <1>2, <1>4, <3>1 DEF TypeOK
  <2>3. GotOK'
    BY <1>1, <1>2, <1>4 DEF GotOK, Writing, Recording, WholeSince
  <2>4. ASSUME NEW n, Owner(n)'
        PROVE  /\ Owned(n)' \in DOMAIN disk' /\ WholeSince(Owned(n), n.at)'
               /\ \A r \in Pruners : Ahead(n, Owned(n)', plan'[r])
    <3>1. Owner(n) /\ Owned(n)' = Owned(n)
      BY <1>4, <2>4 DEF Owner, Owned
    <3>2. /\ Owned(n) \in DOMAIN disk /\ WholeSince(Owned(n), n.at)
          /\ \A r \in Pruners : Ahead(n, Owned(n), plan[r])
      BY <1>1, <3>1 DEF OwnersOK
    <3>3. Ahead(n, Owned(n), <<>>)
      BY DEF Ahead
    <3>4. \A r \in Pruners : Ahead(n, Owned(n), plan'[r])
      BY <2>1, <3>2, <3>3
    <3> QED
      BY <1>4, <3>1, <3>2, <3>4 DEF WholeSince
  <2>5. OwnersOK'
    BY <2>4 DEF OwnersOK, Ahead
  <2> QED
    BY <2>2, <2>3, <2>5 DEF ArchiveInv
<1> QED
  BY <1>3, <1>4 DEF Unlink

\* Time passes, or nothing happens.
LEMMA DayKeeps ==
  ASSUME ArchiveInv, NextDay \/ UNCHANGED vars
  PROVE  ArchiveInv'
<1>1. /\ UNCHANGED <<disk, pc, feeds, got, cycle, plan>>
      /\ day \in Nat /\ day' \in Nat /\ day <= day'
  BY DEF ArchiveInv, TypeOK, NextDay, vars, pollVars
<1>2. TypeOK'
  BY <1>1, DiskSame DEF ArchiveInv, TypeOK
<1>3. GotOK'
  <2>1. Writing \/ Recording => got \in Fetched /\ got.at <= day'
    BY <1>1 DEF ArchiveInv, GotOK, Fetched
  <2> QED
    BY <1>1, <2>1 DEF ArchiveInv, GotOK, Writing, Recording, WholeSince
<1> QED
  BY <1>1, <1>2, <1>3, OwnersSame DEF ArchiveInv

THEOREM ArchiveInvariant == Spec => []ArchiveInv
<1>1. ArchiveInv /\ [Next]_vars => ArchiveInv'
  BY DiscoverKeeps, FetchKeeps, OpenObjectKeeps, CloseObjectKeeps,
     OpenManifestKeeps, CloseManifestKeeps, RestKeeps, PlanPruneKeeps,
     UnlinkKeeps, DayKeeps DEF Next, PollStep
<1> QED
  BY ArchiveInvInit, <1>1, PTL DEF Spec

\* A manifest whose own cycle stored the object it names can be loaded for as
\* long as it is kept, whatever is fetched, fails, crashes or is pruned.
THEOREM KeptManifestsLoad == Spec => []KeptManifestIsLoadable
<1>1. ArchiveInv => KeptManifestIsLoadable
  <2> SUFFICES ASSUME ArchiveInv, NEW n \in DOMAIN disk, n.kind = "manifest",
                      disk[n].own,
                      disk[n].body.published = None \/ disk[n].body.published <= n.at
               PROVE  /\ ObjectOf(disk[n].body) \in DOMAIN disk
                      /\ disk[ObjectOf(disk[n].body)].whole
    BY DEF KeptManifestIsLoadable
  <2>1. Owner(n)
    BY DEF Owner
  <2> QED
    BY <2>1 DEF ArchiveInv, OwnersOK, Owned, WholeSince
<1> QED
  BY ArchiveInvariant, <1>1, PTL

==============================================================================
