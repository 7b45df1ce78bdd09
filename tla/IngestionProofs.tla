---------------------------- MODULE IngestionProofs ----------------------------
(***************************************************************************)
(* Theorems about the data loader, for any files, identities, size of      *)
(* batches and numbers of runs and of changes on the dashboard: the        *)
(* variables keep their types, the loader keeps the rows it finds, and a   *)
(* run that nothing disturbed ends in what the files say.                  *)
(*                                                                         *)
(* The argument follows the features that count, in the order of their     *)
(* file.  Their number before a feature is its rank, and the ranks say     *)
(* which batch it belongs to.  The batch in memory always is a run of      *)
(* consecutive ranks from a multiple of the batch size on, so what is      *)
(* upserted at once is exactly what the property calls a batch.            *)
(***************************************************************************)
EXTENDS Ingestion, FiniteSetTheorems, TLAPS

-----------------------------------------------------------------------------
(* The invariant *)

\* The features that count and come before position p, and how many they are.
KeptBefore(n, p) == {q \in Kept(n) : q < p}
Rank(n, p) == Cardinality(KeptBefore(n, p))

\* Every row of the batch of p is one the table takes.
Intact(n, p) ==
    \A q \in Kept(n) : Chunk(n, q) = Chunk(n, p) => Files[n].features[q].fits

\* The identities of the intact batches among the first k features that count.
Arrived(n, k) ==
    {Files[n].features[p].id : p \in {p \in Kept(n) : Rank(n, p) < k /\ Intact(n, p)}}

\* How far a run is in file n: k features that count were handed to the table,
\* whole batches unless it is the end, and the batch b are the ones after them.
HandedOver(n, p, b, k) ==
    /\ k \in Nat /\ Rank(n, p) = k + Len(b)
    /\ (\E c \in 0..k : k = c * BatchSize) \/ (p > Len(Files[n].features) /\ b = <<>>)
    /\ {b[x] : x \in DOMAIN b} =
         {Files[n].features[q] : q \in {q \in KeptBefore(n, p) : Rank(n, q) >= k}}
    /\ \A x, y \in DOMAIN b : b[x].id = b[y].id => x = y

\* The identities met before position p, of features that normalise.
Met(n, p) ==
    {Files[n].features[q].id : q \in {q \in 1..(p - 1) : Files[n].features[q].normal}}

InFile(n, p, b, s) ==
    /\ p \in 1..(Len(Files[n].features) + 1)
    /\ s = Met(n, p)
    /\ HandedOver(n, p, b, Rank(n, p) - Len(b))

ReadsInOrder == Reading => InFile(file, pos, batch, seen)

Types == {Files[n].type : n \in DOMAIN Files}
Cats == UNION {Files[n].cats : n \in DOMAIN Files}
Row == [key : Nat \X Nat, content : DOMAIN Files,
        site_type : Types, categories : SUBSET Cats,
        status : {"draft", "published"}, version : Nat]

Typed ==
    /\ TypeOK
    /\ table \in [DOMAIN table -> Row]
    /\ \A i \in DOMAIN table : table[i].version <= 1 + edits
    /\ batch \in Seq(Feature)
    /\ settled => ~running

\* Nothing is in the table but what some file says.
RowsComeFromFiles(t) ==
    \A i \in DOMAIN t :
        /\ FilesOf(i) # {}
        /\ t[i].categories \subseteq UNION {Files[m].cats : m \in FilesOf(i)}

\* The files that brought i to the table in this run.
BroughtBy(i, n, k) ==
    {m \in DOMAIN Files : \/ m < n /\ i \in Delivered(m)
                          \/ m = n /\ i \in Arrived(n, k)}

\* The row of i is what the last of the files M says, with the categories of all.
IsWhatTheySay(row, M) ==
    /\ row.content \in M /\ \A m \in M : m <= row.content
    /\ row.site_type = Files[row.content].type
    /\ row.status = "draft" /\ row.version = 1
    /\ \A m \in M : Files[m].cats \subseteq row.categories

\* While nothing disturbs a run, the table is what the files read so far say.
AgreesSoFar(t, n, k) ==
    \A i \in Ids : BroughtBy(i, n, k) # {} =>
        i \in DOMAIN t /\ IsWhatTheySay(t[i], BroughtBy(i, n, k))

CleanSoFar ==
    running /\ clean =>
        AgreesSoFar(table, file, IF Reading THEN Rank(file, pos) - Len(batch) ELSE 0)

IInv ==
    /\ Typed /\ ReadsInOrder /\ RowsComeFromFiles(table)
    /\ CleanSoFar /\ CleanRunConverges

-----------------------------------------------------------------------------
(* Files, ranks and batches *)

LEMMA FileFacts ==
    /\ Len(Files) \in Nat /\ DOMAIN Files = 1..Len(Files)
    /\ \A n \in DOMAIN Files :
        /\ Files[n].features \in Seq(Feature)
        /\ Len(Files[n].features) \in Nat
        /\ DOMAIN Files[n].features = 1..Len(Files[n].features)
        /\ \A p \in 1..Len(Files[n].features) : Files[n].features[p] \in Feature
  BY FilesAssumption

\* Files that have an identity in common are loaded into the same table.
LEMMA SameModel ==
    ASSUME NEW n \in DOMAIN Files, NEW m \in DOMAIN Files,
           NEW p \in 1..Len(Files[n].features), NEW q \in 1..Len(Files[m].features),
           Files[n].features[p].id = Files[m].features[q].id
    PROVE  Files[n].model = Files[m].model
  BY FileFacts, FilesAssumption

LEMMA KeptIsFinite ==
    ASSUME NEW n \in DOMAIN Files, NEW p
    PROVE  /\ Kept(n) \subseteq 1..Len(Files[n].features)
           /\ IsFiniteSet(Kept(n)) /\ IsFiniteSet(KeptBefore(n, p))
           /\ Rank(n, p) \in Nat
<1>1. Kept(n) \subseteq 1..Len(Files[n].features)
  BY FileFacts DEF Kept
<1>2. IsFiniteSet(1..Len(Files[n].features))
  <2>1. Len(Files[n].features) \in Int /\ 1 \in Int
    BY FileFacts
  <2> QED BY <2>1, FS_Interval
<1>3. IsFiniteSet(Kept(n))
  BY <1>1, <1>2, FS_Subset
<1>4. IsFiniteSet(KeptBefore(n, p))
  BY <1>3, FS_Subset DEF KeptBefore
<1> QED BY <1>1, <1>3, <1>4, FS_CardinalityType DEF Rank

LEMMA KeptIsNat ==
    ASSUME NEW n \in DOMAIN Files, NEW p \in Kept(n)
    PROVE  p \in Nat /\ p >= 1
<1>1. p \in 1..Len(Files[n].features) /\ Len(Files[n].features) \in Nat
  BY KeptIsFinite, FileFacts
<1> QED BY <1>1

\* The ranks follow the order of the file.
LEMMA RankFollowsOrder ==
    ASSUME NEW n \in DOMAIN Files, NEW p \in Nat, NEW q \in Kept(n)
    PROVE  Rank(n, q) < Rank(n, p) <=> q < p
<1>0. \A x \in Kept(n) : x \in Nat
  BY KeptIsNat
<1>1. q \in Nat /\ Rank(n, p) \in Nat /\ Rank(n, q) \in Nat
  BY KeptIsFinite, FileFacts
<1>2. CASE q < p
  <2>1. KeptBefore(n, q) \subseteq KeptBefore(n, p)
    <3>1. \A x \in Kept(n) : x < q => x < p
      BY <1>0, <1>1, <1>2
    <3> QED BY <3>1 DEF KeptBefore
  <2>2. q \in KeptBefore(n, p) /\ q \notin KeptBefore(n, q)
    BY <1>1, <1>2 DEF KeptBefore
  <2>3. Cardinality(KeptBefore(n, q)) < Cardinality(KeptBefore(n, p))
    <3>1. IsFiniteSet(KeptBefore(n, p)) /\ KeptBefore(n, q) # KeptBefore(n, p)
      BY <2>2, KeptIsFinite
    <3>2. /\ Cardinality(KeptBefore(n, q)) <= Cardinality(KeptBefore(n, p))
          /\ Cardinality(KeptBefore(n, p)) # Cardinality(KeptBefore(n, q))
      BY <2>1, <3>1, FS_Subset, Zenon
    <3> QED BY <1>1, <3>2 DEF Rank
  <2> QED BY <1>2, <2>3 DEF Rank
<1>3. CASE ~(q < p)
  <2>1. KeptBefore(n, p) \subseteq KeptBefore(n, q)
    <3>1. \A x \in Kept(n) : x < p => x < q
      BY <1>0, <1>1, <1>3
    <3> QED BY <3>1 DEF KeptBefore
  <2>2. Cardinality(KeptBefore(n, p)) <= Cardinality(KeptBefore(n, q))
    BY <2>1, KeptIsFinite, FS_Subset
  <2> QED BY <1>1, <1>3, <2>2 DEF Rank
<1> QED BY <1>2, <1>3

\* Passing a feature adds one to the rank if it counts.
LEMMA RankSteps ==
    ASSUME NEW n \in DOMAIN Files, NEW p \in 1..Len(Files[n].features)
    PROVE  /\ KeptBefore(n, p + 1) = KeptBefore(n, p) \cup (Kept(n) \cap {p})
           /\ Rank(n, p + 1) = IF p \in Kept(n) THEN Rank(n, p) + 1 ELSE Rank(n, p)
<1>1. KeptBefore(n, p + 1) = KeptBefore(n, p) \cup (Kept(n) \cap {p})
  <2>1. p \in Nat /\ \A x \in Kept(n) : x \in Nat
    BY KeptIsNat, FileFacts
  <2>2. \A x \in Kept(n) : x < p + 1 <=> x < p \/ x = p
    BY <2>1
  <2> QED BY <2>2 DEF KeptBefore
<1>2. CASE p \in Kept(n)
  <2>1. KeptBefore(n, p + 1) = KeptBefore(n, p) \cup {p} /\ p \notin KeptBefore(n, p)
    BY <1>1, <1>2, FileFacts DEF KeptBefore
  <2> QED BY <1>1, <1>2, <2>1, KeptIsFinite, FS_AddElement DEF Rank
<1>3. CASE p \notin Kept(n)
  <2>1. KeptBefore(n, p + 1) = KeptBefore(n, p)
    BY <1>1, <1>3
  <2> QED BY <1>1, <1>3, <2>1 DEF Rank
<1> QED BY <1>2, <1>3

LEMMA NothingBeforeTheFirst ==
    ASSUME NEW n \in DOMAIN Files
    PROVE  KeptBefore(n, 1) = {} /\ Rank(n, 1) = 0
<1>1. KeptBefore(n, 1) = {}
  <2>1. \A x \in Kept(n) : x \in Nat /\ x >= 1
    BY KeptIsNat
  <2> QED BY <2>1 DEF KeptBefore
<1> QED BY <1>1, FS_EmptySet DEF Rank

\* A feature counts when it is normal and its identity was not seen.
LEMMA KeptIsNew ==
    ASSUME NEW n \in DOMAIN Files, NEW p \in 1..Len(Files[n].features)
    PROVE  p \in Kept(n) <=>
             /\ Files[n].features[p].normal
             /\ Files[n].features[p].id \notin Met(n, p)
  BY FileFacts DEF Kept, Met

\* The identities met grow by that of each feature that normalises.
LEMMA MetGrows ==
    ASSUME NEW n \in DOMAIN Files, NEW p \in 1..Len(Files[n].features)
    PROVE  Met(n, p + 1) = IF Files[n].features[p].normal
                           THEN Met(n, p) \cup {Files[n].features[p].id} ELSE Met(n, p)
<1>1. 1..(p + 1 - 1) = 1..(p - 1) \cup {p}
  BY FileFacts
<1> QED BY <1>1 DEF Met

\* No identity counts twice in a file.
LEMMA KeptHaveTheirIdentity ==
    ASSUME NEW n \in DOMAIN Files, NEW p \in Kept(n), NEW q \in Kept(n),
           Files[n].features[p].id = Files[n].features[q].id
    PROVE  p = q
<1>1. p \in 1..Len(Files[n].features) /\ q \in 1..Len(Files[n].features)
  BY KeptIsFinite
<1>2. ~(p < q) /\ ~(q < p)
  BY <1>1, FileFacts DEF Kept
<1> QED BY <1>1, <1>2, FileFacts

\* The features of a batch are those of BatchSize ranks in a row.
LEMMA ChunkIsRanks ==
    ASSUME NEW n \in DOMAIN Files, NEW q \in Kept(n), NEW c \in Nat
    PROVE  Chunk(n, q) = c <=>
             c * BatchSize <= Rank(n, q) /\ Rank(n, q) < c * BatchSize + BatchSize
<1>1. Chunk(n, q) = Rank(n, q) \div BatchSize
  BY DEF Chunk, Rank, KeptBefore
<1>2. \A r \in Nat, b \in Nat \ {0} :
         r \div b = c <=> c * b <= r /\ r < c * b + b
  OBVIOUS
<1> QED BY <1>1, <1>2, KeptIsFinite, BoundsAssumption

-----------------------------------------------------------------------------
(* Reading a file *)

LEMMA FileBegins ==
    ASSUME NEW n \in DOMAIN Files
    PROVE  InFile(n, 1, <<>>, {}) /\ Rank(n, 1) - Len(<<>>) = 0
<1>1. Rank(n, 1) = 0 /\ KeptBefore(n, 1) = {} /\ Rank(n, 1) - Len(<<>>) = 0
  BY NothingBeforeTheFirst
<1>2. HandedOver(n, 1, <<>>, 0)
  <2>1. 0 \in 0..0 /\ 0 = 0 * BatchSize
    BY BoundsAssumption
  <2> QED BY <1>1, <2>1 DEF HandedOver
<1>3. 1 \in 1..(Len(Files[n].features) + 1) /\ 1..(1 - 1) = {}
  BY FileFacts
<1>4. Met(n, 1) = {}
  BY <1>3 DEF Met
<1> QED BY <1>1, <1>2, <1>3, <1>4 DEF InFile

\* A feature that counts joins the batch.
LEMMA FeatureTaken ==
    ASSUME NEW n \in DOMAIN Files, NEW p \in 1..Len(Files[n].features),
           NEW b \in Seq(Feature), NEW s, InFile(n, p, b, s),
           p \in Kept(n), NEW f, f = Files[n].features[p]
    PROVE  /\ InFile(n, p + 1, Append(b, f), s \cup {f.id})
           /\ Rank(n, p + 1) - Len(Append(b, f)) = Rank(n, p) - Len(b)
<1> DEFINE k == Rank(n, p) - Len(b)
           q == Append(b, f)
<1>1. /\ p \in Nat /\ Len(b) \in Nat /\ Len(q) = Len(b) + 1
      /\ Rank(n, p) \in Nat /\ k \in Nat /\ p <= Len(Files[n].features)
      /\ Len(Files[n].features) \in Nat
  BY FileFacts, KeptIsFinite DEF InFile, HandedOver
<1>2. Rank(n, p + 1) = Rank(n, p) + 1 /\ KeptBefore(n, p + 1) = KeptBefore(n, p) \cup {p}
  BY RankSteps
<1>3. Rank(n, p + 1) - Len(q) = k /\ Rank(n, p + 1) = k + Len(q)
  BY <1>1, <1>2
<1>4. \E c \in 0..k : k = c * BatchSize
  BY <1>1 DEF InFile, HandedOver
<1>5. /\ DOMAIN b = 1..Len(b) /\ DOMAIN q = 1..(Len(b) + 1)
      /\ q[Len(b) + 1] = f /\ \A x \in 1..Len(b) : q[x] = b[x]
  BY <1>1
<1>6. {b[x] : x \in DOMAIN b} =
        {Files[n].features[r] : r \in {r \in KeptBefore(n, p) : Rank(n, r) >= k}}
  BY DEF InFile, HandedOver
<1> HIDE DEF q, k
<1>7. {q[x] : x \in DOMAIN q} = {b[x] : x \in DOMAIN b} \cup {f}
  <2>1. 1..(Len(b) + 1) = 1..Len(b) \cup {Len(b) + 1}
    BY <1>1
  <2> QED BY <1>5, <2>1
<1>8. {r \in KeptBefore(n, p + 1) : Rank(n, r) >= k} =
        {r \in KeptBefore(n, p) : Rank(n, r) >= k} \cup {p}
  <2>1. Rank(n, p) >= k
    BY <1>1 DEF k
  <2> QED BY <1>2, <2>1
<1>9. {q[x] : x \in DOMAIN q} =
        {Files[n].features[r] : r \in {r \in KeptBefore(n, p + 1) : Rank(n, r) >= k}}
  BY <1>6, <1>7, <1>8
<1>10. \A x \in DOMAIN b : b[x].id # f.id
  <2> TAKE x \in DOMAIN b
  <2>1. PICK r \in KeptBefore(n, p) : b[x] = Files[n].features[r]
    BY <1>6
  <2>2. r \in Kept(n) /\ r < p
    BY <2>1 DEF KeptBefore
  <2> QED BY <1>1, <2>1, <2>2, KeptHaveTheirIdentity
<1>11. \A x, y \in DOMAIN q : q[x].id = q[y].id => x = y
  <2>1. \A x, y \in DOMAIN b : b[x].id = b[y].id => x = y
    BY DEF InFile, HandedOver
  <2>2. \A x \in DOMAIN q : x \in DOMAIN b \/ x = Len(b) + 1
    BY <1>1, <1>5
  <2>3. \A x \in DOMAIN b : q[x] = b[x]
    BY <1>5
  <2> QED BY <1>5, <1>10, <2>1, <2>2, <2>3
<1>12. HandedOver(n, p + 1, q, k)
  BY <1>1, <1>3, <1>4, <1>9, <1>11 DEF HandedOver
<1>13. /\ p + 1 \in 1..(Len(Files[n].features) + 1)
       /\ s \cup {f.id} = Met(n, p + 1)
  <2>1. s = Met(n, p) /\ f.normal
    BY KeptIsNew DEF InFile
  <2>2. p + 1 \in 1..(Len(Files[n].features) + 1)
    BY <1>1
  <2>3. Met(n, p + 1) = Met(n, p) \cup {f.id}
    BY <2>1, MetGrows
  <2> QED BY <2>1, <2>2, <2>3
<1>14. HandedOver(n, p + 1, q, Rank(n, p + 1) - Len(q))
  BY <1>3, <1>12
<1>15. InFile(n, p + 1, q, s \cup {f.id})
  BY <1>13, <1>14 DEF InFile
<1> QED BY <1>3, <1>15 DEF q, k

\* A feature that does not count leaves the batch as it is.
LEMMA FeatureSkipped ==
    ASSUME NEW n \in DOMAIN Files, NEW p \in 1..Len(Files[n].features),
           NEW b \in Seq(Feature), NEW s, InFile(n, p, b, s), p \notin Kept(n)
    PROVE  InFile(n, p + 1, b, s) /\ Rank(n, p + 1) - Len(b) = Rank(n, p) - Len(b)
<1> DEFINE k == Rank(n, p) - Len(b)
<1>1. /\ p \in Nat /\ p <= Len(Files[n].features) /\ Len(Files[n].features) \in Nat
      /\ Len(b) \in Nat
  BY FileFacts
<1>2. Rank(n, p + 1) = Rank(n, p) /\ KeptBefore(n, p + 1) = KeptBefore(n, p)
  <2>1. Kept(n) \cap {p} = {}
    OBVIOUS
  <2> QED BY <2>1, RankSteps
<1>0. HandedOver(n, p, b, k)
  BY DEF InFile
<1>3. HandedOver(n, p, b, k) /\ \E c \in 0..k : k = c * BatchSize
  <2> HIDE DEF k
  <2>1. ~(p > Len(Files[n].features))
    BY <1>1
  <2> QED BY <1>0, <2>1 DEF HandedOver
<1>4. HandedOver(n, p + 1, b, k)
  BY <1>2, <1>3 DEF HandedOver
<1>5. s = Met(n, p + 1)
  <2>1. s = Met(n, p)
    BY DEF InFile
  <2>2. Files[n].features[p].normal => Files[n].features[p].id \in Met(n, p)
    BY KeptIsNew
  <2>3. Met(n, p + 1) = Met(n, p)
    BY <2>2, MetGrows
  <2> QED BY <2>1, <2>3
<1>6. p + 1 \in 1..(Len(Files[n].features) + 1)
  BY <1>1
<1>7. HandedOver(n, p + 1, b, Rank(n, p + 1) - Len(b))
  BY <1>2, <1>4
<1>8. InFile(n, p + 1, b, s)
  BY <1>5, <1>6, <1>7 DEF InFile
<1> QED BY <1>2, <1>8

\* A batch that is due is handed over; the run is then where it was.
LEMMA BatchHandedOver ==
    ASSUME NEW n \in DOMAIN Files, NEW p \in Nat, NEW b \in Seq(Feature), NEW s,
           InFile(n, p, b, s), b # <<>>, Len(b) <= BatchSize,
           Len(b) >= BatchSize \/ p > Len(Files[n].features)
    PROVE  InFile(n, p, <<>>, s)
<1> DEFINE k == Rank(n, p) - Len(b)
<1>1. HandedOver(n, p, b, k)
  BY DEF InFile
<1> HIDE DEF k
<1>2. /\ Len(b) \in Nat /\ k \in Nat /\ Rank(n, p) = k + Len(b) /\ Rank(n, p) \in Nat
      /\ BatchSize \in Nat
  BY <1>1, BoundsAssumption, KeptIsFinite DEF HandedOver
<1>3. PICK c \in 0..k : k = c * BatchSize
  BY <1>1 DEF HandedOver
<1>4. (\E d \in 0..Rank(n, p) : Rank(n, p) = d * BatchSize) \/ p > Len(Files[n].features)
  <2>1. CASE Len(b) >= BatchSize
    <3>1. Len(b) = BatchSize /\ Len(b) > 0
      BY <1>2, <2>1, BoundsAssumption
    <3>2. c + 1 \in 0..Rank(n, p)
      BY <1>2, <1>3, <3>1
    <3>3. (c + 1) * BatchSize = c * BatchSize + BatchSize
      BY <1>2, <1>3
    <3>4. Rank(n, p) = (c + 1) * BatchSize
      BY <1>2, <1>3, <3>1, <3>3
    <3> QED BY <3>2, <3>4
  <2> QED BY <2>1
<1>5. {q \in KeptBefore(n, p) : Rank(n, q) >= Rank(n, p)} = {}
  <2> SUFFICES ASSUME NEW q \in KeptBefore(n, p) PROVE ~(Rank(n, q) >= Rank(n, p))
    OBVIOUS
  <2>1. q \in Kept(n) /\ q < p
    BY DEF KeptBefore
  <2> QED BY <1>2, <2>1, RankFollowsOrder, KeptIsFinite
<1>6. HandedOver(n, p, <<>>, Rank(n, p))
  <2>1. /\ DOMAIN <<>> = {} /\ Len(<<>>) = 0 /\ Rank(n, p) = Rank(n, p) + 0
        /\ {<<>>[x] : x \in {}} = {}
    BY <1>2
  <2> QED BY <1>2, <1>4, <1>5, <2>1 DEF HandedOver
<1>7. Rank(n, p) - Len(<<>>) = Rank(n, p)
  BY <1>2
<1> QED BY <1>6, <1>7 DEF InFile

\* What is upserted at once is the whole of one batch of the file.
LEMMA BatchIsChunk ==
    ASSUME NEW n \in DOMAIN Files, NEW p \in Nat, NEW b \in Seq(Feature), NEW s,
           InFile(n, p, b, s), b # <<>>, Len(b) <= BatchSize,
           Len(b) >= BatchSize \/ p > Len(Files[n].features)
    PROVE  LET k == Rank(n, p) - Len(b)
           IN  \E c \in Nat : \A q \in Kept(n) :
                 Chunk(n, q) = c <=> k <= Rank(n, q) /\ Rank(n, q) < Rank(n, p)
<1> DEFINE k == Rank(n, p) - Len(b)
<1>1. HandedOver(n, p, b, k)
  BY DEF InFile
<1> HIDE DEF k
<1>2. /\ Len(b) \in Nat /\ k \in Nat /\ Rank(n, p) = k + Len(b) /\ Rank(n, p) \in Nat
      /\ BatchSize \in Nat
  BY <1>1, BoundsAssumption, KeptIsFinite DEF HandedOver
<1>3. PICK c \in 0..k : k = c * BatchSize
  BY <1>1 DEF HandedOver
<1>4. c \in Nat
  BY <1>2
<1>5. ASSUME NEW q \in Kept(n)
      PROVE  Chunk(n, q) = c <=> k <= Rank(n, q) /\ Rank(n, q) < Rank(n, p)
  <2>1. Chunk(n, q) = c <=> k <= Rank(n, q) /\ Rank(n, q) < k + BatchSize
    BY <1>3, <1>4, ChunkIsRanks
  <2>2. CASE Len(b) >= BatchSize
    BY <1>2, <2>1, <2>2
  <2>3. CASE p > Len(Files[n].features)
    <3>1. q < p
      <4>1. q \in 1..Len(Files[n].features) /\ Len(Files[n].features) \in Nat
        BY KeptIsFinite, FileFacts
      <4> QED BY <2>3, <4>1
    <3>2. Rank(n, q) < Rank(n, p) /\ Rank(n, q) \in Nat
      BY <3>1, RankFollowsOrder, KeptIsFinite
    <3> QED BY <1>2, <2>1, <3>2
  <2> QED BY <2>2, <2>3
<1> QED BY <1>4, <1>5 DEF k

\* So it arrives as a whole, or not at all.
LEMMA BatchArrives ==
    ASSUME NEW n \in DOMAIN Files, NEW p \in Nat, NEW b \in Seq(Feature), NEW s,
           InFile(n, p, b, s), b # <<>>, Len(b) <= BatchSize,
           Len(b) >= BatchSize \/ p > Len(Files[n].features)
    PROVE  Arrived(n, Rank(n, p)) =
             Arrived(n, Rank(n, p) - Len(b))
               \cup (IF \A x \in DOMAIN b : b[x].fits
                     THEN {b[x].id : x \in DOMAIN b} ELSE {})
<1> DEFINE k == Rank(n, p) - Len(b)
           Now == {q \in Kept(n) : k <= Rank(n, q) /\ Rank(n, q) < Rank(n, p)}
<1>1. PICK c \in Nat : \A q \in Kept(n) : Chunk(n, q) = c <=> q \in Now
  BY BatchIsChunk
<1>2. HandedOver(n, p, b, k)
  BY DEF InFile
<1> HIDE DEF k
<1>3. /\ Len(b) \in Nat /\ k \in Nat /\ Rank(n, p) = k + Len(b) /\ Rank(n, p) \in Nat
      /\ \A q \in Kept(n) : Rank(n, q) \in Nat
  BY <1>2, KeptIsFinite DEF HandedOver
<1>4. {b[x] : x \in DOMAIN b} = {Files[n].features[q] : q \in Now}
  <2>1. {b[x] : x \in DOMAIN b} =
          {Files[n].features[q] : q \in {q \in KeptBefore(n, p) : Rank(n, q) >= k}}
    BY <1>2 DEF HandedOver
  <2>2. \A q \in Kept(n) : q \in KeptBefore(n, p) <=> Rank(n, q) < Rank(n, p)
    BY RankFollowsOrder DEF KeptBefore
  <2>3. \A q \in Kept(n) : Rank(n, q) >= k <=> k <= Rank(n, q)
    BY <1>3
  <2>4. {q \in KeptBefore(n, p) : Rank(n, q) >= k} = Now
    BY <2>2, <2>3 DEF KeptBefore
  <2> QED BY <2>1, <2>4
<1> HIDE DEF Now
<1>5. \A q \in Now : q \in Kept(n) /\ (Intact(n, q) <=> \A r \in Now : Files[n].features[r].fits)
  <2>1. \A q \in Now : q \in Kept(n) /\ Chunk(n, q) = c
    BY <1>1 DEF Now
  <2> QED BY <1>1, <2>1 DEF Intact, Now
<1>6. (\A x \in DOMAIN b : b[x].fits) <=> \A r \in Now : Files[n].features[r].fits
  <2>1. \A x \in DOMAIN b : \E r \in Now : b[x] = Files[n].features[r]
    BY <1>4
  <2>2. \A r \in Now : \E x \in DOMAIN b : b[x] = Files[n].features[r]
    BY <1>4
  <2> QED BY <2>1, <2>2
<1>7. {b[x].id : x \in DOMAIN b} = {Files[n].features[q].id : q \in Now}
  <2>1. \A x \in DOMAIN b : \E r \in Now : b[x] = Files[n].features[r]
    BY <1>4
  <2>2. \A r \in Now : \E x \in DOMAIN b : b[x] = Files[n].features[r]
    BY <1>4
  <2> QED BY <2>1, <2>2
<1>8. \A q \in Kept(n) : Rank(n, q) < Rank(n, p) <=> (Rank(n, q) < k \/ q \in Now)
  BY <1>3 DEF Now
<1>9. Arrived(n, Rank(n, p)) =
        Arrived(n, k) \cup {Files[n].features[q].id : q \in {q \in Now : Intact(n, q)}}
  BY <1>5, <1>8 DEF Arrived
<1>10. {Files[n].features[q].id : q \in {q \in Now : Intact(n, q)}} =
         IF \A x \in DOMAIN b : b[x].fits THEN {b[x].id : x \in DOMAIN b} ELSE {}
  <2>1. CASE \A x \in DOMAIN b : b[x].fits
    <3>1. {q \in Now : Intact(n, q)} = Now
      BY <1>5, <1>6, <2>1
    <3> QED BY <1>7, <2>1, <3>1
  <2>2. CASE ~ \A x \in DOMAIN b : b[x].fits
    <3>1. {q \in Now : Intact(n, q)} = {}
      BY <1>5, <1>6, <2>2
    <3> QED BY <2>2, <3>1
  <2> QED BY <2>1, <2>2
<1> QED BY <1>9, <1>10 DEF k

\* At the end of a file everything that can arrive has.
LEMMA FileEnds ==
    ASSUME NEW n \in DOMAIN Files, NEW p \in Nat, p > Len(Files[n].features)
    PROVE  Arrived(n, Rank(n, p)) = Delivered(n)
<1>1. \A q \in Kept(n) : Rank(n, q) < Rank(n, p)
  <2> TAKE q \in Kept(n)
  <2>1. q \in 1..Len(Files[n].features) /\ Len(Files[n].features) \in Nat
    BY KeptIsFinite, FileFacts
  <2>2. q < p
    BY <2>1
  <2> QED BY <2>2, RankFollowsOrder
<1>2. {q \in Kept(n) : Rank(n, q) < Rank(n, p) /\ Intact(n, q)} =
        {q \in Kept(n) : \A r \in Kept(n) :
            Chunk(n, r) = Chunk(n, q) => Files[n].features[r].fits}
  BY <1>1 DEF Intact
<1> QED BY <1>2 DEF Arrived, Delivered

LEMMA NothingYet ==
    ASSUME NEW n \in DOMAIN Files
    PROVE  Arrived(n, 0) = {}
<1>1. \A q \in Kept(n) : ~(Rank(n, q) < 0)
  <2> TAKE q \in Kept(n)
  <2>1. Rank(n, q) \in Nat
    BY KeptIsFinite
  <2> QED BY <2>1
<1> QED BY <1>1 DEF Arrived

-----------------------------------------------------------------------------
(* What a run has brought *)

LEMMA DeliveredAreFeatures ==
    ASSUME NEW n \in DOMAIN Files, NEW i \in Delivered(n)
    PROVE  \E p \in 1..Len(Files[n].features) : Files[n].features[p].id = i
<1>1. PICK p \in Kept(n) : Files[n].features[p].id = i
  BY DEF Delivered
<1> QED BY <1>1, KeptIsFinite

LEMMA FilesOfAgree ==
    ASSUME NEW i, NEW n \in FilesOf(i), NEW m \in FilesOf(i)
    PROVE  Files[n].model = Files[m].model
<1>1. n \in DOMAIN Files /\ m \in DOMAIN Files /\ i \in Delivered(n) /\ i \in Delivered(m)
  BY DEF FilesOf
<1> QED BY <1>1, DeliveredAreFeatures, SameModel

LEMMA BroughtAtStart ==
    ASSUME NEW i
    PROVE  BroughtBy(i, 1, 0) = {}
  BY FileFacts, NothingYet DEF BroughtBy

LEMMA BroughtIsDelivered ==
    ASSUME NEW i, NEW n, NEW k
    PROVE  BroughtBy(i, n, k) \subseteq FilesOf(i)
<1>1. \A m \in DOMAIN Files : Arrived(m, k) \subseteq Delivered(m)
  BY DEF Arrived, Delivered, Intact
<1> QED BY <1>1 DEF BroughtBy, FilesOf

\* At the end of a file the run is where it is before the next one.
LEMMA BroughtAcross ==
    ASSUME NEW i, NEW n \in DOMAIN Files, NEW p \in Nat, p > Len(Files[n].features)
    PROVE  BroughtBy(i, n + 1, 0) = BroughtBy(i, n, Rank(n, p))
<1>1. \A m \in DOMAIN Files : m \in Nat
  BY FileFacts
<1>2. \A m \in DOMAIN Files : m < n + 1 <=> m < n \/ m = n
  BY <1>1
<1>3. Arrived(n, Rank(n, p)) = Delivered(n)
  BY FileEnds
<1>4. \A m \in DOMAIN Files : Arrived(m, 0) = {}
  BY NothingYet
<1> QED BY <1>2, <1>3, <1>4 DEF BroughtBy

LEMMA BroughtInTheEnd ==
    ASSUME NEW i, NEW n \in Nat, n > Len(Files)
    PROVE  BroughtBy(i, n, 0) = FilesOf(i)
<1>1. \A m \in DOMAIN Files : m < n
  BY FileFacts
<1> QED BY <1>1, FileFacts DEF BroughtBy, FilesOf

\* An upsert brings its file to the identities in the batch, if all its rows fit.
LEMMA BroughtByBatch ==
    ASSUME NEW n \in DOMAIN Files, NEW p \in Nat, NEW b \in Seq(Feature), NEW s,
           InFile(n, p, b, s), b # <<>>, Len(b) <= BatchSize,
           Len(b) >= BatchSize \/ p > Len(Files[n].features), NEW i
    PROVE  BroughtBy(i, n, Rank(n, p)) =
             BroughtBy(i, n, Rank(n, p) - Len(b))
               \cup (IF (\A x \in DOMAIN b : b[x].fits) /\ i \in {b[x].id : x \in DOMAIN b}
                     THEN {n} ELSE {})
<1>1. i \in Arrived(n, Rank(n, p)) <=>
        \/ i \in Arrived(n, Rank(n, p) - Len(b))
        \/ (\A x \in DOMAIN b : b[x].fits) /\ i \in {b[x].id : x \in DOMAIN b}
  BY BatchArrives
<1> QED BY <1>1 DEF BroughtBy

-----------------------------------------------------------------------------
(* The upsert *)

LEMMA FreshIs ==
    ASSUME NEW n \in DOMAIN Files
    PROVE  /\ Fresh(n).key = <<runs, n>> /\ Fresh(n).content = n
           /\ Fresh(n).site_type = Files[n].type /\ Fresh(n).categories = Files[n].cats
           /\ Fresh(n).status = "draft" /\ Fresh(n).version = 1
           /\ runs \in Nat => Fresh(n) \in Row
  BY FileFacts DEF Fresh, Row, Types, Cats

LEMMA OntoIs ==
    ASSUME NEW n \in DOMAIN Files, NEW old \in Row
    PROVE  /\ Onto(old, n).key = old.key /\ Onto(old, n).content = n
           /\ Onto(old, n).site_type = Files[n].type
           /\ Onto(old, n).categories =
                IF Files[n].model = "Site" THEN old.categories \cup Files[n].cats
                                           ELSE Files[n].cats
           /\ Onto(old, n).status = "draft" /\ Onto(old, n).version = 1
           /\ Onto(old, n) \in Row
<1> DEFINE cs == IF Files[n].model = "Site" THEN old.categories \cup Files[n].cats
                                            ELSE Files[n].cats
<1>1. Onto(old, n) = [Fresh(n) EXCEPT !.key = old.key, !.categories = cs]
  BY DEF Onto, Fresh
<1>2. cs \in SUBSET Cats /\ Files[n].type \in Types
  BY DEF Row, Cats, Types
<1> HIDE DEF cs
<1>3. Onto(old, n) = [key |-> old.key, content |-> n, site_type |-> Files[n].type,
                      categories |-> cs, status |-> "draft", version |-> 1]
  BY <1>1 DEF Fresh
<1>4. Onto(old, n) \in Row
  BY <1>2, <1>3 DEF Row
<1> QED BY <1>3, <1>4 DEF cs

\* A batch that is due, as far as the table is concerned.
LEMMA DueBatch ==
    ASSUME Typed, ReadsInOrder, Due
    PROVE  /\ file \in DOMAIN Files /\ pos \in Nat /\ batch \in Seq(Feature)
           /\ InFile(file, pos, batch, seen) /\ batch # <<>> /\ Len(batch) <= BatchSize
           /\ Len(batch) >= BatchSize \/ pos > Len(Files[file].features)
           /\ InBatch = {batch[x].id : x \in DOMAIN batch}
           /\ InBatch \subseteq Ids
           /\ \A i \in InBatch : \E p \in 1..Len(Files[file].features) :
                Files[file].features[p].id = i
<1>1. /\ file \in DOMAIN Files /\ pos \in Nat /\ batch \in Seq(Feature)
      /\ InFile(file, pos, batch, seen) /\ batch # <<>> /\ Len(batch) <= BatchSize
      /\ Len(batch) >= BatchSize \/ pos > Len(Files[file].features)
      /\ InBatch = {batch[x].id : x \in DOMAIN batch}
  BY DEF Typed, TypeOK, ReadsInOrder, Due, Reading, Features, InBatch
<1>2. InBatch \subseteq Ids
  <2>1. \A x \in DOMAIN batch : batch[x] \in Feature
    BY <1>1
  <2> QED BY <1>1, <2>1 DEF Feature
<1>3. ASSUME NEW i \in InBatch
      PROVE  \E p \in 1..Len(Files[file].features) : Files[file].features[p].id = i
  <2>1. PICK x \in DOMAIN batch : batch[x].id = i
    BY <1>1
  <2>2. PICK q \in KeptBefore(file, pos) : Files[file].features[q] = batch[x]
    <3>1. {batch[y] : y \in DOMAIN batch} \subseteq
            {Files[file].features[q] : q \in KeptBefore(file, pos)}
      BY <1>1 DEF InFile, HandedOver
    <3> QED BY <3>1
  <2>3. q \in 1..Len(Files[file].features)
    BY <1>1, <2>2, KeptIsFinite DEF KeptBefore
  <2> QED BY <2>1, <2>2, <2>3
<1> QED BY <1>1, <1>2, <1>3

\* It is acceptable exactly when all its rows fit: no identity is in it twice.
LEMMA AcceptableFits ==
    ASSUME Typed, ReadsInOrder, Due
    PROVE  Acceptable <=> \A x \in DOMAIN batch : batch[x].fits
<1>1. \A x, y \in DOMAIN batch : batch[x].id = batch[y].id => x = y
  BY DueBatch DEF InFile, HandedOver
<1>2. Len(batch) \in Nat /\ DOMAIN batch = 1..Len(batch)
  BY DueBatch
<1>3. Cardinality(InBatch) = Len(batch)
  <2> DEFINE f == [x \in 1..Len(batch) |-> batch[x].id]
  <2>1. f \in Bijection(1..Len(batch), InBatch)
    <3>1. f \in [1..Len(batch) -> InBatch]
      BY <1>2 DEF InBatch
    <3>2. \A x, y \in 1..Len(batch) : f[x] = f[y] => x = y
      BY <1>1, <1>2
    <3>3. \A i \in InBatch : \E x \in 1..Len(batch) : f[x] = i
      BY <1>2 DEF InBatch
    <3> HIDE DEF f
    <3>4. f \in Injection(1..Len(batch), InBatch)
      BY <3>1, <3>2 DEF Injection, IsInjective
    <3>5. f \in Surjection(1..Len(batch), InBatch)
      BY <3>1, <3>3 DEF Surjection
    <3> QED BY <3>4, <3>5 DEF Bijection
  <2>2. ExistsBijection(1..Len(batch), InBatch)
    BY <2>1 DEF ExistsBijection
  <2>3. IsFiniteSet(1..Len(batch)) /\ Cardinality(1..Len(batch)) = Len(batch)
    <3>1. 1 \in Int /\ Len(batch) \in Int
      BY <1>2
    <3>2. /\ IsFiniteSet(1..Len(batch))
          /\ Cardinality(1..Len(batch)) = IF 1 > Len(batch) THEN 0 ELSE Len(batch) - 1 + 1
      BY <3>1, FS_Interval
    <3> QED BY <1>2, <3>2
  <2> QED BY <2>2, <2>3, FS_Bijection
<1> QED BY <1>3 DEF Acceptable

LEMMA UpsertedRows ==
    ASSUME Typed, ReadsInOrder, Due
    PROVE  /\ DOMAIN Upserted = DOMAIN table \cup InBatch
           /\ \A i \in DOMAIN Upserted :
                Upserted[i] = IF i \notin InBatch THEN table[i]
                              ELSE IF i \in DOMAIN table THEN Onto(table[i], file)
                              ELSE Fresh(file)
           /\ Upserted \in [DOMAIN Upserted -> Row] /\ DOMAIN Upserted \subseteq Ids
           /\ \A i \in DOMAIN Upserted : Upserted[i].version <= 1 + edits
<1>1. /\ DOMAIN Upserted = DOMAIN table \cup InBatch
      /\ \A i \in DOMAIN Upserted :
           Upserted[i] = IF i \notin InBatch THEN table[i]
                         ELSE IF i \in DOMAIN table THEN Onto(table[i], file)
                         ELSE Fresh(file)
      /\ Upserted = [i \in DOMAIN Upserted |-> Upserted[i]]
  BY DEF Upserted
<1>2. /\ file \in DOMAIN Files /\ runs \in Nat /\ edits \in Nat
      /\ DOMAIN table \subseteq Ids /\ InBatch \subseteq Ids
      /\ \A i \in DOMAIN table : table[i] \in Row /\ table[i].version <= 1 + edits
  BY DueBatch DEF Typed, TypeOK
<1>3. ASSUME NEW i \in DOMAIN Upserted
      PROVE  Upserted[i] \in Row /\ Upserted[i].version <= 1 + edits
  <2>1. CASE i \notin InBatch
    BY <1>1, <1>2, <1>3, <2>1
  <2>2. CASE i \in InBatch /\ i \in DOMAIN table
    <3>1. Upserted[i] = Onto(table[i], file)
      BY <1>1, <1>3, <2>2
    <3>2. Onto(table[i], file) \in Row /\ Onto(table[i], file).version = 1
      BY <1>2, <2>2, OntoIs, Zenon
    <3> QED BY <1>2, <3>1, <3>2
  <2>3. CASE i \in InBatch /\ i \notin DOMAIN table
    <3>1. Upserted[i] = Fresh(file)
      BY <1>1, <1>3, <2>3
    <3> QED BY <1>2, <3>1, FreshIs
  <2> QED BY <2>1, <2>2, <2>3
<1> QED BY <1>1, <1>2, <1>3

\* The upsert brings nothing but what the files say.
LEMMA UpsertComesFromFiles ==
    ASSUME Typed, ReadsInOrder, RowsComeFromFiles(table), Due, Acceptable
    PROVE  RowsComeFromFiles(Upserted)
<1> SUFFICES ASSUME NEW i \in DOMAIN Upserted
             PROVE  /\ FilesOf(i) # {}
                    /\ Upserted[i].categories \subseteq UNION {Files[m].cats : m \in FilesOf(i)}
  BY DEF RowsComeFromFiles
<1>1. CASE i \notin InBatch
  BY <1>1, UpsertedRows DEF RowsComeFromFiles
<1>2. CASE i \in InBatch
  <2>1. file \in FilesOf(i)
    <3>1. file \in BroughtBy(i, file, Rank(file, pos))
      BY <1>2, DueBatch, AcceptableFits, BroughtByBatch
    <3> QED BY <3>1, BroughtIsDelivered
  <2>2. file \in DOMAIN Files
    BY DueBatch
  <2>3. CASE i \in DOMAIN table
    <3>1. /\ Upserted[i] = Onto(table[i], file) /\ table[i] \in Row
          /\ table[i].categories \subseteq UNION {Files[m].cats : m \in FilesOf(i)}
      BY <1>2, <2>3, UpsertedRows DEF Typed, RowsComeFromFiles
    <3>2. Upserted[i].categories \subseteq table[i].categories \cup Files[file].cats
      <4>1. Onto(table[i], file).categories =
              IF Files[file].model = "Site" THEN table[i].categories \cup Files[file].cats
                                            ELSE Files[file].cats
        BY <2>2, <3>1, OntoIs, Zenon
      <4> QED BY <3>1, <4>1
    <3> QED BY <2>1, <3>1, <3>2
  <2>4. CASE i \notin DOMAIN table
    <3>1. Upserted[i] = Fresh(file)
      BY <1>2, <2>4, UpsertedRows
    <3>2. Upserted[i].categories = Files[file].cats
      BY <2>2, <3>1, FreshIs
    <3> QED BY <2>1, <3>2
  <2> QED BY <2>3, <2>4
<1> QED BY <1>1, <1>2

\* It keeps the keys and the categories of the rows it finds: only sites have
\* categories, and an identity is always loaded into the same table.
LEMMA UpsertKeepsRows ==
    ASSUME Typed, ReadsInOrder, RowsComeFromFiles(table), Due, NEW i \in DOMAIN table
    PROVE  /\ i \in DOMAIN Upserted /\ Upserted[i].key = table[i].key
           /\ table[i].categories \subseteq Upserted[i].categories
<1>1. i \in DOMAIN Upserted /\ file \in DOMAIN Files /\ table[i] \in Row
  BY UpsertedRows, DueBatch DEF Typed
<1>2. CASE i \notin InBatch
  BY <1>1, <1>2, UpsertedRows
<1>3. CASE i \in InBatch
  <2>0. Upserted[i] = Onto(table[i], file)
    BY <1>1, <1>3, UpsertedRows
  <2>1. /\ Upserted[i].key = table[i].key
        /\ Upserted[i].categories =
             IF Files[file].model = "Site" THEN table[i].categories \cup Files[file].cats
                                           ELSE Files[file].cats
    <3>1. /\ Onto(table[i], file).key = table[i].key
          /\ Onto(table[i], file).categories =
               IF Files[file].model = "Site" THEN table[i].categories \cup Files[file].cats
                                             ELSE Files[file].cats
      BY <1>1, OntoIs, Zenon
    <3> QED BY <2>0, <3>1
  <2>2. CASE Files[file].model = "Site"
    BY <1>1, <2>1, <2>2
  <2>3. CASE Files[file].model # "Site"
    <3>1. \A m \in FilesOf(i) : Files[m].cats = {}
      <4> TAKE m \in FilesOf(i)
      <4>1. m \in DOMAIN Files /\ i \in Delivered(m)
        BY DEF FilesOf
      <4>2. Files[m].model = Files[file].model
        BY <1>1, <1>3, <4>1, DueBatch, DeliveredAreFeatures, SameModel
      <4> QED BY <2>3, <4>1, <4>2, FilesAssumption
    <3>2. table[i].categories = {}
      BY <3>1 DEF RowsComeFromFiles
    <3> QED BY <1>1, <2>1, <3>2
  <2> QED BY <2>2, <2>3
<1> QED BY <1>2, <1>3

\* It brings the table to what the files say with this batch.
LEMMA UpsertAgrees ==
    ASSUME Typed, ReadsInOrder, RowsComeFromFiles(table), Due, Acceptable,
           AgreesSoFar(table, file, Rank(file, pos) - Len(batch))
    PROVE  AgreesSoFar(Upserted, file, Rank(file, pos))
<1> DEFINE Old(i) == BroughtBy(i, file, Rank(file, pos) - Len(batch))
           New(i) == BroughtBy(i, file, Rank(file, pos))
<1>1. file \in DOMAIN Files /\ file \in Nat
  BY DueBatch, FileFacts
<1>2. \A i \in Ids : New(i) = Old(i) \cup (IF i \in InBatch THEN {file} ELSE {})
  BY DueBatch, AcceptableFits, BroughtByBatch
<1>3. \A i \in Ids : Old(i) # {} => i \in DOMAIN table /\ IsWhatTheySay(table[i], Old(i))
  BY DEF AgreesSoFar
<1>4. \A i \in Ids : \A m \in Old(i) : m \in Nat /\ m <= file /\ m \in DOMAIN Files
  BY <1>1, FileFacts DEF BroughtBy
<1> HIDE DEF Old, New
<1>5. ASSUME NEW i \in Ids, New(i) # {}
      PROVE  i \in DOMAIN Upserted /\ IsWhatTheySay(Upserted[i], New(i))
  <2>1. CASE i \notin InBatch
    <3>1. New(i) = Old(i)
      BY <1>2, <2>1
    <3>2. i \in DOMAIN table /\ i \in DOMAIN Upserted /\ Upserted[i] = table[i]
      BY <1>3, <1>5, <2>1, <3>1, UpsertedRows
    <3> QED BY <1>3, <1>5, <3>1, <3>2
  <2>2. CASE i \in InBatch
    <3>1. i \in DOMAIN Upserted /\ New(i) = Old(i) \cup {file}
      BY <1>2, <2>2, UpsertedRows
    <3>2. \A m \in New(i) : m <= file
      BY <1>1, <1>4, <3>1
    <3>3. /\ Upserted[i].content = file /\ Upserted[i].site_type = Files[file].type
          /\ Upserted[i].status = "draft" /\ Upserted[i].version = 1
          /\ Files[file].cats \subseteq Upserted[i].categories
      <4>1. CASE i \in DOMAIN table
        <5>1. Upserted[i] = Onto(table[i], file) /\ table[i] \in Row
          BY <2>2, <4>1, UpsertedRows DEF Typed
        <5>2. /\ Onto(table[i], file).content = file
              /\ Onto(table[i], file).site_type = Files[file].type
              /\ Onto(table[i], file).status = "draft" /\ Onto(table[i], file).version = 1
              /\ Onto(table[i], file).categories =
                   IF Files[file].model = "Site" THEN table[i].categories \cup Files[file].cats
                                                 ELSE Files[file].cats
          BY <1>1, <5>1, OntoIs, Zenon
        <5> QED BY <5>1, <5>2
      <4>2. CASE i \notin DOMAIN table
        <5>1. Upserted[i] = Fresh(file)
          BY <2>2, <3>1, <4>2, UpsertedRows
        <5> QED BY <1>1, <5>1, FreshIs
      <4> QED BY <4>1, <4>2
    <3>4. \A m \in Old(i) : Files[m].cats \subseteq Upserted[i].categories
      <4> TAKE m \in Old(i)
      <4>1. i \in DOMAIN table /\ Files[m].cats \subseteq table[i].categories
        BY <1>3 DEF IsWhatTheySay
      <4> QED BY <4>1, UpsertKeepsRows
    <3>5. \A m \in New(i) : Files[m].cats \subseteq Upserted[i].categories
      BY <3>1, <3>3, <3>4
    <3> QED BY <3>1, <3>2, <3>3, <3>5 DEF IsWhatTheySay
  <2> QED BY <2>1, <2>2
<1> QED BY <1>5 DEF AgreesSoFar, New

\* A batch that is refused as a whole leaves the table what the files say.
LEMMA RefusalAgrees ==
    ASSUME Typed, ReadsInOrder, Due, ~Acceptable,
           AgreesSoFar(table, file, Rank(file, pos) - Len(batch))
    PROVE  AgreesSoFar(table, file, Rank(file, pos))
<1>1. \A i \in Ids : BroughtBy(i, file, Rank(file, pos)) =
                     BroughtBy(i, file, Rank(file, pos) - Len(batch))
  <2> TAKE i \in Ids
  <2>1. BroughtBy(i, file, Rank(file, pos)) =
          BroughtBy(i, file, Rank(file, pos) - Len(batch))
            \cup (IF (\A x \in DOMAIN batch : batch[x].fits)
                      /\ i \in {batch[x].id : x \in DOMAIN batch}
                  THEN {file} ELSE {})
    BY DueBatch, BroughtByBatch
  <2>2. ~ \A x \in DOMAIN batch : batch[x].fits
    BY AcceptableFits
  <2> QED BY <2>1, <2>2
<1> QED BY <1>1 DEF AgreesSoFar

\* At the end of a run that agrees with all files the table has converged.
LEMMA AgreementConverges ==
    ASSUME Typed, RowsComeFromFiles(table), AgreesSoFar(table, file, 0),
           file > Len(Files)
    PROVE  /\ DOMAIN table = {i \in Ids : FilesOf(i) # {}}
           /\ \A i \in DOMAIN table :
                LET n == LastFileOf(i) IN
                /\ table[i].content = n /\ table[i].site_type = Files[n].type
                /\ table[i].categories =
                     IF Files[n].model = "Site"
                     THEN UNION {Files[m].cats : m \in FilesOf(i)}
                     ELSE Files[n].cats
                /\ table[i].status = "draft" /\ table[i].version = 1
<1>1. \A i \in Ids : BroughtBy(i, file, 0) = FilesOf(i)
  <2>1. file \in Nat
    BY FileFacts DEF Typed, TypeOK
  <2> QED BY <2>1, BroughtInTheEnd
<1>2. \A i \in Ids : FilesOf(i) # {} => i \in DOMAIN table /\ IsWhatTheySay(table[i], FilesOf(i))
  BY <1>1 DEF AgreesSoFar
<1>3. DOMAIN table \subseteq Ids /\ \A i \in DOMAIN table : FilesOf(i) # {}
  BY DEF Typed, TypeOK, RowsComeFromFiles
<1>4. DOMAIN table = {i \in Ids : FilesOf(i) # {}}
  BY <1>2, <1>3
<1>5. ASSUME NEW i \in DOMAIN table
      PROVE  /\ LastFileOf(i) = table[i].content
             /\ table[i].site_type = Files[LastFileOf(i)].type
             /\ table[i].categories =
                  IF Files[LastFileOf(i)].model = "Site"
                  THEN UNION {Files[m].cats : m \in FilesOf(i)}
                  ELSE Files[LastFileOf(i)].cats
             /\ table[i].status = "draft" /\ table[i].version = 1
  <2> DEFINE n == table[i].content
  <2>1. IsWhatTheySay(table[i], FilesOf(i))
    BY <1>2, <1>3
  <2>2. n \in FilesOf(i) /\ \A m \in FilesOf(i) : m <= n
    BY <2>1 DEF IsWhatTheySay
  <2>3. \A m \in FilesOf(i) : m \in Nat /\ m \in DOMAIN Files
    BY FileFacts DEF FilesOf
  <2>4. LastFileOf(i) = n
    <3>1. \A x \in FilesOf(i) : (\A m \in FilesOf(i) : m <= x) => x = n
      BY <2>2, <2>3
    <3> QED BY <2>2, <3>1 DEF LastFileOf
  <2>5. UNION {Files[m].cats : m \in FilesOf(i)} = table[i].categories
    BY <2>1 DEF IsWhatTheySay, RowsComeFromFiles
  <2>6. Files[n].model # "Site" =>
          Files[n].cats = UNION {Files[m].cats : m \in FilesOf(i)}
    <3>1. \A m \in FilesOf(i) : Files[m].model = Files[n].model
      BY <2>2, FilesOfAgree
    <3>2. \A m \in FilesOf(i) : Files[n].model # "Site" => Files[m].cats = {}
      BY <2>3, <3>1, FilesAssumption
    <3> QED BY <2>2, <3>2
  <2> QED BY <2>1, <2>4, <2>5, <2>6 DEF IsWhatTheySay
<1> QED BY <1>4, <1>5

-----------------------------------------------------------------------------
(* Every step keeps the invariant *)

LEMMA InitEstablishes == ASSUME Init PROVE IInv
<1>1. TypeOK
  <2>1. /\ 0 \in 0..MaxRuns /\ 0 \in 0..MaxEdits /\ 1 \in 1..(Len(Files) + 1) /\ 1 \in Nat
        /\ Len(<<>>) = 0 /\ 0 <= BatchSize /\ DOMAIN <<>> = {}
    BY FileFacts, BoundsAssumption
  <2> QED BY <2>1 DEF Init, TypeOK
<1>2. table \in [DOMAIN table -> Row] /\ batch \in Seq(Feature) /\ DOMAIN table = {}
  BY DEF Init
<1> QED BY <1>1, <1>2 DEF Init, IInv, Typed, ReadsInOrder, Reading, RowsComeFromFiles,
                          CleanSoFar, CleanRunConverges

LEMMA StartKeeps == ASSUME IInv, StartRun PROVE IInv'
<1>1. Typed'
  <2>1. /\ runs + 1 \in 0..MaxRuns /\ 1 \in 1..(Len(Files) + 1) /\ 1 \in Nat
        /\ Len(<<>>) = 0 /\ 0 <= BatchSize /\ <<>> \in Seq(Feature)
    BY FileFacts, BoundsAssumption DEF IInv, Typed, TypeOK, StartRun
  <2>2. TypeOK'
    BY <2>1 DEF IInv, Typed, TypeOK, StartRun
  <2> QED BY <2>1, <2>2 DEF IInv, Typed, StartRun
<1>2. ReadsInOrder'
  BY FileBegins DEF StartRun, ReadsInOrder, Reading
<1>3. CleanSoFar'
  <2>1. Reading' => Rank(1, 1) - Len(<<>>) = 0
    BY FileBegins DEF StartRun, Reading
  <2>2. AgreesSoFar(table, 1, 0)
    BY BroughtAtStart DEF AgreesSoFar
  <2>3. (IF Reading THEN Rank(file, pos) - Len(batch) ELSE 0)' = 0
    BY <2>1 DEF StartRun
  <2> QED BY <2>2, <2>3 DEF StartRun, CleanSoFar
<1> QED BY <1>1, <1>2, <1>3 DEF StartRun, IInv, RowsComeFromFiles, CleanRunConverges

LEMMA TakeKeeps == ASSUME IInv, TakeFeature PROVE IInv'
<1> DEFINE f == Features[pos]
<1>1. /\ running /\ file \in DOMAIN Files /\ pos \in 1..Len(Files[file].features)
      /\ batch \in Seq(Feature) /\ InFile(file, pos, batch, seen) /\ ~settled
      /\ f = Files[file].features[pos] /\ f \in Feature
      /\ Len(batch) < BatchSize /\ pos' = pos + 1
  BY FileFacts DEF IInv, Typed, TypeOK, ReadsInOrder, InFile, TakeFeature, Reading, Features
<1>2. pos \in Kept(file) <=> f.normal /\ f.id \notin seen
  <2>1. seen = Met(file, pos)
    BY <1>1 DEF InFile
  <2> QED BY <1>1, <2>1, KeptIsNew
<1>3. /\ InFile(file, pos', batch', seen') /\ batch' \in Seq(Feature)
      /\ Rank(file, pos') - Len(batch') = Rank(file, pos) - Len(batch)
      /\ Len(batch') <= BatchSize /\ seen' \subseteq Ids
  <2>1. Len(batch) \in Nat /\ BatchSize \in Nat /\ seen \subseteq Ids /\ f.id \in Ids
    BY <1>1, BoundsAssumption DEF IInv, Typed, TypeOK, Feature
  <2>2. CASE pos \in Kept(file)
    <3>1. batch' = Append(batch, f) /\ seen' = seen \cup {f.id}
      BY <1>2, <2>2 DEF TakeFeature
    <3>2. batch' \in Seq(Feature) /\ Len(batch') = Len(batch) + 1
      BY <1>1, <3>1
    <3>3. /\ InFile(file, pos + 1, Append(batch, f), seen \cup {f.id})
          /\ Rank(file, pos + 1) - Len(Append(batch, f)) = Rank(file, pos) - Len(batch)
      <4> HIDE DEF f
      <4> QED BY <1>1, <2>2, FeatureTaken
    <3> QED BY <1>1, <2>1, <3>1, <3>2, <3>3
  <2>3. CASE pos \notin Kept(file)
    <3>1. batch' = batch /\ seen' = seen
      BY <1>2, <2>3 DEF TakeFeature
    <3>2. /\ InFile(file, pos + 1, batch, seen)
          /\ Rank(file, pos + 1) - Len(batch) = Rank(file, pos) - Len(batch)
      BY <1>1, <2>3, FeatureSkipped
    <3> QED BY <1>1, <2>1, <3>1, <3>2
  <2> QED BY <2>2, <2>3
<1>4. UNCHANGED <<table, running, runs, file, edits, clean, settled>>
  BY DEF TakeFeature
<1>5. Typed'
  <2>1. pos' \in Nat
    BY <1>1, FileFacts
  <2> QED BY <1>3, <1>4, <2>1 DEF IInv, Typed, TypeOK
<1>6. ReadsInOrder'
  BY <1>3, <1>4 DEF ReadsInOrder
<1>7. CleanSoFar'
  <2>1. Reading /\ Reading'
    BY <1>1, <1>4 DEF Reading
  <2> QED BY <1>3, <1>4, <2>1 DEF IInv, CleanSoFar
<1>8. RowsComeFromFiles(table)' /\ CleanRunConverges'
  BY <1>1, <1>4 DEF IInv, RowsComeFromFiles, CleanRunConverges
<1> QED BY <1>5, <1>6, <1>7, <1>8 DEF IInv

\* Whatever becomes of a batch that is due, the run goes on behind it.
LEMMA BatchGone ==
    ASSUME IInv, Due, batch' = <<>>,
           UNCHANGED <<running, runs, file, pos, seen, edits, settled>>,
           clean' \in BOOLEAN, table' = table \/ (Acceptable /\ table' = Upserted)
    PROVE  /\ Typed' /\ ReadsInOrder' /\ RowsComeFromFiles(table)' /\ CleanRunConverges'
           /\ Reading' /\ (Rank(file, pos) - Len(batch))' = Rank(file, pos)
<1>1. /\ file \in DOMAIN Files /\ pos \in Nat /\ InFile(file, pos, batch, seen)
      /\ Reading /\ running /\ ~settled
  BY DueBatch DEF IInv, Typed, Due, Reading
<1>2. InFile(file, pos, <<>>, seen)
  BY DueBatch, BatchHandedOver DEF IInv
<1>3. /\ table' \in [DOMAIN table' -> Row] /\ DOMAIN table' \subseteq Ids
      /\ \A i \in DOMAIN table' : table'[i].version <= 1 + edits
  <2>1. CASE table' = table
    BY <2>1 DEF IInv, Typed, TypeOK
  <2>2. CASE table' = Upserted
    BY <2>2, UpsertedRows DEF IInv
  <2> QED BY <2>1, <2>2
<1>4. \A i \in DOMAIN table' :
        /\ table'[i].content \in DOMAIN Files
        /\ table'[i].status \in {"draft", "published"}
        /\ table'[i].version \in 1..(1 + MaxEdits)
  <2>1. CASE table' = table
    BY <2>1 DEF IInv, Typed, TypeOK
  <2>2. CASE table' = Upserted
    <3> SUFFICES ASSUME NEW i \in DOMAIN Upserted
                 PROVE  /\ Upserted[i].content \in DOMAIN Files
                        /\ Upserted[i].status \in {"draft", "published"}
                        /\ Upserted[i].version \in 1..(1 + MaxEdits)
      BY <2>2
    <3>1. Upserted[i] \in Row
      BY UpsertedRows DEF IInv
    <3>2. Upserted[i].version \in 1..(1 + MaxEdits)
      <4>1. CASE i \notin InBatch
        <5>1. Upserted[i] = table[i] /\ i \in DOMAIN table
          BY <4>1, UpsertedRows DEF IInv
        <5> QED BY <5>1 DEF IInv, Typed, TypeOK
      <4>2. CASE i \in InBatch /\ i \in DOMAIN table
        <5>1. Upserted[i] = Onto(table[i], file) /\ table[i] \in Row
          BY <4>2, UpsertedRows DEF IInv, Typed
        <5>2. Onto(table[i], file).version = 1
          BY <1>1, <5>1, OntoIs, Zenon
        <5> QED BY <5>1, <5>2, BoundsAssumption
      <4>3. CASE i \in InBatch /\ i \notin DOMAIN table
        <5>1. Upserted[i] = Fresh(file)
          BY <4>3, UpsertedRows DEF IInv
        <5> QED BY <1>1, <5>1, FreshIs, BoundsAssumption
      <4> QED BY <4>1, <4>2, <4>3
    <3> QED BY <3>1, <3>2 DEF Row
  <2> QED BY <2>1, <2>2
<1>5. Typed'
  <2>1. <<>> \in Seq(Feature) /\ Len(<<>>) = 0 /\ 0 <= BatchSize
    BY BoundsAssumption
  <2> QED BY <1>3, <1>4, <2>1 DEF IInv, Typed, TypeOK
<1>6. ReadsInOrder'
  BY <1>2 DEF ReadsInOrder
<1>7. RowsComeFromFiles(table)'
  <2>1. CASE table' = table
    BY <2>1 DEF IInv, RowsComeFromFiles
  <2>2. CASE Acceptable /\ table' = Upserted
    <3>1. RowsComeFromFiles(Upserted)
      BY <2>2, UpsertComesFromFiles DEF IInv
    <3> QED BY <2>2, <3>1 DEF RowsComeFromFiles
  <2> QED BY <2>1, <2>2
<1>8. CleanRunConverges'
  BY <1>1 DEF CleanRunConverges
<1>9. Reading' /\ (Rank(file, pos) - Len(batch))' = Rank(file, pos)
  <2>1. Rank(file, pos) - Len(<<>>) = Rank(file, pos)
    BY <1>1, KeptIsFinite
  <2> QED BY <1>1, <2>1 DEF Reading
<1> QED BY <1>5, <1>6, <1>7, <1>8, <1>9

LEMMA UpsertKeeps == ASSUME IInv, UpsertBatch PROVE IInv'
<1>1. /\ Due /\ batch' = <<>> /\ clean' \in BOOLEAN
      /\ UNCHANGED <<running, runs, file, pos, seen, edits, clean, settled>>
      /\ (Acceptable /\ table' = Upserted) \/ (~Acceptable /\ table' = table)
  BY DEF UpsertBatch, IInv, Typed, TypeOK
<1>2. /\ Typed' /\ ReadsInOrder' /\ RowsComeFromFiles(table)' /\ CleanRunConverges'
      /\ Reading' /\ (Rank(file, pos) - Len(batch))' = Rank(file, pos)
  BY <1>1, BatchGone
<1>3. CleanSoFar'
  <2> SUFFICES ASSUME clean
               PROVE  AgreesSoFar(table', file, Rank(file, pos))
    BY <1>1, <1>2 DEF CleanSoFar
  <2>1. AgreesSoFar(table, file, Rank(file, pos) - Len(batch))
    BY <1>1 DEF IInv, CleanSoFar, Due, Reading
  <2>2. CASE Acceptable /\ table' = Upserted
    BY <1>1, <2>1, <2>2, UpsertAgrees DEF IInv
  <2>3. CASE ~Acceptable /\ table' = table
    BY <1>1, <2>1, <2>3, RefusalAgrees DEF IInv
  <2> QED BY <1>1, <2>2, <2>3
<1> QED BY <1>2, <1>3 DEF IInv

LEMMA LoseKeeps == ASSUME IInv, LoseBatch PROVE IInv'
<1>1. /\ Due /\ batch' = <<>> /\ clean' = FALSE
      /\ UNCHANGED <<running, runs, file, pos, seen, edits, settled>>
      /\ table' = table \/ (Acceptable /\ table' = Upserted)
  BY DEF LoseBatch
<1>2. /\ Typed' /\ ReadsInOrder' /\ RowsComeFromFiles(table)' /\ CleanRunConverges'
  BY <1>1, BatchGone
<1> QED BY <1>1, <1>2 DEF IInv, CleanSoFar

LEMMA NextFileKeeps == ASSUME IInv, NextFile PROVE IInv'
<1>1. /\ running /\ file \in DOMAIN Files /\ file \in Nat /\ pos \in Nat
      /\ pos > Len(Files[file].features) /\ batch = <<>> /\ ~settled /\ Reading
      /\ file' = file + 1 /\ pos' = 1 /\ seen' = {} /\ batch' = <<>>
      /\ UNCHANGED <<table, running, runs, edits, clean, settled>>
  BY FileFacts DEF NextFile, Due, Reading, Features, IInv, Typed, TypeOK
<1>2. Typed'
  <2>1. /\ file + 1 \in 1..(Len(Files) + 1) /\ 1 \in Nat
        /\ <<>> \in Seq(Feature) /\ Len(<<>>) = 0 /\ 0 <= BatchSize
    BY <1>1, FileFacts, BoundsAssumption
  <2> QED BY <1>1, <2>1 DEF IInv, Typed, TypeOK
<1>3. ReadsInOrder'
  BY <1>1, FileBegins DEF ReadsInOrder, Reading
<1>4. (IF Reading THEN Rank(file, pos) - Len(batch) ELSE 0)' = 0
  <2>1. Reading' => Rank(file', 1) - Len(<<>>) = 0
    BY FileBegins DEF Reading
  <2> QED BY <1>1, <2>1
<1>5. CleanSoFar'
  <2> SUFFICES ASSUME clean PROVE AgreesSoFar(table, file + 1, 0)
    BY <1>1, <1>4 DEF CleanSoFar
  <2>1. AgreesSoFar(table, file, Rank(file, pos) - Len(batch))
    BY <1>1 DEF IInv, CleanSoFar
  <2>2. Rank(file, pos) - Len(batch) = Rank(file, pos)
    BY <1>1, KeptIsFinite
  <2>3. \A i \in Ids : BroughtBy(i, file + 1, 0) = BroughtBy(i, file, Rank(file, pos))
    BY <1>1, BroughtAcross
  <2> QED BY <2>1, <2>2, <2>3 DEF AgreesSoFar
<1>6. RowsComeFromFiles(table)' /\ CleanRunConverges'
  BY <1>1 DEF IInv, RowsComeFromFiles, CleanRunConverges
<1> QED BY <1>2, <1>3, <1>5, <1>6 DEF IInv

LEMMA CompleteKeeps == ASSUME IInv, Complete PROVE IInv'
<1>1. /\ running /\ file > Len(Files) /\ running' = FALSE /\ settled' = clean
      /\ UNCHANGED <<table, runs, file, pos, batch, seen, edits, clean>>
  BY DEF Complete
<1>2. Typed'
  BY <1>1 DEF IInv, Typed, TypeOK
<1>3. ReadsInOrder' /\ CleanSoFar' /\ RowsComeFromFiles(table)'
  BY <1>1 DEF IInv, ReadsInOrder, Reading, CleanSoFar, RowsComeFromFiles
<1>4. CleanRunConverges'
  <2> SUFFICES ASSUME clean PROVE CleanRunConverges'
    BY <1>1 DEF CleanRunConverges
  <2>1. file \notin DOMAIN Files
    BY <1>1, FileFacts DEF IInv, Typed, TypeOK
  <2>2. AgreesSoFar(table, file, 0)
    BY <1>1, <2>1 DEF IInv, CleanSoFar, Reading
  <2> QED BY <1>1, <2>2, AgreementConverges DEF IInv, CleanRunConverges
<1> QED BY <1>2, <1>3, <1>4 DEF IInv

LEMMA AbortKeeps == ASSUME IInv, Abort PROVE IInv'
<1>1. /\ running /\ ~settled /\ running' = FALSE /\ batch' = <<>> /\ seen' = {}
      /\ clean' = FALSE /\ UNCHANGED <<table, runs, file, pos, edits, settled>>
  BY DEF Abort, IInv, Typed
<1>2. <<>> \in Seq(Feature) /\ Len(<<>>) = 0 /\ 0 <= BatchSize
  BY BoundsAssumption
<1>3. Typed'
  BY <1>1, <1>2 DEF IInv, Typed, TypeOK
<1> QED BY <1>1, <1>3 DEF IInv, ReadsInOrder, Reading, CleanSoFar, RowsComeFromFiles,
                          CleanRunConverges

\* The dashboard changes rows, but makes none, and takes no category away.
LEMMA TouchKeeps ==
    ASSUME IInv, Touched,
           table' \in [DOMAIN table' -> Row], DOMAIN table' \subseteq DOMAIN table,
           \A i \in DOMAIN table' : /\ table'[i].categories = table[i].categories
                                    /\ table'[i].version <= table[i].version + 1
                                    /\ table'[i].version >= 1
    PROVE  IInv'
<1>1. /\ edits \in Nat /\ edits' = edits + 1 /\ edits' <= MaxEdits /\ MaxEdits \in Nat
      /\ clean' = FALSE /\ settled' = FALSE
      /\ UNCHANGED <<running, runs, file, pos, batch, seen>>
  BY BoundsAssumption DEF IInv, Typed, TypeOK, Touched, run
<1>2. \A i \in DOMAIN table' : table'[i] \in Row /\ i \in DOMAIN table
  OBVIOUS
<1>3. \A i \in DOMAIN table' :
        /\ table'[i].version <= 1 + edits'
        /\ table'[i].version \in 1..(1 + MaxEdits)
  <2> TAKE i \in DOMAIN table'
  <2>1. table[i] \in Row /\ table[i].version <= 1 + edits
    BY <1>2 DEF IInv, Typed
  <2>2. table[i].version \in Nat /\ table'[i].version \in Nat
    BY <1>2, <2>1 DEF Row
  <2> QED BY <1>1, <2>1, <2>2
<1>4. Typed'
  <2>1. DOMAIN table' \subseteq Ids /\ edits' \in 0..MaxEdits
    BY <1>1 DEF IInv, Typed, TypeOK
  <2>2. \A i \in DOMAIN table' : /\ table'[i].content \in DOMAIN Files
                                 /\ table'[i].status \in {"draft", "published"}
    BY <1>2 DEF Row
  <2> QED BY <1>1, <1>3, <2>1, <2>2 DEF IInv, Typed, TypeOK
<1>5. ReadsInOrder'
  BY <1>1 DEF IInv, ReadsInOrder, Reading
<1>6. RowsComeFromFiles(table)'
  BY <1>2 DEF IInv, RowsComeFromFiles
<1> QED BY <1>1, <1>4, <1>5, <1>6 DEF IInv, CleanSoFar, CleanRunConverges

LEMMA PublishKeeps == ASSUME IInv, NEW i \in Ids, Publish(i) PROVE IInv'
<1>1. /\ i \in DOMAIN table /\ Touched
      /\ table' = [table EXCEPT ![i].status = "published", ![i].version = @ + 1]
  BY DEF Publish
<1>2. table \in [DOMAIN table -> Row] /\ \A j \in DOMAIN table : table[j].version >= 1
  BY DEF IInv, Typed, TypeOK
<1>3. table[i] \in Row
  BY <1>1, <1>2
<1>4. DOMAIN table' = DOMAIN table /\ \A j \in DOMAIN table : j # i => table'[j] = table[j]
  BY <1>1, <1>2
<1>5. table'[i] = [table[i] EXCEPT !.status = "published", !.version = @ + 1]
  BY <1>1, <1>2
<1>6. /\ table'[i] \in Row /\ table'[i].categories = table[i].categories
      /\ table'[i].version = table[i].version + 1
  <2>1. /\ table'[i].key = table[i].key /\ table'[i].content = table[i].content
        /\ table'[i].site_type = table[i].site_type
        /\ table'[i].categories = table[i].categories
        /\ table'[i].status = "published" /\ table'[i].version = table[i].version + 1
    BY <1>3, <1>5 DEF Row
  <2>2. table'[i] = [key |-> table'[i].key, content |-> table'[i].content,
                     site_type |-> table'[i].site_type, categories |-> table'[i].categories,
                     status |-> table'[i].status, version |-> table'[i].version]
    BY <1>3, <1>5 DEF Row
  <2>3. table[i].version + 1 \in Nat
    BY <1>3 DEF Row
  <2>4. table'[i] \in Row
    BY <1>3, <2>1, <2>2, <2>3 DEF Row
  <2> QED BY <2>1, <2>4
<1>7. table' \in [DOMAIN table' -> Row]
  BY <1>1, <1>2, <1>4, <1>6
<1>8. \A j \in DOMAIN table' : /\ table'[j].categories = table[j].categories
                               /\ table'[j].version <= table[j].version + 1
                               /\ table'[j].version >= 1
  <2> TAKE j \in DOMAIN table'
  <2>1. table[j].version \in Nat /\ table[j].version >= 1
    BY <1>2, <1>4 DEF Row
  <2> QED BY <1>4, <1>6, <2>1
<1> QED BY <1>1, <1>4, <1>7, <1>8, TouchKeeps

LEMMA DeleteKeeps == ASSUME IInv, NEW i \in Ids, Delete(i) PROVE IInv'
<1>1. /\ Touched /\ table' = [j \in DOMAIN table \ {i} |-> table[j]]
      /\ table \in [DOMAIN table -> Row] /\ \A j \in DOMAIN table : table[j].version >= 1
  BY DEF Delete, IInv, Typed, TypeOK
<1>2. /\ DOMAIN table' \subseteq DOMAIN table /\ table' \in [DOMAIN table' -> Row]
      /\ \A j \in DOMAIN table' : table'[j] = table[j] /\ table[j] \in Row
  BY <1>1
<1>3. \A j \in DOMAIN table' : /\ table'[j].categories = table[j].categories
                               /\ table'[j].version <= table[j].version + 1
                               /\ table'[j].version >= 1
  BY <1>1, <1>2 DEF Row
<1> QED BY <1>1, <1>2, <1>3, TouchKeeps

LEMMA StutterKeeps == ASSUME IInv, UNCHANGED vars PROVE IInv'
<1>1. UNCHANGED <<table, running, runs, file, pos, batch, seen, edits, clean, settled>>
  BY DEF vars, run
<1> QED BY <1>1 DEF IInv, Typed, TypeOK, ReadsInOrder, Reading, RowsComeFromFiles,
                    CleanSoFar, CleanRunConverges

LEMMA Inductive == Spec => []IInv
<1>1. Init => IInv
  BY InitEstablishes
<1>2. IInv /\ [Next]_vars => IInv'
  <2> SUFFICES ASSUME IInv, [Next]_vars PROVE IInv'
    OBVIOUS
  <2> QED BY StartKeeps, TakeKeeps, UpsertKeeps, LoseKeeps, NextFileKeeps, CompleteKeeps,
             AbortKeeps, PublishKeeps, DeleteKeeps, StutterKeeps DEF Next, Loader
<1> QED BY <1>1, <1>2, PTL DEF Spec

-----------------------------------------------------------------------------
(* The theorems *)

\* Every variable of the loader keeps its type.
THEOREM TypeCorrect == Spec => []TypeOK
<1>1. IInv => TypeOK
  BY DEF IInv, Typed
<1> QED BY <1>1, Inductive, PTL

\* A run that nothing disturbed ends in what the files say, whatever was lost
\* before it (run_ingestion, process_file, upsert_features).
THEOREM RunsConverge == Spec => []CleanRunConverges
<1>1. IInv => CleanRunConverges
  BY DEF IInv
<1> QED BY <1>1, Inductive, PTL

\* No run gives a row another key or takes a category from it (upsert_features).
THEOREM RowsAreKept == Spec => LoaderKeepsRows
<1> DEFINE Kept2 == \A i \in DOMAIN table :
                      edits' = edits =>
                        /\ i \in DOMAIN table' /\ table'[i].key = table[i].key
                        /\ table[i].categories \subseteq table'[i].categories
<1>1. IInv /\ [Next]_vars => [Kept2]_vars
  <2> SUFFICES ASSUME IInv, Next PROVE Kept2
    OBVIOUS
  <2>1. CASE StartRun \/ TakeFeature \/ NextFile \/ Complete \/ Abort
    <3>1. table' = table
      BY <2>1 DEF StartRun, TakeFeature, NextFile, Complete, Abort
    <3> QED BY <3>1
  <2>2. CASE UpsertBatch \/ LoseBatch
    <3>1. Due /\ (table' = table \/ table' = Upserted)
      BY <2>2 DEF UpsertBatch, LoseBatch
    <3> QED BY <3>1, UpsertKeepsRows DEF IInv
  <2>3. ASSUME NEW i \in Ids, Publish(i) \/ Delete(i) PROVE Kept2
    <3>1. edits' = edits + 1 /\ edits \in Nat
      BY <2>3 DEF Publish, Delete, Touched, IInv, Typed, TypeOK
    <3> QED BY <3>1
  <2> QED BY <2>1, <2>2, <2>3 DEF Next, Loader
<1> QED BY <1>1, Inductive, PTL DEF Spec, LoaderKeepsRows
=============================================================================
