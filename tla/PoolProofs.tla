------------------------------ MODULE PoolProofs ------------------------------
(***************************************************************************)
(* Theorems about what fills the pool: the pool writes, the walk over a    *)
(* sitemap, the discovery runs of a shop.  Each is proved of the           *)
(* specification of its own module, and carried over to MCSpec, whose runs *)
(* check it.  At the end: all the types of MCSpec.                         *)
(***************************************************************************)
EXTENDS StoreProofs, Subsequences

\* What a step of the composition is for the part it takes.
LEMMA WritePart ==
    ASSUME [MCNext]_allVars
    PROVE  part' = part /\ (part = "write" => [P!Next]_pVars)
BY DEF allVars, MCNext, MarketParts, UserParts

-----------------------------------------------------------------------------
(***************************************************************************)
(* Pool writes.  A savepoint is what makes them hold: the invariants say,  *)
(* of every place a writer can be at, which rows of its transaction a      *)
(* rollback takes back, and that the pairs of those rows are still ahead   *)
(* of the writer.                                                          *)
(***************************************************************************)
RowSets == [product : SUBSET Url, listing : SUBSET Url]

PTypes ==
    /\ pProduct \subseteq Writer \X Url /\ pListing \subseteq Writer \X Url
    /\ pBatch \in [Writer -> Seq(Url)] /\ pPairs \in [Writer -> Seq(Url)]
    /\ pPc \in [Writer -> P!PCs]
    /\ pAt \in [Writer -> Nat \ {0}] /\ pI \in [Writer -> Nat \ {0}]
    /\ pInserts \in [Writer -> RowSets] /\ pSave \in [Writer -> RowSets]
    /\ pInserted \in [Writer -> Nat] /\ pRejected \in [Writer -> Nat]
    /\ pExcused \subseteq Url

InChunk == {"listings", "slow", "slow listing"}
Urls(w, from, to) == {pPairs[w][k] : k \in from..to}

\* Where a writer is in its batch.
Placed(w) ==
    /\ pAt[w] <= Len(pPairs[w]) + 1
    /\ pPc[w] \in InChunk => pAt[w] <= pI[w] /\ pI[w] <= P!ChunkEnd(w)
    /\ pPc[w] \in {"evaluate", "committed"} => pInserts[w] = P!Empty
    /\ pPc[w] = "evaluate" => pAt[w] = 1 /\ pInserted[w] = 0

\* The rows of its transaction are pairs, but for those a rollback takes back.
Paired(w) ==
    /\ pPc[w] \in {"chunk", "slow"} => pInserts[w].product = pInserts[w].listing
    /\ pPc[w] \in {"listings", "slow listing"} => pSave[w].product = pSave[w].listing
    /\ pPc[w] = "listings" =>
          /\ pInserts[w].product = pSave[w].product \cup P!ChunkUrls(w)
          /\ pInserts[w].listing = pSave[w].listing \cup Urls(w, pAt[w], pI[w] - 1)
    /\ pPc[w] = "slow listing" =>
          /\ pInserts[w].product = pSave[w].product \cup {P!Wanted(w)}
          /\ pInserts[w].listing = pSave[w].listing

PairInv == PTypes /\ P!NoOrphan /\ \A w \in Writer : Placed(w) /\ Paired(w)

\* PoolWriter counts as FiniteSets does.
LEMMA SameCardinality == ASSUME NEW S PROVE P!Cardinality(S) = Cardinality(S)
BY DEF P!Cardinality, Cardinality

\* The signed pairs of a batch: some of its URLs, and every signed one.
LEMMA PassedPairs ==
    ASSUME NEW batch \in Seq(Url), NEW passed \in P!Passed(batch)
    PROVE  /\ passed \in Seq(Url) /\ Len(passed) <= Len(batch)
           /\ \A k \in DOMAIN batch : P!Signed(batch[k]) => \E n \in 1..Len(passed) : passed[n] = batch[k]
<1> DEFINE signed == {k \in DOMAIN batch : P!Signed(batch[k])}
<1>0. P!Cardinality(signed) = Cardinality(signed)  BY SameCardinality
<1> HIDE DEF signed
<1>1. PICK place \in [1..Cardinality(signed) -> signed] :
         /\ \A k \in signed : \E n \in DOMAIN place : place[n] = k
         /\ passed = [n \in DOMAIN place |-> batch[place[n]]]
  BY <1>0 DEF P!Passed, signed
<1>2. IsFiniteSet(1..Len(batch)) /\ Cardinality(1..Len(batch)) = Len(batch)
  <2>1. Len(batch) \in Int /\ 1 \in Int /\ Len(batch) >= 0  OBVIOUS
  <2>2. Cardinality(1..Len(batch)) = IF 1 > Len(batch) THEN 0 ELSE Len(batch) - 1 + 1
    BY <2>1, FS_Interval
  <2> QED  BY <2>1, <2>2, FS_Interval
<1>3. signed \in SUBSET (1..Len(batch))  BY DEF signed
<1>4. Cardinality(signed) \in Nat /\ Cardinality(signed) <= Len(batch)
  <2>1. IsFiniteSet(signed) /\ Cardinality(signed) <= Cardinality(1..Len(batch))
    BY <1>2, <1>3, FS_Subset
  <2>2. Cardinality(signed) \in Nat  BY <2>1, FS_CardinalityType
  <2> QED  BY <1>2, <2>1, <2>2
<1> DEFINE size == Cardinality(signed)
<1>5. passed = [n \in 1..size |-> batch[place[n]]]  BY <1>1
<1>6. \A n \in 1..size : batch[place[n]] \in Url
  <2>1. \A n \in 1..size : place[n] \in 1..Len(batch)  BY <1>1, <1>3
  <2> HIDE DEF size
  <2>2. \A k \in 1..Len(batch) : batch[k] \in Url  OBVIOUS
  <2> QED  BY <2>1, <2>2
<1>7. size \in Nat /\ size <= Len(batch)  BY <1>4
<1>8. \A k \in signed : \E n \in 1..size : place[n] = k  BY <1>1
<1> HIDE DEF size
<1>9. passed \in Seq(Url) /\ Len(passed) = size  BY <1>5, <1>6, <1>7
<1>10. ASSUME NEW k \in DOMAIN batch, P!Signed(batch[k])
       PROVE  \E n \in 1..Len(passed) : passed[n] = batch[k]
  <2>1. k \in signed  BY <1>10 DEF signed
  <2>2. PICK n \in 1..size : place[n] = k  BY <1>8, <2>1
  <2> QED  BY <1>5, <1>9, <2>2
<1> QED  BY <1>7, <1>9, <1>10

\* The chunk of a writer is within its pairs.
LEMMA ChunkWithin ==
    ASSUME PTypes, NEW w \in Writer, pAt[w] <= Len(pPairs[w])
    PROVE  /\ P!ChunkEnd(w) \in Nat /\ pAt[w] <= P!ChunkEnd(w) /\ P!ChunkEnd(w) <= Len(pPairs[w])
           /\ \A n \in Nat : pAt[w] <= n /\ n <= P!ChunkEnd(w) => pPairs[w][n] \in Url
<1>1. /\ pPairs[w] \in Seq(Url) /\ Len(pPairs[w]) \in Nat /\ pAt[w] \in Nat /\ pAt[w] > 0
  BY DEF PTypes
<1>2. Chunk \in Nat /\ Chunk > 0  BY PartsAssumption DEF P!ChunkAssumption
<1>3. P!ChunkEnd(w) \in Nat /\ pAt[w] <= P!ChunkEnd(w) /\ P!ChunkEnd(w) <= Len(pPairs[w])
  BY <1>1, <1>2 DEF P!ChunkEnd
<1>4. \A n \in 1..Len(pPairs[w]) : pPairs[w][n] \in Url  BY <1>1
<1> QED  BY <1>1, <1>3, <1>4

\* So is the pair it is at.
LEMMA PairWithin ==
    ASSUME PTypes, NEW w \in Writer, Placed(w), pPc[w] \in InChunk
    PROVE  /\ pAt[w] <= Len(pPairs[w]) /\ pI[w] <= Len(pPairs[w]) /\ P!Wanted(w) \in Url
           /\ P!ChunkEnd(w) \in Nat /\ P!ChunkEnd(w) <= Len(pPairs[w])
<1>1. /\ Len(pPairs[w]) \in Nat /\ pAt[w] \in Nat /\ pI[w] \in Nat /\ pAt[w] > 0
      /\ pAt[w] <= pI[w] /\ pI[w] <= P!ChunkEnd(w)
  BY DEF PTypes, Placed
<1>2. Chunk \in Nat /\ Chunk > 0  BY PartsAssumption DEF P!ChunkAssumption
<1>3. P!ChunkEnd(w) <= Len(pPairs[w]) /\ P!ChunkEnd(w) \in Nat  BY <1>1, <1>2 DEF P!ChunkEnd
<1>4. pAt[w] <= Len(pPairs[w])  BY <1>1, <1>3
<1> QED  BY <1>1, <1>3, <1>4, ChunkWithin DEF P!Wanted

\* A writer leaves the transactions of the others alone.
LEMMA Alone ==
    ASSUME PTypes, NEW w \in Writer, P!Step(w)
    PROVE  /\ pBatch' = pBatch
           /\ \A v \in Writer : v # w =>
                 /\ pPairs'[v] = pPairs[v] /\ pPc'[v] = pPc[v] /\ pAt'[v] = pAt[v] /\ pI'[v] = pI[v]
                 /\ pInserts'[v] = pInserts[v] /\ pSave'[v] = pSave[v]
                 /\ pInserted'[v] = pInserted[v] /\ pRejected'[v] = pRejected[v]
<1> USE DEF PTypes, P!Goto
<1>1. CASE P!Evaluate(w)  BY <1>1 DEF P!Evaluate
<1>2. CASE P!FastProducts(w)  BY <1>2 DEF P!FastProducts
<1>3. CASE P!FastListing(w)  BY <1>3 DEF P!FastListing
<1>4. CASE P!FastRefused(w)  BY <1>4 DEF P!FastRefused
<1>5. CASE P!SlowProduct(w)  BY <1>5 DEF P!SlowProduct
<1>6. CASE P!SlowListing(w)  BY <1>6 DEF P!SlowListing, P!NextPair
<1>7. CASE P!SlowRefused(w)  BY <1>7 DEF P!SlowRefused, P!NextPair
<1>8. CASE P!Commit(w)  BY <1>8 DEF P!Commit
<1>9. CASE P!Abort(w)  BY <1>9 DEF P!Abort
<1> QED  BY <1>1, <1>2, <1>3, <1>4, <1>5, <1>6, <1>7, <1>8, <1>9 DEF P!Step

LEMMA OthersStay ==
    ASSUME PTypes, NEW w \in Writer, P!Step(w), NEW v \in Writer, v # w, Placed(v), Paired(v)
    PROVE  Placed(v)' /\ Paired(v)'
<1>1. /\ pPairs'[v] = pPairs[v] /\ pPc'[v] = pPc[v] /\ pAt'[v] = pAt[v] /\ pI'[v] = pI[v]
      /\ pInserts'[v] = pInserts[v] /\ pSave'[v] = pSave[v] /\ pInserted'[v] = pInserted[v]
  BY Alone
<1>2. /\ P!ChunkEnd(v)' = P!ChunkEnd(v) /\ P!Wanted(v)' = P!Wanted(v)
      /\ Urls(v, pAt[v], pI[v] - 1)' = Urls(v, pAt[v], pI[v] - 1)
  BY <1>1 DEF P!ChunkEnd, P!Wanted, Urls
<1>3. P!ChunkUrls(v)' = P!ChunkUrls(v)  BY <1>1, <1>2 DEF P!ChunkUrls
<1>4. Placed(v)'  BY <1>1, <1>2 DEF Placed
<1>5. Paired(v)'  BY <1>1, <1>2, <1>3 DEF Paired
<1> QED  BY <1>4, <1>5

LEMMA PairInit == P!Init => PairInv
<1> SUFFICES ASSUME P!Init PROVE PairInv  OBVIOUS
<1>1. P!Empty \in RowSets /\ P!Empty.product = {} /\ P!Empty.listing = {}  BY DEF P!Empty, RowSets
<1>2. <<>> \in Seq(Url) /\ Len(<<>>) = 0  OBVIOUS
<1>3. pBatch \in [Writer -> Seq(Url)]
  BY PartsAssumption DEF P!Init, P!BatchesAssumption
<1>4. PTypes  BY <1>1, <1>2, <1>3 DEF P!Init, PTypes, P!PCs
<1>5. \A w \in Writer : Placed(w) /\ Paired(w)  BY <1>1, <1>2 DEF P!Init, Placed, Paired, InChunk
<1> QED  BY <1>4, <1>5 DEF PairInv, P!NoOrphan, P!Init

\* One step of a writer, a place at a time: its own rows.
LEMMA OwnRows ==
    ASSUME PairInv, NEW w \in Writer, P!Step(w)
    PROVE  PTypes' /\ P!NoOrphan' /\ Placed(w)' /\ Paired(w)'
<1>0. /\ PTypes /\ Placed(w) /\ Paired(w) /\ P!NoOrphan
      /\ Len(pPairs[w]) \in Nat /\ pAt[w] \in Nat /\ pI[w] \in Nat /\ pAt[w] > 0 /\ pI[w] > 0
      /\ pInserts[w] \in RowSets /\ pSave[w] \in RowSets
  <2>1. PTypes /\ Placed(w) /\ Paired(w) /\ P!NoOrphan  BY DEF PairInv
  <2>2. pPairs[w] \in Seq(Url)  BY <2>1 DEF PTypes
  <2>3. Len(pPairs[w]) \in Nat  BY <2>2
  <2>4. /\ pAt[w] \in Nat /\ pI[w] \in Nat /\ pAt[w] > 0 /\ pI[w] > 0
        /\ pInserts[w] \in RowSets /\ pSave[w] \in RowSets
    BY <2>1 DEF PTypes
  <2> QED  BY <2>1, <2>3, <2>4
<1>e. P!Empty \in RowSets /\ P!Empty.product = {} /\ P!Empty.listing = {}  BY DEF P!Empty, RowSets
<1>1. CASE P!Evaluate(w)
  <2>1. /\ pPc[w] = "evaluate" /\ P!Goto(w, "chunk")
        /\ pRejected' = [pRejected EXCEPT ![w] = Len(pBatch[w]) - Len(pPairs'[w])]
        /\ UNCHANGED <<pProduct, pListing, pBatch, pAt, pI, pInserts, pSave, pInserted>>
    BY <1>1 DEF P!Evaluate
  <2>2. PICK passed \in Seq(Url) : pPairs' = [pPairs EXCEPT ![w] = passed] /\ Len(passed) <= Len(pBatch[w])
    <3>1. pBatch[w] \in Seq(Url) /\ <<>> \in Seq(Url) /\ Len(<<>>) = 0 /\ Len(pBatch[w]) \in Nat
      BY DEF PairInv, PTypes
    <3>2. CASE \E passed \in P!Passed(pBatch[w]) : pPairs' = [pPairs EXCEPT ![w] = passed]
      BY <3>1, <3>2, PassedPairs
    <3>3. CASE pPairs' = [pPairs EXCEPT ![w] = <<>>]
      <4>1. Len(<<>>) <= Len(pBatch[w])  BY <3>1
      <4> QED  BY <3>1, <3>3, <4>1
    <3> QED  BY <1>1, <3>2, <3>3 DEF P!Evaluate
  <2>3. pExcused' \subseteq Url
    <3>1. \A k \in DOMAIN pBatch[w] : pBatch[w][k] \in Url  BY DEF PairInv, PTypes
    <3> QED  BY <1>0, <1>1, <3>1 DEF P!Evaluate, PTypes
  <2>4. pPairs' \in [Writer -> Seq(Url)] /\ pPairs'[w] = passed  BY <1>0, <2>2 DEF PTypes
  <2>5. pRejected' \in [Writer -> Nat]
    <3>1. Len(pBatch[w]) \in Nat /\ Len(passed) \in Nat  BY <1>0 DEF PTypes
    <3> QED  BY <1>0, <2>1, <2>2, <2>4, <3>1 DEF PTypes
  <2>6. pPc' \in [Writer -> P!PCs] /\ pPc'[w] = "chunk"  BY <1>0, <2>1 DEF PTypes, P!Goto, P!PCs
  <2>7. PTypes'  BY <1>0, <2>1, <2>3, <2>4, <2>5, <2>6 DEF PTypes
  <2>8. Len(passed) \in Nat  OBVIOUS
  <2>9. Placed(w)'  BY <1>0, <2>1, <2>4, <2>6, <2>8 DEF Placed, InChunk
  <2>10. Paired(w)'  BY <1>0, <1>e, <2>1, <2>6 DEF Paired, Placed
  <2> QED  BY <1>0, <2>1, <2>7, <2>9, <2>10 DEF P!NoOrphan
<1>2. CASE P!FastProducts(w)
  <2>1. /\ pPc[w] = "chunk" /\ pAt[w] <= Len(pPairs[w]) /\ P!Goto(w, "listings")
        /\ pSave' = [pSave EXCEPT ![w] = pInserts[w]]
        /\ pInserts' = [pInserts EXCEPT ![w].product = @ \cup P!ChunkUrls(w)]
        /\ pI' = [pI EXCEPT ![w] = pAt[w]]
        /\ UNCHANGED <<pProduct, pListing, pBatch, pPairs, pAt, pInserted, pRejected, pExcused>>
    BY <1>2 DEF P!FastProducts
  <2>2. /\ P!ChunkEnd(w) \in Nat /\ pAt[w] <= P!ChunkEnd(w) /\ P!ChunkUrls(w) \subseteq Url
    BY <1>0, <2>1, ChunkWithin DEF P!ChunkUrls
  <2>3. /\ pInserts' \in [Writer -> RowSets] /\ pInserts'[w].listing = pInserts[w].listing
        /\ pInserts'[w].product = pInserts[w].product \cup P!ChunkUrls(w)
    BY <1>0, <2>1, <2>2 DEF PTypes, RowSets
  <2>4. pSave' \in [Writer -> RowSets] /\ pSave'[w] = pInserts[w]  BY <1>0, <2>1 DEF PTypes
  <2>5. pI' \in [Writer -> Nat \ {0}] /\ pI'[w] = pAt[w]  BY <1>0, <2>1 DEF PTypes
  <2>6. pPc' \in [Writer -> P!PCs] /\ pPc'[w] = "listings"  BY <1>0, <2>1 DEF PTypes, P!Goto, P!PCs
  <2>7. PTypes'  BY <1>0, <2>1, <2>3, <2>4, <2>5, <2>6 DEF PTypes
  <2>8. P!ChunkEnd(w)' = P!ChunkEnd(w) /\ P!ChunkUrls(w)' = P!ChunkUrls(w)
    BY <2>1 DEF P!ChunkEnd, P!ChunkUrls
  <2>9. Placed(w)'  BY <1>0, <2>1, <2>2, <2>5, <2>6, <2>8 DEF Placed
  <2>10. Urls(w, pAt[w], pI[w] - 1)' = {}  BY <1>0, <2>1, <2>5 DEF Urls
  <2>11. Paired(w)'  BY <1>0, <2>1, <2>3, <2>4, <2>6, <2>8, <2>10 DEF Paired
  <2> QED  BY <1>0, <2>1, <2>7, <2>9, <2>11 DEF P!NoOrphan
<1>3. CASE P!FastListing(w)
  <2>1. /\ pPc[w] = "listings"
        /\ pInserts' = [pInserts EXCEPT ![w].listing = @ \cup {P!Wanted(w)}]
        /\ UNCHANGED <<pProduct, pListing, pBatch, pPairs, pSave, pRejected, pExcused>>
    BY <1>3 DEF P!FastListing
  <2>2. /\ P!Wanted(w) \in Url /\ P!ChunkEnd(w) \in Nat /\ P!ChunkEnd(w) <= Len(pPairs[w])
        /\ pAt[w] <= pI[w] /\ pI[w] <= P!ChunkEnd(w)
    BY <1>0, <2>1, PairWithin DEF InChunk, Placed
  <2>3. /\ pInserts' \in [Writer -> RowSets] /\ pInserts'[w].product = pInserts[w].product
        /\ pInserts'[w].listing = pInserts[w].listing \cup {P!Wanted(w)}
    BY <1>0, <2>1, <2>2 DEF PTypes, RowSets
  <2>4. pInserts'[w].listing = pSave[w].listing \cup Urls(w, pAt[w], pI[w])
    <3>1. pAt[w]..pI[w] = (pAt[w]..(pI[w] - 1)) \cup {pI[w]}  BY <1>0, <2>2
    <3>2. Urls(w, pAt[w], pI[w]) = Urls(w, pAt[w], pI[w] - 1) \cup {P!Wanted(w)}
      BY <3>1 DEF Urls, P!Wanted
    <3> QED  BY <1>0, <2>1, <2>3, <3>2 DEF Paired
  <2>5. CASE pI[w] = P!ChunkEnd(w)
    <3>1. /\ pInserted' = [pInserted EXCEPT ![w] = @ + P!ChunkEnd(w) - pAt[w] + 1]
          /\ pAt' = [pAt EXCEPT ![w] = P!ChunkEnd(w) + 1]
          /\ P!Goto(w, "chunk") /\ UNCHANGED pI
      BY <1>3, <2>5 DEF P!FastListing
    <3>2. pPc' \in [Writer -> P!PCs] /\ pPc'[w] = "chunk"  BY <1>0, <3>1 DEF PTypes, P!Goto, P!PCs
    <3>3. pAt' \in [Writer -> Nat \ {0}] /\ pAt'[w] = P!ChunkEnd(w) + 1  BY <1>0, <2>2, <3>1 DEF PTypes
    <3>4. pInserted' \in [Writer -> Nat]  BY <1>0, <2>2, <3>1 DEF PTypes
    <3>5. PTypes'  BY <1>0, <2>1, <2>3, <3>1, <3>2, <3>3, <3>4 DEF PTypes
    <3>6. Placed(w)'  BY <1>0, <2>1, <2>2, <3>2, <3>3 DEF Placed, InChunk
    <3>7. pInserts'[w].product = pInserts'[w].listing
      BY <1>0, <2>1, <2>3, <2>4, <2>5 DEF Paired, P!ChunkUrls, Urls
    <3>8. Paired(w)'  BY <3>2, <3>7 DEF Paired
    <3> QED  BY <1>0, <2>1, <3>5, <3>6, <3>8 DEF P!NoOrphan
  <2>6. CASE pI[w] # P!ChunkEnd(w)
    <3>1. pI' = [pI EXCEPT ![w] = @ + 1] /\ UNCHANGED <<pInserted, pAt, pPc>>
      BY <1>3, <2>6 DEF P!FastListing
    <3>2. pI' \in [Writer -> Nat \ {0}] /\ pI'[w] = pI[w] + 1  BY <1>0, <3>1 DEF PTypes
    <3>3. PTypes'  BY <1>0, <2>1, <2>3, <3>1, <3>2 DEF PTypes
    <3>4. P!ChunkEnd(w)' = P!ChunkEnd(w) /\ P!ChunkUrls(w)' = P!ChunkUrls(w)
      BY <2>1, <3>1 DEF P!ChunkEnd, P!ChunkUrls
    <3>5. Placed(w)'  BY <1>0, <2>1, <2>2, <2>6, <3>1, <3>2, <3>4 DEF Placed
    <3>6. pI'[w] - 1 = pI[w]  BY <1>0, <3>2
    <3>7. Urls(w, pAt[w], pI[w] - 1)' = Urls(w, pAt[w], pI[w])  BY <2>1, <3>1, <3>6 DEF Urls
    <3>8. Paired(w)'  BY <1>0, <2>1, <2>3, <2>4, <3>1, <3>4, <3>7 DEF Paired
    <3> QED  BY <1>0, <2>1, <3>3, <3>5, <3>8 DEF P!NoOrphan
  <2> QED  BY <2>5, <2>6
<1>4. CASE P!FastRefused(w)
  <2>1. /\ pPc[w] = "listings" /\ P!Goto(w, "slow")
        /\ pInserts' = [pInserts EXCEPT ![w] = pSave[w]] /\ pI' = [pI EXCEPT ![w] = pAt[w]]
        /\ UNCHANGED <<pProduct, pListing, pBatch, pPairs, pAt, pSave, pInserted, pRejected>>
        /\ P!Fails(w)
    BY <1>4 DEF P!FastRefused, P!RollBack
  <2>2. /\ P!Wanted(w) \in Url /\ pAt[w] <= P!ChunkEnd(w)
    <3>1. P!ChunkEnd(w) \in Nat /\ pAt[w] <= pI[w] /\ pI[w] <= P!ChunkEnd(w)
      BY <1>0, <2>1, PairWithin DEF InChunk, Placed
    <3>2. pAt[w] <= P!ChunkEnd(w)  BY <1>0, <3>1
    <3>3. P!Wanted(w) \in Url  BY <1>0, <2>1, PairWithin DEF InChunk
    <3> QED  BY <3>2, <3>3
  <2>3. pExcused' \subseteq Url  BY <1>0, <2>1, <2>2 DEF P!Fails, PTypes
  <2>4. pInserts' \in [Writer -> RowSets] /\ pInserts'[w] = pSave[w]  BY <1>0, <2>1 DEF PTypes
  <2>5. pI' \in [Writer -> Nat \ {0}] /\ pI'[w] = pAt[w]  BY <1>0, <2>1 DEF PTypes
  <2>6. pPc' \in [Writer -> P!PCs] /\ pPc'[w] = "slow"  BY <1>0, <2>1 DEF PTypes, P!Goto, P!PCs
  <2>7. PTypes'  BY <1>0, <2>1, <2>3, <2>4, <2>5, <2>6 DEF PTypes
  <2>8. P!ChunkEnd(w)' = P!ChunkEnd(w)  BY <2>1 DEF P!ChunkEnd
  <2>9. Placed(w)'  BY <1>0, <2>1, <2>2, <2>5, <2>6, <2>8 DEF Placed
  <2>10. Paired(w)'  BY <1>0, <2>1, <2>4, <2>6 DEF Paired
  <2> QED  BY <1>0, <2>1, <2>7, <2>9, <2>10 DEF P!NoOrphan
<1>5. CASE P!SlowProduct(w)
  <2>1. /\ pPc[w] = "slow" /\ P!Goto(w, "slow listing")
        /\ pSave' = [pSave EXCEPT ![w] = pInserts[w]]
        /\ pInserts' = [pInserts EXCEPT ![w].product = @ \cup {P!Wanted(w)}]
        /\ UNCHANGED <<pProduct, pListing, pBatch, pPairs, pAt, pI, pInserted, pRejected, pExcused>>
    BY <1>5 DEF P!SlowProduct
  <2>2. P!Wanted(w) \in Url  BY <1>0, <2>1, PairWithin DEF InChunk
  <2>3. /\ pInserts' \in [Writer -> RowSets] /\ pInserts'[w].listing = pInserts[w].listing
        /\ pInserts'[w].product = pInserts[w].product \cup {P!Wanted(w)}
    BY <1>0, <2>1, <2>2 DEF PTypes, RowSets
  <2>4. pSave' \in [Writer -> RowSets] /\ pSave'[w] = pInserts[w]  BY <1>0, <2>1 DEF PTypes
  <2>5. pPc' \in [Writer -> P!PCs] /\ pPc'[w] = "slow listing"  BY <1>0, <2>1 DEF PTypes, P!Goto, P!PCs
  <2>6. PTypes'  BY <1>0, <2>1, <2>3, <2>4, <2>5 DEF PTypes
  <2>7. P!ChunkEnd(w)' = P!ChunkEnd(w) /\ P!Wanted(w)' = P!Wanted(w)
    BY <2>1 DEF P!ChunkEnd, P!Wanted
  <2>8. Placed(w)'  BY <1>0, <2>1, <2>5, <2>7 DEF Placed, InChunk
  <2>9. Paired(w)'  BY <1>0, <2>1, <2>3, <2>4, <2>5, <2>7 DEF Paired
  <2> QED  BY <1>0, <2>1, <2>6, <2>8, <2>9 DEF P!NoOrphan
<1>6. ASSUME pPc[w] = "slow listing", P!NextPair(w), pPairs' = pPairs
      PROVE  /\ pPc' \in [Writer -> P!PCs] /\ pPc'[w] \in {"slow", "chunk"}
             /\ pAt' \in [Writer -> Nat \ {0}] /\ pI' \in [Writer -> Nat \ {0}]
             /\ pAt'[w] <= Len(pPairs'[w]) + 1
             /\ pPc'[w] \in InChunk => pAt'[w] <= pI'[w] /\ pI'[w] <= P!ChunkEnd(w)'
  <2>1. /\ P!ChunkEnd(w) \in Nat /\ P!ChunkEnd(w) <= Len(pPairs[w])
        /\ pAt[w] <= pI[w] /\ pI[w] <= P!ChunkEnd(w)
    BY <1>0, <1>6, PairWithin DEF InChunk, Placed
  <2>2. CASE pI[w] = P!ChunkEnd(w)
    <3>1. pAt' = [pAt EXCEPT ![w] = P!ChunkEnd(w) + 1] /\ P!Goto(w, "chunk") /\ UNCHANGED pI
      BY <1>6, <2>2 DEF P!NextPair
    <3>2. pPc' \in [Writer -> P!PCs] /\ pPc'[w] = "chunk"  BY <1>0, <3>1 DEF PTypes, P!Goto, P!PCs
    <3>3. pAt' \in [Writer -> Nat \ {0}] /\ pAt'[w] = P!ChunkEnd(w) + 1  BY <1>0, <2>1, <3>1 DEF PTypes
    <3>4. pI' \in [Writer -> Nat \ {0}]  BY <1>0, <3>1 DEF PTypes
    <3>5. pAt'[w] <= Len(pPairs'[w]) + 1
      <4>1. pPairs'[w] = pPairs[w]  BY <1>6
      <4> HIDE <1>6
      <4> QED  BY <1>0, <2>1, <3>3, <4>1
    <3> QED  BY <3>2, <3>3, <3>4, <3>5 DEF InChunk
  <2>3. CASE pI[w] # P!ChunkEnd(w)
    <3>1. pI' = [pI EXCEPT ![w] = @ + 1] /\ P!Goto(w, "slow") /\ UNCHANGED pAt
      BY <1>6, <2>3 DEF P!NextPair
    <3>2. pPc' \in [Writer -> P!PCs] /\ pPc'[w] = "slow"  BY <1>0, <3>1 DEF PTypes, P!Goto, P!PCs
    <3>3. pI' \in [Writer -> Nat \ {0}] /\ pI'[w] = pI[w] + 1  BY <1>0, <3>1 DEF PTypes
    <3>4. P!ChunkEnd(w)' = P!ChunkEnd(w)  BY <1>6, <3>1 DEF P!ChunkEnd
    <3>5. pAt' \in [Writer -> Nat \ {0}]  BY <1>0, <3>1 DEF PTypes
    <3>6. pAt'[w] <= Len(pPairs'[w]) + 1  BY <1>0, <1>6, <3>1 DEF Placed
    <3>7. pAt'[w] <= pI'[w] /\ pI'[w] <= P!ChunkEnd(w)'  BY <1>0, <2>1, <2>3, <3>1, <3>3, <3>4
    <3> QED  BY <3>2, <3>3, <3>5, <3>6, <3>7
  <2> QED  BY <2>2, <2>3
<1>7. CASE P!SlowListing(w)
  <2>1. /\ pPc[w] = "slow listing" /\ P!NextPair(w)
        /\ pInserts' = [pInserts EXCEPT ![w].listing = @ \cup {P!Wanted(w)}]
        /\ pInserted' = [pInserted EXCEPT ![w] = @ + 1]
        /\ UNCHANGED <<pProduct, pListing, pBatch, pPairs, pSave, pRejected, pExcused>>
    BY <1>7 DEF P!SlowListing
  <2>2. P!Wanted(w) \in Url  BY <1>0, <2>1, PairWithin DEF InChunk
  <2>3. /\ pInserts' \in [Writer -> RowSets] /\ pInserts'[w].product = pInserts[w].product
        /\ pInserts'[w].listing = pInserts[w].listing \cup {P!Wanted(w)}
    BY <1>0, <2>1, <2>2 DEF PTypes, RowSets
  <2>4. pInserted' \in [Writer -> Nat]
    <3>1. pInserted \in [Writer -> Nat]  BY <1>0 DEF PTypes
    <3>2. pInserted[w] + 1 \in Nat  BY <3>1
    <3>3. pInserted' = [pInserted EXCEPT ![w] = pInserted[w] + 1]  BY <2>1
    <3> QED  BY <3>1, <3>2, <3>3
  <2>5. PTypes'  BY <1>0, <1>6, <2>1, <2>3, <2>4 DEF PTypes
  <2>6. Placed(w)'  BY <1>6, <2>1 DEF Placed
  <2>7. pInserts'[w].product = pInserts'[w].listing  BY <1>0, <2>1, <2>3 DEF Paired
  <2>8. Paired(w)'  BY <1>6, <2>1, <2>7 DEF Paired
  <2> QED  BY <1>0, <2>1, <2>5, <2>6, <2>8 DEF P!NoOrphan
<1>8. CASE P!SlowRefused(w)
  <2>1. /\ pPc[w] = "slow listing" /\ P!NextPair(w)
        /\ pInserts' = [pInserts EXCEPT ![w] = pSave[w]]
        /\ pRejected' = [pRejected EXCEPT ![w] = @ + 1]
        /\ UNCHANGED <<pProduct, pListing, pBatch, pPairs, pSave, pInserted>>
        /\ P!Fails(w)
    BY <1>8 DEF P!SlowRefused, P!RollBack
  <2>2. P!Wanted(w) \in Url  BY <1>0, <2>1, PairWithin DEF InChunk
  <2>3. pExcused' \subseteq Url  BY <1>0, <2>1, <2>2 DEF P!Fails, PTypes
  <2>4. pInserts' \in [Writer -> RowSets] /\ pInserts'[w] = pSave[w]  BY <1>0, <2>1 DEF PTypes
  <2>5. pRejected' \in [Writer -> Nat]
    <3>1. pRejected \in [Writer -> Nat]  BY <1>0 DEF PTypes
    <3>2. pRejected[w] + 1 \in Nat  BY <3>1
    <3>3. pRejected' = [pRejected EXCEPT ![w] = pRejected[w] + 1]  BY <2>1
    <3> QED  BY <3>1, <3>2, <3>3
  <2>6. PTypes'  BY <1>0, <1>6, <2>1, <2>3, <2>4, <2>5 DEF PTypes
  <2>7. Placed(w)'  BY <1>6, <2>1 DEF Placed
  <2>8. Paired(w)'  BY <1>0, <1>6, <2>1, <2>4 DEF Paired
  <2> QED  BY <1>0, <2>1, <2>6, <2>7, <2>8 DEF P!NoOrphan
<1>9. CASE P!Commit(w)
  <2>1. /\ pPc[w] = "chunk" /\ P!Goto(w, "committed")
        /\ pProduct' = pProduct \cup P!Rows(w, pInserts[w].product)
        /\ pListing' = pListing \cup P!Rows(w, pInserts[w].listing)
        /\ pInserts' = [pInserts EXCEPT ![w] = P!Empty] /\ pSave' = [pSave EXCEPT ![w] = P!Empty]
        /\ UNCHANGED <<pBatch, pPairs, pAt, pI, pInserted, pRejected, pExcused>>
    BY <1>9 DEF P!Commit
  <2>2. pInserts[w].product = pInserts[w].listing /\ pInserts[w].product \subseteq Url
    BY <1>0, <2>1 DEF Paired, RowSets
  <2>3. pProduct' = pListing' /\ pProduct' \subseteq Writer \X Url
    BY <1>0, <2>1, <2>2 DEF P!Rows, P!NoOrphan, PTypes
  <2>4. /\ pInserts' \in [Writer -> RowSets] /\ pSave' \in [Writer -> RowSets] /\ pInserts'[w] = P!Empty
    BY <1>0, <1>e, <2>1 DEF PTypes
  <2>5. pPc' \in [Writer -> P!PCs] /\ pPc'[w] = "committed"  BY <1>0, <2>1 DEF PTypes, P!Goto, P!PCs
  <2>6. PTypes'  BY <1>0, <2>1, <2>3, <2>4, <2>5 DEF PTypes
  <2>7. Placed(w)'  BY <1>0, <2>1, <2>4, <2>5 DEF Placed, InChunk
  <2>8. Paired(w)'  BY <2>5 DEF Paired
  <2> QED  BY <2>3, <2>6, <2>7, <2>8 DEF P!NoOrphan
<1>10. CASE P!Abort(w)
  <2>1. /\ P!Goto(w, "raised")
        /\ pInserts' = [pInserts EXCEPT ![w] = P!Empty] /\ pSave' = [pSave EXCEPT ![w] = P!Empty]
        /\ UNCHANGED <<pProduct, pListing, pBatch, pPairs, pAt, pI, pInserted, pRejected, pExcused>>
    BY <1>10 DEF P!Abort
  <2>2. /\ pInserts' \in [Writer -> RowSets] /\ pSave' \in [Writer -> RowSets]
    BY <1>0, <1>e, <2>1 DEF PTypes
  <2>3. pPc' \in [Writer -> P!PCs] /\ pPc'[w] = "raised"  BY <1>0, <2>1 DEF PTypes, P!Goto, P!PCs
  <2>4. PTypes'  BY <1>0, <2>1, <2>2, <2>3 DEF PTypes
  <2>5. Placed(w)'  BY <1>0, <2>1, <2>3 DEF Placed, InChunk
  <2>6. Paired(w)'  BY <2>3 DEF Paired
  <2> QED  BY <1>0, <2>1, <2>4, <2>5, <2>6 DEF P!NoOrphan
<1> QED  BY <1>1, <1>2, <1>3, <1>4, <1>5, <1>7, <1>8, <1>9, <1>10 DEF P!Step

LEMMA PairStep == ASSUME PairInv, NEW w \in Writer, P!Step(w) PROVE PairInv'
<1>1. \A v \in Writer : v # w => Placed(v)' /\ Paired(v)'  BY OthersStay DEF PairInv
<1>2. PTypes' /\ P!NoOrphan' /\ Placed(w)' /\ Paired(w)'  BY OwnRows
<1> QED  BY <1>1, <1>2 DEF PairInv

LEMMA PairStays == ASSUME PairInv, [P!Next]_pVars PROVE PairInv'
<1>1. CASE UNCHANGED pVars
  <2>1. UNCHANGED <<pProduct, pListing, pBatch, pPairs, pPc, pAt, pI, pInserts, pSave, pInserted,
                    pRejected, pExcused>>
    BY <1>1 DEF pVars
  <2>2. PTypes' /\ P!NoOrphan'  BY <2>1 DEF PairInv, PTypes, P!NoOrphan
  <2>3. \A w \in Writer : /\ P!ChunkEnd(w)' = P!ChunkEnd(w) /\ P!Wanted(w)' = P!Wanted(w)
                          /\ P!ChunkUrls(w)' = P!ChunkUrls(w)
                          /\ Urls(w, pAt[w], pI[w] - 1)' = Urls(w, pAt[w], pI[w] - 1)
    BY <2>1 DEF P!ChunkEnd, P!Wanted, P!ChunkUrls, Urls
  <2>4. \A w \in Writer : Placed(w)' /\ Paired(w)'  BY <2>1, <2>3 DEF PairInv, Placed, Paired
  <2> QED  BY <2>2, <2>4 DEF PairInv
<1>2. CASE P!Next  BY <1>2, PairStep DEF P!Next
<1> QED  BY <1>1, <1>2

\* No product without its listing, whichever chunk or pair is refused and rolled back: the
\* savepoints of write_pool_dtos_sync take back a product with its listing.
THEOREM NoOrphanProduct == (P!Spec => []P!NoOrphan) /\ (MCSpec => []NoOrphan)
<1>1. P!Spec => []P!NoOrphan
  <2>1. UNCHANGED P!vars <=> UNCHANGED pVars  BY DEF P!vars, pVars
  <2>2. ASSUME PairInv, [P!Next]_(P!vars) PROVE PairInv'  BY <2>1, <2>2, PairStays
  <2>3. PairInv => P!NoOrphan  BY DEF PairInv
  <2> QED  BY <2>2, <2>3, PairInit, PTL DEF P!Spec
<1>2. MCInit => (part = "write" => PairInv)  BY PairInit DEF MCInit
<1>3. ASSUME part = "write" => PairInv, [MCNext]_allVars PROVE (part = "write" => PairInv)'
  BY <1>3, WritePart, PairStays
<1>4. (part = "write" => PairInv) => NoOrphan  BY DEF PairInv, NoOrphan
<1>5. MCSpec => []NoOrphan  BY <1>2, <1>3, <1>4, PTL DEF MCSpec, allVars
<1> QED  BY <1>1, <1>5

-----------------------------------------------------------------------------
(***************************************************************************)
(* The counters.  At every place they are those of the rows a writer has   *)
(* inserted, and with the pairs ahead of it they make up its batch.        *)
(***************************************************************************)
Own(w) == {e \in pListing : e[1] = w}

Size(w) == Len(pBatch[w])
Signs(w) == Len(pPairs[w])

AddsUp(w) ==
    /\ IsFiniteSet(pInserts[w].listing) /\ IsFiniteSet(pSave[w].listing)
    /\ pPc[w] \in {"chunk", "slow", "slow listing"} => pInserted[w] = Cardinality(pInserts[w].listing)
    /\ pPc[w] = "listings" =>
          /\ pInserted[w] = Cardinality(pSave[w].listing)
          /\ Cardinality(pInserts[w].listing) = pInserted[w] + pI[w] - pAt[w]
    /\ pPc[w] \in {"chunk", "listings"} =>
          pInserted[w] + pRejected[w] = Size(w) - Signs(w) + pAt[w] - 1
    /\ pPc[w] \in {"slow", "slow listing"} =>
          pInserted[w] + pRejected[w] = Size(w) - Signs(w) + pI[w] - 1
    /\ pPc[w] # "committed" => Own(w) = {}
    /\ pPc[w] = "committed" =>
          pInserted[w] = Cardinality(Own(w)) /\ pInserted[w] + pRejected[w] = Size(w)

CountInv == PairInv /\ \A w \in Writer : AddsUp(w)

\* The rows of a writer are as many as its URLs.
LEMMA RowsCount ==
    ASSUME NEW w, NEW urls, IsFiniteSet(urls)
    PROVE  IsFiniteSet(P!Rows(w, urls)) /\ Cardinality(P!Rows(w, urls)) = Cardinality(urls)
<1> DEFINE rows == {<<w, m>> : m \in urls}
           pairing == [m \in urls |-> <<w, m>>]
<1>1. pairing \in Bijection(urls, rows)
  <2>1. pairing \in [urls -> rows]  OBVIOUS
  <2>2. \A m, n \in urls : pairing[m] = pairing[n] => m = n  OBVIOUS
  <2>3. \A e \in rows : \E m \in urls : pairing[m] = e  OBVIOUS
  <2> HIDE DEF pairing, rows
  <2> QED  BY <2>1, <2>2, <2>3 DEF Bijection, Injection, Surjection, IsInjective
<1>2. ExistsBijection(urls, rows)  BY <1>1 DEF ExistsBijection
<1> HIDE DEF rows
<1>3. IsFiniteSet(rows) /\ Cardinality(rows) = Cardinality(urls)  BY <1>2, FS_Bijection
<1> QED  BY <1>3 DEF rows, P!Rows

\* An insert of a URL that was not taken counts one.
LEMMA InsertCounts ==
    ASSUME NEW urls, IsFiniteSet(urls), NEW m, m \notin urls
    PROVE  IsFiniteSet(urls \cup {m}) /\ Cardinality(urls \cup {m}) = Cardinality(urls) + 1
BY FS_AddElement

LEMMA OthersCount ==
    ASSUME PTypes, NEW w \in Writer, P!Step(w), NEW v \in Writer, v # w, AddsUp(v)
    PROVE  AddsUp(v)'
<1>1. /\ pPairs'[v] = pPairs[v] /\ pPc'[v] = pPc[v] /\ pAt'[v] = pAt[v] /\ pI'[v] = pI[v]
      /\ pInserts'[v] = pInserts[v] /\ pSave'[v] = pSave[v] /\ pInserted'[v] = pInserted[v]
      /\ pRejected'[v] = pRejected[v] /\ pBatch' = pBatch
  BY Alone
<1>2. pListing' = pListing \/ pListing' = pListing \cup P!Rows(w, pInserts[w].listing)
  BY DEF P!Step, P!Evaluate, P!FastProducts, P!FastListing, P!FastRefused, P!SlowProduct,
         P!SlowListing, P!SlowRefused, P!Commit, P!Abort
<1>3. Own(v)' = Own(v)  BY <1>2 DEF Own, P!Rows
<1>4. Size(v)' = Size(v) /\ Signs(v)' = Signs(v)  BY <1>1 DEF Size, Signs
<1> QED  BY <1>1, <1>3, <1>4 DEF AddsUp

LEMMA CountInit == P!Init => CountInv
<1>1. P!Empty.listing = {} /\ IsFiniteSet({}) /\ Cardinality({}) = 0  BY FS_EmptySet DEF P!Empty
<1>2. P!Init => \A w \in Writer : Own(w) = {} /\ AddsUp(w)  BY <1>1 DEF P!Init, AddsUp, Own
<1> QED  BY <1>2, PairInit DEF CountInv

\* One step of a writer, its own counters.
LEMMA OwnCount == ASSUME CountInv, NEW w \in Writer, P!Step(w) PROVE AddsUp(w)'
<1>0. /\ PTypes /\ Placed(w) /\ Paired(w) /\ AddsUp(w)
      /\ Size(w) \in Nat /\ Signs(w) \in Nat /\ pAt[w] \in Nat /\ pI[w] \in Nat
      /\ pInserted[w] \in Nat /\ pRejected[w] \in Nat /\ pPc[w] \in P!PCs
      /\ pInserts[w] \in RowSets /\ pSave[w] \in RowSets
  <2>1. PTypes /\ Placed(w) /\ Paired(w) /\ AddsUp(w)  BY DEF CountInv, PairInv
  <2>2. pPairs[w] \in Seq(Url) /\ pBatch[w] \in Seq(Url)  BY <2>1 DEF PTypes
  <2>5. Size(w) \in Nat /\ Signs(w) \in Nat  BY <2>2 DEF Size, Signs
  <2>3. /\ pAt[w] \in Nat /\ pI[w] \in Nat /\ pInserted[w] \in Nat /\ pRejected[w] \in Nat
        /\ pPc[w] \in P!PCs /\ pInserts[w] \in RowSets /\ pSave[w] \in RowSets
    BY <2>1 DEF PTypes
  <2> QED  BY <2>1, <2>3, <2>5
<1>e. P!Empty.listing = {} /\ IsFiniteSet({}) /\ Cardinality({}) = 0  BY FS_EmptySet DEF P!Empty
<1>c. Cardinality(pInserts[w].listing) \in Nat /\ Cardinality(pSave[w].listing) \in Nat
  BY <1>0, FS_CardinalityType DEF AddsUp
<1>t. PTypes'  BY PairStep DEF CountInv, PairInv
<1>n. /\ Size(w)' \in Nat /\ Signs(w)' \in Nat
      /\ pInserted'[w] \in Nat /\ pRejected'[w] \in Nat
  <2>1. pPairs'[w] \in Seq(Url) /\ pBatch'[w] \in Seq(Url)  BY <1>t DEF PTypes
  <2> QED  BY <1>t, <2>1 DEF PTypes, Size, Signs
<1>q. ASSUME pListing' = pListing PROVE Own(w)' = Own(w)  BY <1>q DEF Own
<1>z. /\ pBatch' = pBatch => Size(w)' = Size(w)
      /\ pPairs' = pPairs => Signs(w)' = Signs(w)
  BY DEF Size, Signs
<1>1. CASE P!Evaluate(w)
  <2>1. /\ pPc[w] = "evaluate" /\ pPc'[w] = "chunk" /\ pInserts' = pInserts /\ pSave' = pSave
        /\ pRejected'[w] = Size(w)' - Signs(w)'
        /\ UNCHANGED <<pListing, pBatch, pAt, pInserted>>
    BY <1>0, <1>1 DEF P!Evaluate, P!Goto, PTypes, Size, Signs
  <2>3. pAt[w] = 1 /\ pInserted[w] = 0 /\ pInserts[w].listing = {}  BY <1>0, <1>e, <2>1 DEF Placed
  <2>4. pInserted'[w] + pRejected'[w] = Size(w)' - Signs(w)' + pAt'[w] - 1
    BY <1>n, <2>1, <2>3
  <2> QED  BY <1>0, <1>e, <1>q, <2>1, <2>3, <2>4 DEF AddsUp
<1>2. CASE P!FastProducts(w)
  <2>1. /\ pPc[w] = "chunk" /\ pPc'[w] = "listings" /\ pSave'[w] = pInserts[w] /\ pI'[w] = pAt[w]
        /\ UNCHANGED <<pListing, pBatch, pPairs, pAt, pInserted, pRejected>>
    BY <1>0, <1>2 DEF P!FastProducts, P!Goto, PTypes
  <2>2. pInserts'[w].listing = pInserts[w].listing
    BY <1>0, <1>2 DEF P!FastProducts, PTypes, RowSets
  <2>3. pInserted[w] = Cardinality(pInserts[w].listing)  BY <1>0, <2>1 DEF AddsUp
  <2>4. Cardinality(pInserts'[w].listing) = pInserted'[w] + pI'[w] - pAt'[w]
    BY <1>0, <2>1, <2>2, <2>3
  <2> QED  BY <1>0, <1>q, <1>z, <2>1, <2>2, <2>3, <2>4 DEF AddsUp
<1>3. CASE P!FastListing(w)
  <2>1. /\ pPc[w] = "listings" /\ P!Free(w)
        /\ UNCHANGED <<pListing, pBatch, pPairs, pSave, pRejected>>
    BY <1>3 DEF P!FastListing
  <2>2. pInserts'[w].listing = pInserts[w].listing \cup {P!Wanted(w)}
    BY <1>0, <1>3 DEF P!FastListing, PTypes, RowSets
  <2>3. P!Wanted(w) \notin pInserts[w].listing  BY <2>1 DEF P!Free, P!Taken
  <2>4. /\ IsFiniteSet(pInserts'[w].listing)
        /\ Cardinality(pInserts'[w].listing) = Cardinality(pInserts[w].listing) + 1
    <3>1. IsFiniteSet(pInserts[w].listing)  BY <1>0 DEF AddsUp
    <3> QED  BY <2>2, <2>3, <3>1, InsertCounts
  <2>5. CASE pI[w] = P!ChunkEnd(w)
    <3>1. pPc'[w] = "chunk" /\ pAt'[w] = pI[w] + 1 /\ pInserted'[w] = pInserted[w] + pI[w] - pAt[w] + 1
      BY <1>0, <1>3, <2>5 DEF P!FastListing, P!Goto, PTypes
    <3>2. pInserted'[w] = Cardinality(pInserts'[w].listing)
      BY <1>0, <1>c, <2>1, <2>4, <3>1 DEF AddsUp
    <3>3. pInserted'[w] + pRejected'[w] = Size(w)' - Signs(w)' + pAt'[w] - 1
      <4>1. pInserted[w] + pRejected[w] = Size(w) - Signs(w) + pAt[w] - 1
        BY <1>0, <2>1 DEF AddsUp
      <4>2. pRejected'[w] = pRejected[w] /\ Size(w)' = Size(w) /\ Signs(w)' = Signs(w)
        BY <2>1 DEF Size, Signs
      <4> QED  BY <1>0, <3>1, <4>1, <4>2
    <3> QED  BY <1>0, <1>q, <2>1, <2>4, <3>1, <3>2, <3>3 DEF AddsUp
  <2>6. CASE pI[w] # P!ChunkEnd(w)
    <3>1. pI'[w] = pI[w] + 1 /\ UNCHANGED <<pInserted, pAt, pPc>>
      BY <1>0, <1>3, <2>6 DEF P!FastListing, PTypes
    <3>2. Cardinality(pInserts'[w].listing) = pInserted'[w] + pI'[w] - pAt'[w]
      BY <1>0, <1>c, <2>1, <2>4, <3>1 DEF AddsUp
    <3> QED  BY <1>0, <1>q, <1>z, <2>1, <2>4, <3>1, <3>2 DEF AddsUp
  <2> QED  BY <2>5, <2>6
<1>4. CASE P!FastRefused(w)
  <2>1. /\ pPc[w] = "listings" /\ pPc'[w] = "slow" /\ pInserts'[w] = pSave[w] /\ pI'[w] = pAt[w]
        /\ UNCHANGED <<pListing, pBatch, pPairs, pAt, pSave, pInserted, pRejected>>
    BY <1>0, <1>4 DEF P!FastRefused, P!RollBack, P!Goto, PTypes
  <2> QED  BY <1>0, <1>q, <1>z, <2>1 DEF AddsUp
<1>5. CASE P!SlowProduct(w)
  <2>1. /\ pPc[w] = "slow" /\ pPc'[w] = "slow listing" /\ pSave'[w] = pInserts[w]
        /\ UNCHANGED <<pListing, pBatch, pPairs, pI, pInserted, pRejected>>
    BY <1>0, <1>5 DEF P!SlowProduct, P!Goto, PTypes
  <2>2. pInserts'[w].listing = pInserts[w].listing
    BY <1>0, <1>5 DEF P!SlowProduct, PTypes, RowSets
  <2> QED  BY <1>0, <1>q, <1>z, <2>1, <2>2 DEF AddsUp
<1>6. ASSUME pPc[w] = "slow listing", P!NextPair(w)
      PROVE  \/ pPc'[w] = "slow" /\ pI'[w] = pI[w] + 1
             \/ pPc'[w] = "chunk" /\ pAt'[w] = pI[w] + 1
  BY <1>0, <1>6 DEF P!NextPair, P!Goto, PTypes
<1>7. CASE P!SlowListing(w)
  <2>1. /\ pPc[w] = "slow listing" /\ P!NextPair(w) /\ P!Free(w)
        /\ pInserted'[w] = pInserted[w] + 1
        /\ UNCHANGED <<pListing, pBatch, pPairs, pSave, pRejected>>
    BY <1>0, <1>7 DEF P!SlowListing, PTypes
  <2>2. pInserts'[w].listing = pInserts[w].listing \cup {P!Wanted(w)}
    BY <1>0, <1>7 DEF P!SlowListing, PTypes, RowSets
  <2>3. P!Wanted(w) \notin pInserts[w].listing  BY <2>1 DEF P!Free, P!Taken
  <2>4. /\ IsFiniteSet(pInserts'[w].listing)
        /\ Cardinality(pInserts'[w].listing) = Cardinality(pInserts[w].listing) + 1
    <3>1. IsFiniteSet(pInserts[w].listing)  BY <1>0 DEF AddsUp
    <3> QED  BY <2>2, <2>3, <3>1, InsertCounts
  <2>5. pInserted'[w] = Cardinality(pInserts'[w].listing)  BY <1>0, <2>1, <2>4 DEF AddsUp
  <2>6. pInserted'[w] + pRejected'[w] = Size(w)' - Signs(w)' + pI[w]
    <3>1. pInserted[w] + pRejected[w] = Size(w) - Signs(w) + pI[w] - 1
      BY <1>0, <2>1 DEF AddsUp
    <3>2. pRejected'[w] = pRejected[w] /\ Size(w)' = Size(w) /\ Signs(w)' = Signs(w)
        BY <2>1 DEF Size, Signs
    <3>3. pInserted'[w] = pInserted[w] + 1  BY <2>1
    <3> QED  BY <1>0, <3>1, <3>2, <3>3
  <2>7. CASE pPc'[w] = "slow" /\ pI'[w] = pI[w] + 1
    <3>1. pInserted'[w] + pRejected'[w] = Size(w)' - Signs(w)' + pI'[w] - 1
      BY <1>0, <1>n, <2>6, <2>7
    <3> QED  BY <1>0, <1>q, <2>1, <2>4, <2>5, <2>7, <3>1 DEF AddsUp
  <2>8. CASE pPc'[w] = "chunk" /\ pAt'[w] = pI[w] + 1
    <3>1. pInserted'[w] + pRejected'[w] = Size(w)' - Signs(w)' + pAt'[w] - 1
      BY <1>0, <1>n, <2>6, <2>8
    <3> QED  BY <1>0, <1>q, <2>1, <2>4, <2>5, <2>8, <3>1 DEF AddsUp
  <2> QED  BY <1>6, <2>1, <2>7, <2>8
<1>8. CASE P!SlowRefused(w)
  <2>1. /\ pPc[w] = "slow listing" /\ P!NextPair(w) /\ pInserts'[w] = pSave[w]
        /\ pRejected'[w] = pRejected[w] + 1
        /\ UNCHANGED <<pListing, pBatch, pPairs, pSave, pInserted>>
    BY <1>0, <1>8 DEF P!SlowRefused, P!RollBack, PTypes
  <2>2. pInserts'[w].listing = pInserts[w].listing  BY <1>0, <2>1 DEF Paired
  <2>3. pInserted'[w] = Cardinality(pInserts'[w].listing)  BY <1>0, <2>1, <2>2 DEF AddsUp
  <2>4. pInserted'[w] + pRejected'[w] = Size(w)' - Signs(w)' + pI[w]
    <3>1. pInserted[w] + pRejected[w] = Size(w) - Signs(w) + pI[w] - 1
      BY <1>0, <2>1 DEF AddsUp
    <3>2. pInserted'[w] = pInserted[w] /\ Size(w)' = Size(w) /\ Signs(w)' = Signs(w)
        BY <2>1 DEF Size, Signs
    <3>3. pRejected'[w] = pRejected[w] + 1  BY <2>1
    <3> QED  BY <1>0, <3>1, <3>2, <3>3
  <2>5. CASE pPc'[w] = "slow" /\ pI'[w] = pI[w] + 1
    <3>1. pInserted'[w] + pRejected'[w] = Size(w)' - Signs(w)' + pI'[w] - 1
      BY <1>0, <1>n, <2>4, <2>5
    <3> QED  BY <1>0, <1>q, <2>1, <2>2, <2>3, <2>5, <3>1 DEF AddsUp
  <2>6. CASE pPc'[w] = "chunk" /\ pAt'[w] = pI[w] + 1
    <3>1. pInserted'[w] + pRejected'[w] = Size(w)' - Signs(w)' + pAt'[w] - 1
      BY <1>0, <1>n, <2>4, <2>6
    <3> QED  BY <1>0, <1>q, <2>1, <2>2, <2>3, <2>6, <3>1 DEF AddsUp
  <2> QED  BY <1>6, <2>1, <2>5, <2>6
<1>9. CASE P!Commit(w)
  <2>1. /\ pPc[w] = "chunk" /\ pAt[w] > Len(pPairs[w]) /\ pPc'[w] = "committed"
        /\ pListing' = pListing \cup P!Rows(w, pInserts[w].listing)
        /\ pInserts'[w] = P!Empty /\ pSave'[w] = P!Empty
        /\ UNCHANGED <<pBatch, pPairs, pAt, pInserted, pRejected>>
    BY <1>0, <1>9 DEF P!Commit, P!Goto, PTypes
  <2>2. Own(w)' = P!Rows(w, pInserts[w].listing)
    <3>1. Own(w) = {}  BY <1>0, <2>1 DEF AddsUp
    <3> QED  BY <2>1, <3>1 DEF Own, P!Rows
  <2>3. Cardinality(Own(w)') = pInserted[w]
    <3>1. IsFiniteSet(pInserts[w].listing) /\ pInserted[w] = Cardinality(pInserts[w].listing)
      BY <1>0, <2>1 DEF AddsUp
    <3> QED  BY <2>2, <3>1, RowsCount
  <2>4. pAt[w] = Signs(w) + 1  BY <1>0, <2>1 DEF Placed, Signs
  <2>5. pInserted[w] + pRejected[w] = Size(w)  BY <1>0, <2>1, <2>4 DEF AddsUp
  <2>6. Size(w)' = Size(w)  BY <2>1 DEF Size
  <2> QED  BY <1>e, <2>1, <2>3, <2>5, <2>6 DEF AddsUp
<1>10. CASE P!Abort(w)
  <2>1. /\ pPc[w] # "committed" /\ pPc'[w] = "raised" /\ pListing' = pListing
        /\ pInserts'[w] = P!Empty /\ pSave'[w] = P!Empty
    BY <1>0, <1>10 DEF P!Abort, P!Goto, PTypes
  <2> QED  BY <1>0, <1>e, <1>q, <2>1 DEF AddsUp
<1> QED  BY <1>1, <1>2, <1>3, <1>4, <1>5, <1>7, <1>8, <1>9, <1>10 DEF P!Step

LEMMA CountStays == ASSUME CountInv, [P!Next]_pVars PROVE CountInv'
<1>0. PairInv'  BY PairStays DEF CountInv
<1>1. CASE UNCHANGED pVars
  <2>1. UNCHANGED <<pListing, pBatch, pPairs, pPc, pAt, pI, pInserts, pSave, pInserted, pRejected>>
    BY <1>1 DEF pVars
  <2>2. \A w \in Writer : Own(w)' = Own(w) /\ Size(w)' = Size(w) /\ Signs(w)' = Signs(w)
    BY <2>1 DEF Own, Size, Signs
  <2> QED  BY <1>0, <2>1, <2>2 DEF CountInv, AddsUp
<1>2. CASE P!Next
  <2>1. PICK w \in Writer : P!Step(w)  BY <1>2 DEF P!Next
  <2>2. \A v \in Writer : v # w => AddsUp(v)'  BY <2>1, OthersCount DEF CountInv, PairInv
  <2> QED  BY <1>0, <2>1, <2>2, OwnCount DEF CountInv
<1> QED  BY <1>1, <1>2

LEMMA CountInvCounts == CountInv => P!CountsTrue
<1>1. \A w \in Writer : P!Cardinality(Own(w)) = Cardinality(Own(w))  BY SameCardinality
<1>2. \A w \in Writer : Own(w) = {e \in pListing : e[1] = w}  BY DEF Own
<1>3. ASSUME CountInv, NEW w \in Writer, pPc[w] = "committed"
      PROVE  /\ pInserted[w] = P!Cardinality(Own(w)) /\ pInserted[w] + pRejected[w] = Size(w)
  BY <1>1, <1>3 DEF CountInv, AddsUp
<1> QED  BY <1>2, <1>3 DEF P!CountsTrue, Size

-----------------------------------------------------------------------------
(***************************************************************************)
(* The URLs of a batch.  While nobody has raised, each of them is          *)
(* committed, inserted by an open transaction, or ahead of some writer:    *)
(* what a rollback takes back is ahead of its writer again, and a pair is  *)
(* given up only for a URL that another one has.                           *)
(***************************************************************************)
Ahead(w) ==
    CASE pPc[w] = "evaluate" -> {pBatch[w][k] : k \in DOMAIN pBatch[w]}
      [] pPc[w] \in {"chunk", "listings"} -> Urls(w, pAt[w], Len(pPairs[w]))
      [] pPc[w] \in {"slow", "slow listing"} -> Urls(w, pI[w], Len(pPairs[w]))
      [] OTHER -> {}

\* Some writer has the URL, or has it ahead.
Has(v, m) == <<v, m>> \in pListing \/ m \in pInserts[v].listing \/ m \in Ahead(v)

InSight(m) == m \in pExcused \/ \E v \in Writer : Has(v, m)

KeptInv ==
    (\A v \in Writer : pPc[v] # "raised") =>
        \A w \in Writer : \A k \in DOMAIN pBatch[w] :
            P!Signed(pBatch[w][k]) => InSight(pBatch[w][k])

LEMMA OthersHave ==
    ASSUME PTypes, NEW w \in Writer, P!Step(w), NEW v \in Writer, v # w, NEW m, Has(v, m)
    PROVE  Has(v, m)'
<1>1. /\ pPairs'[v] = pPairs[v] /\ pPc'[v] = pPc[v] /\ pAt'[v] = pAt[v] /\ pI'[v] = pI[v]
      /\ pInserts'[v] = pInserts[v] /\ pBatch' = pBatch
  BY Alone
<1>2. pListing \subseteq pListing'
  BY DEF P!Step, P!Evaluate, P!FastProducts, P!FastListing, P!FastRefused, P!SlowProduct,
         P!SlowListing, P!SlowRefused, P!Commit, P!Abort
<1>3. Ahead(v)' = Ahead(v)
  <2>1. Urls(v, pAt[v], Len(pPairs[v]))' = Urls(v, pAt[v], Len(pPairs[v]))  BY <1>1 DEF Urls
  <2>2. Urls(v, pI[v], Len(pPairs[v]))' = Urls(v, pI[v], Len(pPairs[v]))  BY <1>1 DEF Urls
  <2> QED  BY <1>1, <2>1, <2>2 DEF Ahead
<1> QED  BY <1>1, <1>2, <1>3 DEF Has

\* What a writer has stays in sight through a step of its own.
LEMMA OwnInSight ==
    ASSUME PairInv, NEW w \in Writer, P!Step(w), pPc'[w] # "raised", NEW m, P!Signed(m), Has(w, m)
    PROVE  InSight(m)' \/ \E v \in Writer : v # w /\ Has(v, m)
<1>0. /\ PTypes /\ Placed(w) /\ Paired(w)
      /\ Len(pPairs[w]) \in Nat /\ pAt[w] \in Nat /\ pI[w] \in Nat /\ pAt[w] > 0 /\ pI[w] > 0
  <2>1. PTypes /\ Placed(w) /\ Paired(w)  BY DEF PairInv
  <2>2. pPairs[w] \in Seq(Url)  BY <2>1 DEF PTypes
  <2>3. Len(pPairs[w]) \in Nat  BY <2>2
  <2>4. pAt[w] \in Nat /\ pI[w] \in Nat /\ pAt[w] > 0 /\ pI[w] > 0  BY <2>1 DEF PTypes
  <2> QED  BY <2>1, <2>3, <2>4
<1>l. ASSUME <<w, m>> \in pListing PROVE InSight(m)'
  <2>1. pListing \subseteq pListing'
    BY DEF P!Step, P!Evaluate, P!FastProducts, P!FastListing, P!FastRefused, P!SlowProduct,
           P!SlowListing, P!SlowRefused, P!Commit, P!Abort
  <2> QED  BY <1>l, <2>1 DEF InSight, Has
<1>i. ASSUME m \in pInserts'[w].listing PROVE InSight(m)'  BY <1>i DEF InSight, Has
<1>a. ASSUME m \in Ahead(w)' PROVE InSight(m)'  BY <1>a DEF InSight, Has
<1>u. ASSUME NEW from \in Nat, NEW to \in Nat, m \in Urls(w, from, to)
      PROVE  m = pPairs[w][from] \/ m \in Urls(w, from + 1, to)
  <2>1. PICK k \in from..to : m = pPairs[w][k]  BY <1>u DEF Urls
  <2>2. k = from \/ k \in (from + 1)..to  OBVIOUS
  <2> QED  BY <2>1, <2>2 DEF Urls
<1>1. CASE P!Evaluate(w)
  <2>1. /\ pPc[w] = "evaluate" /\ pPc'[w] = "chunk" /\ pAt'[w] = 1 /\ pInserts' = pInserts
        /\ pListing' = pListing
    BY <1>0, <1>1 DEF P!Evaluate, P!Goto, PTypes, Placed
  <2>2. CASE m \in Ahead(w)
    <3>1. PICK k \in DOMAIN pBatch[w] : m = pBatch[w][k]  BY <2>1, <2>2 DEF Ahead
    <3>2. CASE \E passed \in P!Passed(pBatch[w]) : pPairs' = [pPairs EXCEPT ![w] = passed]
      <4>1. PICK passed \in P!Passed(pBatch[w]) : pPairs'[w] = passed  BY <1>0, <3>2 DEF PTypes
      <4>2. pBatch[w] \in Seq(Url)  BY <1>0 DEF PTypes
      <4>3. \E n \in 1..Len(passed) : passed[n] = m  BY <3>1, <4>2, PassedPairs
      <4>4. m \in Ahead(w)'  BY <2>1, <4>1, <4>3 DEF Ahead, Urls
      <4> QED  BY <1>a, <4>4
    <3>3. CASE pExcused' = pExcused \cup {pBatch[w][n] : n \in DOMAIN pBatch[w]}
      BY <3>1, <3>3 DEF InSight
    <3> QED  BY <1>1, <3>2, <3>3 DEF P!Evaluate
  <2>3. CASE m \in pInserts[w].listing  BY <1>i, <2>1, <2>3
  <2> QED  BY <1>l, <2>2, <2>3 DEF Has
<1>2. CASE P!FastProducts(w)
  <2>1. /\ pPc[w] = "chunk" /\ pPc'[w] = "listings" /\ UNCHANGED <<pPairs, pAt>>
    BY <1>0, <1>2 DEF P!FastProducts, P!Goto, PTypes
  <2>2. pInserts'[w].listing = pInserts[w].listing
    BY <1>0, <1>2 DEF P!FastProducts, PTypes, RowSets
  <2>3. Ahead(w)' = Ahead(w)
    <3>1. Ahead(w) = Urls(w, pAt[w], Len(pPairs[w]))  BY <2>1 DEF Ahead
    <3>2. Ahead(w)' = Urls(w, pAt[w], Len(pPairs[w]))'  BY <2>1 DEF Ahead
    <3> QED  BY <2>1, <3>1, <3>2 DEF Urls
  <2> QED  BY <1>a, <1>i, <1>l, <2>2, <2>3 DEF Has
<1>3. CASE P!FastListing(w)
  <2>1. pPc[w] = "listings" /\ pPairs' = pPairs  BY <1>3 DEF P!FastListing
  <2>2. pInserts'[w].listing = pInserts[w].listing \cup {P!Wanted(w)}
    BY <1>0, <1>3 DEF P!FastListing, PTypes, RowSets
  <2>3. Ahead(w) = Urls(w, pAt[w], Len(pPairs[w]))  BY <2>1 DEF Ahead
  <2>4. CASE pI[w] = P!ChunkEnd(w)
    <3>1. pPc'[w] = "chunk" /\ pAt'[w] = pI[w] + 1
      BY <1>0, <1>3, <2>4 DEF P!FastListing, P!Goto, PTypes
    <3>2. CASE m \in Ahead(w)
      <4>1. PICK k \in pAt[w]..Len(pPairs[w]) : m = pPairs[w][k]  BY <2>3, <3>2 DEF Urls
      <4>2. k \in pAt[w]..(pI[w] - 1) \/ k = pI[w] \/ k \in (pI[w] + 1)..Len(pPairs[w])  BY <1>0
      <4>3. CASE k \in pAt[w]..(pI[w] - 1)
        <5>1. m \in pInserts[w].listing  BY <1>0, <2>1, <4>1, <4>3 DEF Paired, Urls
        <5> QED  BY <1>i, <2>2, <5>1
      <4>4. CASE k = pI[w]  BY <1>i, <2>2, <4>1, <4>4 DEF P!Wanted
      <4>5. CASE k \in (pI[w] + 1)..Len(pPairs[w])
        <5>1. m \in Urls(w, pAt[w], Len(pPairs[w]))'  BY <2>1, <3>1, <4>1, <4>5 DEF Urls
        <5>2. m \in Ahead(w)'  BY <3>1, <5>1 DEF Ahead
        <5> QED  BY <1>a, <5>2
      <4> QED  BY <4>2, <4>3, <4>4, <4>5
    <3> QED  BY <1>i, <1>l, <2>2, <3>2 DEF Has
  <2>5. CASE pI[w] # P!ChunkEnd(w)
    <3>1. UNCHANGED <<pAt, pPc>>  BY <1>3, <2>5 DEF P!FastListing
    <3>2. Ahead(w)' = Ahead(w)
      <4>1. Ahead(w)' = Urls(w, pAt[w], Len(pPairs[w]))'  BY <2>1, <3>1 DEF Ahead
      <4> QED  BY <2>1, <2>3, <3>1, <4>1 DEF Urls
    <3> QED  BY <1>a, <1>i, <1>l, <2>2, <3>2 DEF Has
  <2> QED  BY <2>4, <2>5
<1>4. CASE P!FastRefused(w)
  <2>1. /\ pPc[w] = "listings" /\ pPc'[w] = "slow" /\ pInserts'[w] = pSave[w] /\ pI'[w] = pAt[w]
        /\ UNCHANGED <<pPairs, pAt>>
    BY <1>0, <1>4 DEF P!FastRefused, P!RollBack, P!Goto, PTypes
  <2>2. Ahead(w)' = Ahead(w)
    <3>1. Ahead(w) = Urls(w, pAt[w], Len(pPairs[w]))  BY <2>1 DEF Ahead
    <3>2. Ahead(w)' = Urls(w, pI[w], Len(pPairs[w]))'  BY <2>1 DEF Ahead
    <3> QED  BY <2>1, <3>1, <3>2 DEF Urls
  <2>3. CASE m \in pInserts[w].listing
    <3>1. m \in pSave[w].listing \/ m \in Urls(w, pAt[w], pI[w] - 1)  BY <1>0, <2>1, <2>3 DEF Paired
    <3>2. CASE m \in Urls(w, pAt[w], pI[w] - 1)
      <4>1. pI[w] <= Len(pPairs[w])  BY <1>0, <2>1, PairWithin DEF InChunk
      <4>2. PICK k \in pAt[w]..(pI[w] - 1) : m = pPairs[w][k]  BY <3>2 DEF Urls
      <4>3. k \in pAt[w]..Len(pPairs[w])  BY <1>0, <4>1
      <4>4. m \in Ahead(w)  BY <2>1, <4>2, <4>3 DEF Ahead, Urls
      <4> QED  BY <1>a, <2>2, <4>4
    <3> QED  BY <1>i, <2>1, <3>1, <3>2
  <2> QED  BY <1>a, <1>l, <2>2, <2>3 DEF Has
<1>5. CASE P!SlowProduct(w)
  <2>1. /\ pPc[w] = "slow" /\ pPc'[w] = "slow listing" /\ UNCHANGED <<pPairs, pI>>
    BY <1>0, <1>5 DEF P!SlowProduct, P!Goto, PTypes
  <2>2. pInserts'[w].listing = pInserts[w].listing
    BY <1>0, <1>5 DEF P!SlowProduct, PTypes, RowSets
  <2>3. Ahead(w)' = Ahead(w)
    <3>1. Ahead(w) = Urls(w, pI[w], Len(pPairs[w]))  BY <2>1 DEF Ahead
    <3>2. Ahead(w)' = Urls(w, pI[w], Len(pPairs[w]))'  BY <2>1 DEF Ahead
    <3> QED  BY <2>1, <3>1, <3>2 DEF Urls
  <2> QED  BY <1>a, <1>i, <1>l, <2>2, <2>3 DEF Has
<1>6. ASSUME pPc[w] = "slow listing", P!NextPair(w), pPairs' = pPairs, m \in Ahead(w)
      PROVE  m = P!Wanted(w) \/ m \in Ahead(w)'
  <2>1. m \in Urls(w, pI[w], Len(pPairs[w]))  BY <1>6 DEF Ahead
  <2>2. m = P!Wanted(w) \/ m \in Urls(w, pI[w] + 1, Len(pPairs[w]))  BY <1>0, <1>u, <2>1 DEF P!Wanted
  <2>3. \/ pPc'[w] = "slow" /\ pI'[w] = pI[w] + 1
        \/ pPc'[w] = "chunk" /\ pAt'[w] = pI[w] + 1
    BY <1>0, <1>6 DEF P!NextPair, P!Goto, PTypes
  <2>4. CASE pPc'[w] = "slow" /\ pI'[w] = pI[w] + 1
    <3>1. Ahead(w)' = Urls(w, pI[w], Len(pPairs[w]))'  BY <2>4 DEF Ahead
    <3>2. Urls(w, pI[w], Len(pPairs[w]))' = Urls(w, pI[w] + 1, Len(pPairs[w]))  BY <1>6, <2>4 DEF Urls
    <3> QED  BY <2>2, <3>1, <3>2
  <2>5. CASE pPc'[w] = "chunk" /\ pAt'[w] = pI[w] + 1
    <3>1. Ahead(w)' = Urls(w, pAt[w], Len(pPairs[w]))'  BY <2>5 DEF Ahead
    <3>2. Urls(w, pAt[w], Len(pPairs[w]))' = Urls(w, pI[w] + 1, Len(pPairs[w]))  BY <1>6, <2>5 DEF Urls
    <3> QED  BY <2>2, <3>1, <3>2
  <2> QED  BY <2>3, <2>4, <2>5
<1>7. CASE P!SlowListing(w)
  <2>1. /\ pPc[w] = "slow listing" /\ P!NextPair(w) /\ pPairs' = pPairs  BY <1>7 DEF P!SlowListing
  <2>2. pInserts'[w].listing = pInserts[w].listing \cup {P!Wanted(w)}
    BY <1>0, <1>7 DEF P!SlowListing, PTypes, RowSets
  <2>3. CASE m \in Ahead(w)  BY <1>6, <1>a, <1>i, <2>1, <2>2, <2>3
  <2> QED  BY <1>i, <1>l, <2>2, <2>3 DEF Has
<1>8. CASE P!SlowRefused(w)
  <2>1. /\ pPc[w] = "slow listing" /\ P!NextPair(w) /\ pInserts'[w] = pSave[w] /\ pPairs' = pPairs
        /\ P!Fails(w) /\ pListing' = pListing
    BY <1>0, <1>8 DEF P!SlowRefused, P!RollBack, PTypes
  <2>2. pInserts'[w].listing = pInserts[w].listing  BY <1>0, <2>1 DEF Paired
  <2>3. CASE m = P!Wanted(w)
    <3>1. CASE P!Taken(w)
      <4>1. CASE P!Wanted(w) \in pInserts[w].listing  BY <1>i, <2>2, <2>3, <4>1
      <4>2. CASE \E v \in Writer : <<v, P!Wanted(w)>> \in pListing
        BY <2>1, <2>3, <4>2 DEF InSight, Has
      <4> QED  BY <3>1, <4>1, <4>2 DEF P!Taken
    <3>2. CASE P!Deadlocked(w)  BY <2>3, <3>2 DEF P!Deadlocked, P!BlockedBy, Has
    <3>3. CASE pExcused' = pExcused \cup {P!Wanted(w)}  BY <2>3, <3>3 DEF InSight
    <3> QED  BY <2>1, <3>1, <3>2, <3>3 DEF P!Fails
  <2>4. CASE m \in Ahead(w)  BY <1>6, <1>a, <2>1, <2>3, <2>4
  <2> QED  BY <1>i, <1>l, <2>2, <2>4 DEF Has
<1>9. CASE P!Commit(w)
  <2>1. /\ pPc[w] = "chunk" /\ pAt[w] > Len(pPairs[w])
        /\ pListing' = pListing \cup P!Rows(w, pInserts[w].listing)
    BY <1>9 DEF P!Commit
  <2>2. Ahead(w) = {}
    <3>1. Ahead(w) = Urls(w, pAt[w], Len(pPairs[w]))  BY <2>1 DEF Ahead
    <3>2. pAt[w]..Len(pPairs[w]) = {}  BY <1>0, <2>1
    <3> QED  BY <3>1, <3>2 DEF Urls
  <2>3. CASE m \in pInserts[w].listing
    <3>1. <<w, m>> \in pListing'  BY <2>1, <2>3 DEF P!Rows
    <3> QED  BY <3>1 DEF InSight, Has
  <2> QED  BY <1>l, <2>2, <2>3 DEF Has
<1>10. CASE P!Abort(w)  BY <1>0, <1>10 DEF P!Abort, P!Goto, PTypes
<1> QED  BY <1>1, <1>2, <1>3, <1>4, <1>5, <1>7, <1>8, <1>9, <1>10 DEF P!Step

\* A URL in sight stays in sight until a writer raises.
LEMMA StaysInSight ==
    ASSUME PairInv, NEW w \in Writer, P!Step(w), pPc'[w] # "raised", NEW m, P!Signed(m), InSight(m)
    PROVE  InSight(m)'
<1>1. CASE m \in pExcused
  <2>1. pExcused \subseteq pExcused'
    BY DEF P!Step, P!Evaluate, P!FastProducts, P!FastListing, P!FastRefused, P!SlowProduct,
           P!SlowListing, P!SlowRefused, P!Commit, P!Abort, P!Fails
  <2> QED  BY <1>1, <2>1 DEF InSight
<1>2. ASSUME NEW v \in Writer, v # w, Has(v, m) PROVE InSight(m)'
  <2>1. Has(v, m)'  BY <1>2, OthersHave DEF PairInv
  <2> QED  BY <2>1 DEF InSight
<1>3. CASE Has(w, m)
  <2>1. InSight(m)' \/ \E v \in Writer : v # w /\ Has(v, m)  BY <1>3, OwnInSight
  <2> QED  BY <1>2, <2>1
<1> QED  BY <1>1, <1>2, <1>3 DEF InSight

LEMMA KeptStep == ASSUME PairInv, KeptInv, NEW w \in Writer, P!Step(w) PROVE KeptInv'
<1>0. PTypes /\ pBatch' = pBatch  BY Alone DEF PairInv
<1>1. ASSUME \A v \in Writer : pPc'[v] # "raised" PROVE \A v \in Writer : pPc[v] # "raised"
  <2>1. pPc[w] # "raised"
    BY DEF P!Step, P!Evaluate, P!FastProducts, P!FastListing, P!FastRefused, P!SlowProduct,
           P!SlowListing, P!SlowRefused, P!Commit, P!Abort
  <2> QED  BY <1>0, <1>1, <2>1, Alone
<1>2. ASSUME \A v \in Writer : pPc'[v] # "raised",
             NEW o \in Writer, NEW k \in DOMAIN pBatch[o], P!Signed(pBatch[o][k]),
             NEW m, m = pBatch[o][k]
      PROVE  InSight(m)'
  BY <1>1, <1>2, StaysInSight DEF KeptInv
<1> QED  BY <1>0, <1>2 DEF KeptInv, P!Signed, InSight, Has

WriteInv == CountInv /\ KeptInv

LEMMA WriteInit == P!Init => WriteInv
<1>1. ASSUME P!Init, NEW w \in Writer, NEW k \in DOMAIN pBatch[w] PROVE InSight(pBatch[w][k])
  <2>1. pPc[w] = "evaluate"  BY <1>1 DEF P!Init
  <2>2. pBatch[w][k] \in Ahead(w)  BY <2>1 DEF Ahead
  <2> QED  BY <2>2 DEF InSight, Has
<1> QED  BY <1>1, CountInit DEF WriteInv, KeptInv

LEMMA WriteStays == ASSUME WriteInv, [P!Next]_pVars PROVE WriteInv'
<1>0. CountInv'  BY CountStays DEF WriteInv
<1>1. CASE UNCHANGED pVars
  <2>1. UNCHANGED <<pListing, pBatch, pPairs, pPc, pAt, pI, pInserts, pExcused>>  BY <1>1 DEF pVars
  <2>2. \A w \in Writer : Ahead(w)' = Ahead(w)
    <3> TAKE w \in Writer
    <3>1. /\ Urls(w, pAt[w], Len(pPairs[w]))' = Urls(w, pAt[w], Len(pPairs[w]))
          /\ Urls(w, pI[w], Len(pPairs[w]))' = Urls(w, pI[w], Len(pPairs[w]))
      BY <2>1 DEF Urls
    <3> QED  BY <2>1, <3>1 DEF Ahead
  <2>3. \A w \in Writer : \A k \in DOMAIN pBatch[w] :
           InSight(pBatch[w][k]) => InSight(pBatch[w][k])'
    BY <2>1, <2>2 DEF InSight, Has
  <2>4. KeptInv'  BY <2>1, <2>3 DEF WriteInv, KeptInv, P!Signed
  <2> QED  BY <1>0, <2>4 DEF WriteInv
<1>2. CASE P!Next
  BY <1>0, <1>2, KeptStep DEF WriteInv, CountInv, P!Next
<1> QED  BY <1>1, <1>2

\* When every writer has committed, nothing is ahead and no transaction is open.
LEMMA WriteInvAccounts == WriteInv => P!CountsTrue /\ P!NothingLost
<1>1. ASSUME WriteInv, \A v \in Writer : pPc[v] = "committed",
             NEW w \in Writer, NEW k \in DOMAIN pBatch[w], P!Signed(pBatch[w][k])
      PROVE  pBatch[w][k] \in pExcused \/ \E v \in Writer : <<v, pBatch[w][k]>> \in pListing
  <2>1. InSight(pBatch[w][k])  BY <1>1 DEF WriteInv, KeptInv
  <2>2. \A v \in Writer : Ahead(v) = {}  BY <1>1 DEF Ahead
  <2>3. \A v \in Writer : pInserts[v].listing = {}
    BY <1>1 DEF WriteInv, CountInv, PairInv, Placed, P!Empty
  <2> QED  BY <2>1, <2>2, <2>3 DEF InSight, Has
<1>2. WriteInv => P!NothingLost  BY <1>1 DEF P!NothingLost
<1> QED  BY <1>2, CountInvCounts DEF WriteInv

\* What a batch reports is what it left in the database (PoolWriteResult), and writers that
\* overlap lose no URL between them, though each rejects what a deadlock or a duplicate made
\* it give up (_write_pair_slow), unless one of them raised or the gate failed on the URL.
THEOREM WritesAddUp ==
    (P!Spec => [](P!CountsTrue /\ P!NothingLost)) /\ (MCSpec => []WritesAccounted)
<1>1. P!Spec => [](P!CountsTrue /\ P!NothingLost)
  <2>1. UNCHANGED P!vars <=> UNCHANGED pVars  BY DEF P!vars, pVars
  <2>2. ASSUME WriteInv, [P!Next]_(P!vars) PROVE WriteInv'  BY <2>1, <2>2, WriteStays
  <2> QED  BY <2>2, WriteInit, WriteInvAccounts, PTL DEF P!Spec
<1>2. MCInit => (part = "write" => WriteInv)  BY WriteInit DEF MCInit
<1>3. ASSUME part = "write" => WriteInv, [MCNext]_allVars PROVE (part = "write" => WriteInv)'
  BY <1>3, WritePart, WriteStays
<1>4. (part = "write" => WriteInv) => WritesAccounted  BY WriteInvAccounts DEF WritesAccounted
<1>5. MCSpec => []WritesAccounted  BY <1>2, <1>3, <1>4, PTL DEF MCSpec, allVars
<1> QED  BY <1>1, <1>5

-----------------------------------------------------------------------------
(***************************************************************************)
(* What is filtered out of a sequence.                                     *)
(***************************************************************************)
Elements(s1) == {s1[i] : i \in DOMAIN s1}

UpTo(places, i) == {j \in places : j <= i}

\* Counting the places up to each of them numbers them from 1.
LEMMA PlacesNumbered ==
    ASSUME NEW places \in SUBSET Nat, IsFiniteSet(places)
    PROVE  /\ Cardinality(places) \in Nat
           /\ [i \in places |-> Cardinality(UpTo(places, i))] \in Injection(places, 1..Cardinality(places))
           /\ [i \in places |-> Cardinality(UpTo(places, i))] \in Surjection(places, 1..Cardinality(places))
<1> DEFINE number == [i \in places |-> Cardinality(UpTo(places, i))]
           total == Cardinality(places)
<1>1. total \in Nat  BY FS_CardinalityType
<1>2. ASSUME NEW i \in places
      PROVE  number[i] \in 1..total
  <2>1. UpTo(places, i) \in SUBSET places /\ i \in UpTo(places, i)  BY DEF UpTo
  <2>2. IsFiniteSet(UpTo(places, i)) /\ Cardinality(UpTo(places, i)) <= total  BY <2>1, FS_Subset
  <2>3. Cardinality(UpTo(places, i)) \in Nat  BY <2>2, FS_CardinalityType
  <2>4. Cardinality(UpTo(places, i)) # 0  BY <2>1, <2>2, FS_EmptySet
  <2> QED  BY <1>1, <2>2, <2>3, <2>4
<1>3. ASSUME NEW i \in places, NEW j \in places, i < j PROVE number[i] # number[j]
  <2>1. UpTo(places, j) \in SUBSET places /\ UpTo(places, i) \in SUBSET UpTo(places, j)
    <3>1. \A k \in places : k <= i => k <= j  BY <1>3
    <3> QED  BY <3>1 DEF UpTo
  <2>2. j \in UpTo(places, j) /\ j \notin UpTo(places, i)  BY <1>3 DEF UpTo
  <2>3. IsFiniteSet(UpTo(places, j))  BY <2>1, FS_Subset
  <2>4. Cardinality(UpTo(places, j)) = Cardinality(UpTo(places, i)) => UpTo(places, j) = UpTo(places, i)
    BY <2>1, <2>3, FS_Subset
  <2> QED  BY <2>2, <2>4
<1>4. number \in [places -> 1..total]  BY <1>2
<1>5. \A i, j \in places : number[i] = number[j] => i = j
  <2> SUFFICES ASSUME NEW i \in places, NEW j \in places, i # j PROVE number[i] # number[j]  OBVIOUS
  <2>1. i < j \/ j < i  OBVIOUS
  <2> QED  BY <1>3, <2>1
<1> HIDE DEF number
<1>6. number \in Injection(places, 1..total)  BY <1>4, <1>5 DEF Injection, IsInjective
<1>7. IsFiniteSet(1..total) /\ Cardinality(1..total) = total
  BY <1>1, FS_Interval
<1>8. number \in Surjection(places, 1..total)  BY <1>6, <1>7, FS_Injection
<1> QED  BY <1>1, <1>6, <1>8 DEF number

LEMMA PlaceFound ==
    ASSUME NEW places \in SUBSET Nat, IsFiniteSet(places)
    PROVE  /\ \A n \in 1..Cardinality(places) :
                 PlaceOf(places, n) \in places /\ Cardinality(UpTo(places, PlaceOf(places, n))) = n
           /\ \A i \in places : \E n \in 1..Cardinality(places) : PlaceOf(places, n) = i
<1> DEFINE number == [i \in places |-> Cardinality(UpTo(places, i))]
           total == Cardinality(places)
<1>1. /\ \A i, j \in places : number[i] = number[j] => i = j
      /\ number \in [places -> 1..total]
      /\ \A n \in 1..total : \E i \in places : number[i] = n
  BY PlacesNumbered, Zenon DEF Injection, IsInjective, Surjection
<1>2. ASSUME NEW n \in 1..total
      PROVE  PlaceOf(places, n) \in places /\ Cardinality(UpTo(places, PlaceOf(places, n))) = n
  <2>1. \E i \in places : Cardinality({j \in places : j <= i}) = n  BY <1>1 DEF UpTo
  <2> QED  BY <2>1, Zenon DEF PlaceOf, UpTo
<1>3. ASSUME NEW i \in places PROVE \E n \in 1..total : PlaceOf(places, n) = i
  <2>1. number[i] \in 1..total  BY <1>1
  <2>2. PlaceOf(places, number[i]) \in places /\ number[PlaceOf(places, number[i])] = number[i]
    BY <1>2, <2>1
  <2>3. PlaceOf(places, number[i]) = i  BY <1>1, <2>2
  <2> QED  BY <2>1, <2>3
<1> QED  BY <1>2, <1>3

\* What Filter keeps: the elements that are in the set, each once when they were there once.
LEMMA Filtered ==
    ASSUME NEW T, NEW s1 \in Seq(T), NEW S
    PROVE  /\ Filter(s1, S) \in Seq(T)
           /\ Elements(Filter(s1, S)) = Elements(s1) \cap S
           /\ IsInjective(s1) => IsInjective(Filter(s1, S))
<1> DEFINE places == PlacesIn(s1, S)
           total == Cardinality(places)
<1>1. places \in SUBSET Nat /\ \A i \in places : i <= Len(s1)  BY DEF PlacesIn
<1>2. IsFiniteSet(places)  BY <1>1, FS_BoundedSetOfNaturals
<1>3. total \in Nat  BY <1>2, FS_CardinalityType
<1>4. \A n \in 1..total : PlaceOf(places, n) \in places /\ Cardinality(UpTo(places, PlaceOf(places, n))) = n
  BY <1>1, <1>2, PlaceFound
<1>5. \A i \in places : \E n \in 1..total : PlaceOf(places, n) = i  BY <1>1, <1>2, PlaceFound
<1>6. \A i \in places : i \in DOMAIN s1 /\ s1[i] \in S /\ s1[i] \in T  BY DEF PlacesIn
<1>7. Filter(s1, S) = [n \in 1..total |-> s1[PlaceOf(places, n)]]  BY DEF Filter
<1>8. \A i \in DOMAIN s1 : s1[i] \in S => i \in places  BY DEF PlacesIn
<1> HIDE DEF places
<1>9. Filter(s1, S) \in Seq(T)  BY <1>3, <1>4, <1>6, <1>7
<1>10. \A n \in 1..total : s1[PlaceOf(places, n)] \in {s1[i] : i \in DOMAIN s1} \cap S  BY <1>4, <1>6
<1>11. \A i \in DOMAIN s1 : s1[i] \in S => \E n \in 1..total : s1[PlaceOf(places, n)] = s1[i]
  BY <1>5, <1>8
<1>12. {Filter(s1, S)[n] : n \in DOMAIN Filter(s1, S)} = {s1[i] : i \in DOMAIN s1} \cap S
  <2>1. {Filter(s1, S)[n] : n \in DOMAIN Filter(s1, S)} = {s1[PlaceOf(places, n)] : n \in 1..total}  BY <1>7
  <2> QED  BY <2>1, <1>10, <1>11
<1>13. ASSUME IsInjective(s1) PROVE IsInjective(Filter(s1, S))
  <2> SUFFICES ASSUME NEW m \in 1..total, NEW n \in 1..total,
                      s1[PlaceOf(places, m)] = s1[PlaceOf(places, n)]
               PROVE  m = n
    BY <1>7 DEF IsInjective
  <2>1. PlaceOf(places, m) = PlaceOf(places, n)  BY <1>4, <1>6, <1>13 DEF IsInjective
  <2> QED  BY <1>4, <2>1
<1> QED  BY <1>9, <1>12, <1>13 DEF Elements

-----------------------------------------------------------------------------
(***************************************************************************)
(* The walk over the sitemaps of a shop.                                   *)
(***************************************************************************)
LEMMA TreeAssumed == W!TreeAssumption  BY PartsAssumption

LEMMA WalkCounts == ASSUME NEW S PROVE (W!IsFiniteSet(S) <=> IsFiniteSet(S)) /\ W!Cardinality(S) = Cardinality(S)
BY DEF W!IsFiniteSet, IsFiniteSet, W!Cardinality, Cardinality

LEMMA WalkPart ==
    ASSUME [MCNext]_allVars
    PROVE  part' = part /\ (part = "walk" => [W!Next]_wVars)
BY DEF allVars, MCNext, MarketParts, UserParts

LEMMA WalkFilter ==
    ASSUME NEW T, NEW s1 \in Seq(T), NEW S
    PROVE  /\ W!Filter(s1, S) \in Seq(T)
           /\ W!ToSet(W!Filter(s1, S)) = W!ToSet(s1) \cap S
           /\ IsInjective(s1) => IsInjective(W!Filter(s1, S))
<1>2. W!Filter(s1, S) = Filter(s1, S)
  BY DEF W!Filter, Filter, W!PlaceOf, PlaceOf, W!PlacesIn, PlacesIn, W!Cardinality, Cardinality,
         W!IsFiniteSet, IsFiniteSet
<1>3. Filter(s1, S) \in Seq(T)
      /\ Elements(Filter(s1, S)) = Elements(s1) \cap S
      /\ (IsInjective(s1) => IsInjective(Filter(s1, S)))
  BY Filtered, Zenon
<1> QED  BY <1>2, <1>3 DEF W!ToSet, Elements

LEMMA Joined ==
    ASSUME NEW T, NEW s1 \in Seq(T), NEW s2 \in Seq(T)
    PROVE  s1 \o s2 \in Seq(T) /\ W!ToSet(s1 \o s2) = W!ToSet(s1) \cup W!ToSet(s2)
<1>1. \A j \in DOMAIN s2 : Len(s1) + j \in DOMAIN (s1 \o s2) /\ (s1 \o s2)[Len(s1) + j] = s2[j]  OBVIOUS
<1>2. \A j \in DOMAIN s1 : j \in DOMAIN (s1 \o s2) /\ (s1 \o s2)[j] = s1[j]  OBVIOUS
<1>3. \A j \in DOMAIN (s1 \o s2) : (s1 \o s2)[j] \in W!ToSet(s1) \cup W!ToSet(s2)  BY DEF W!ToSet
<1>4. W!ToSet(s1) \cup W!ToSet(s2) \subseteq W!ToSet(s1 \o s2)  BY <1>1, <1>2 DEF W!ToSet
<1>5. W!ToSet(s1 \o s2) \subseteq W!ToSet(s1) \cup W!ToSet(s2)  BY <1>3 DEF W!ToSet
<1> QED  BY <1>4, <1>5

\* Sorting loses no document.
LEMMA SortKeepsAll ==
    ASSUME NEW docs \in Seq(Doc)
    PROVE  W!Sorted(docs) \in Seq(Doc) /\ W!ToSet(W!Sorted(docs)) = W!ToSet(docs)
<1> DEFINE Of(k) == W!Filter(docs, {d \in Doc : Rank[d] = k})
<1>1. \A k : Of(k) \in Seq(Doc) /\ W!ToSet(Of(k)) = W!ToSet(docs) \cap {d \in Doc : Rank[d] = k}
  BY WalkFilter
<1>2. W!Sorted(docs) = Of(0) \o Of(1) \o Of(2)  BY DEF W!Sorted
<1>3. \A s1, s2 \in Seq(Doc) : s1 \o s2 \in Seq(Doc) /\ W!ToSet(s1 \o s2) = W!ToSet(s1) \cup W!ToSet(s2)
  BY Joined
<1>4. \A d \in Doc : Rank[d] \in {0, 1, 2}  BY TreeAssumed DEF W!TreeAssumption
<1>5. W!ToSet(docs) \subseteq Doc  BY DEF W!ToSet
<1> HIDE DEF Of
<1>6. W!Sorted(docs) \in Seq(Doc) /\ W!ToSet(W!Sorted(docs)) = W!ToSet(Of(0)) \cup W!ToSet(Of(1)) \cup W!ToSet(Of(2))
  <2>1. Of(0) \in Seq(Doc) /\ Of(1) \in Seq(Doc) /\ Of(2) \in Seq(Doc)  BY <1>1
  <2>2. Of(0) \o Of(1) \in Seq(Doc) /\ W!ToSet(Of(0) \o Of(1)) = W!ToSet(Of(0)) \cup W!ToSet(Of(1))
    BY <1>3, <2>1
  <2>3. W!ToSet((Of(0) \o Of(1)) \o Of(2)) = W!ToSet(Of(0) \o Of(1)) \cup W!ToSet(Of(2))
        /\ (Of(0) \o Of(1)) \o Of(2) \in Seq(Doc)
    BY <1>3, <2>1, <2>2
  <2> QED  BY <1>2, <2>2, <2>3
<1> QED  BY <1>1, <1>4, <1>5, <1>6

LEMMA KeptTyped == ASSUME NEW docs \in Seq(Doc), NEW loc PROVE W!Kept(docs, loc) \in Seq(Doc)
<1>1. W!Quiet(docs) \in Seq(Doc)  BY WalkFilter DEF W!Quiet
<1> QED  BY <1>1, WalkFilter DEF W!Kept

-----------------------------------------------------------------------------
Statuses == {"running", "completed", "empty_sitemap", "budget_exhausted", "error"}
PlacesAt == {"walk", "entries", "end", "flush", "drain", "drained", "budget", "budgeted"}

Answers == {"none", "awaited", "document", "nothing", "no budget"}

WalkTypes ==
    /\ wPool \subseteq W!AllUrls /\ wKnown \subseteq W!AllUrls /\ wSeen \subseteq W!AllUrls
    /\ wMine \subseteq W!AllUrls
    /\ wPending \in Seq(Doc) /\ wInflight \in Seq(Doc) /\ wVisited \subseteq Doc
    /\ wAnswer \in [Doc -> Answers]
    /\ wCap \in Nat /\ wPc \in PlacesAt /\ wStatus \in Statuses
    /\ wTodo \in Seq(W!AllUrls) /\ wBatch \in Seq(W!AllUrls) /\ wWriting \in Seq(W!AllUrls)
    /\ wWrite \in {"idle", "writing", "done", "failed"}
    /\ wInserted \in Nat /\ wRaw \in Nat /\ wProducts \in Nat
    /\ wQueued \subseteq Doc /\ wParsed \subseteq Doc

Ended == {"completed", "empty_sitemap"}

\* The fetches ahead: within their bounds, and no document that was queued is out of sight.
Fetching ==
    /\ Len(wInflight) <= Prefetch /\ W!Cardinality(wVisited) + Len(wInflight) <= wCap
    /\ wQueued \subseteq wVisited \cup W!ToSet(wPending) \cup W!ToSet(wInflight)
    /\ wPc \in {"drain", "drained"} \/ wStatus \in Ended =>
          W!Enough \/ (wInflight = <<>> /\ (wPending = <<>> \/ W!Cardinality(wVisited) >= wCap))

\* The two batches: what was parsed is in the pool, in one of them, or still to come.
Batching ==
    /\ wStatus # "running" <=> wPc = "end"
    /\ wPc \notin {"entries", "flush", "end"} => wTodo = <<>>
    /\ wPc = "end" /\ wWrite # "failed" => wTodo = <<>>
    /\ wPc \in {"drained", "budgeted"} => wBatch = <<>>
    /\ wStatus \in Ended \/ (wStatus = "budget_exhausted" /\ wWrite # "failed") =>
          wBatch = <<>> /\ wWrite = "idle"
    /\ wWrite = "idle" => wWriting = <<>>
    /\ wWrite = "done" => W!ToSet(wWriting) \subseteq wPool
    /\ wKnown \subseteq wPool
    /\ wSeen \subseteq wPool \cup W!ToSet(wBatch) \cup W!ToSet(wWriting)
    /\ \A d \in wParsed : W!ToSet(DocUrls[d]) \subseteq
          wPool \cup W!ToSet(wBatch) \cup W!ToSet(wWriting) \cup W!ToSet(wTodo)

\* The counter: what this walk wrote is counted, or is about to be.
Counting ==
    /\ W!ToSet(wBatch) \subseteq wSeen /\ IsInjective(wBatch) /\ IsInjective(wWriting)
    /\ wMine \subseteq wPool /\ IsFiniteSet(wMine)
    /\ Cardinality(wMine) = wInserted + (IF wWrite = "done" THEN Len(wWriting) ELSE 0)

WalkInv == WalkTypes /\ Fetching /\ Batching /\ Counting

LEMMA TreeFacts ==
    /\ IsFiniteSet(Doc) /\ Roots \in Seq(Doc) /\ Children \in [Doc -> Seq(Doc)]
    /\ DocUrls \in [Doc -> Seq(W!AllUrls)] /\ Entries \in [Doc -> Nat]
    /\ Prefetch \in Nat \ {0} /\ Caps \subseteq Nat /\ MaxUrls \in Nat /\ WalkBatch \in Nat \ {0}
BY TreeAssumed, WalkCounts DEF W!TreeAssumption

LEMMA FlushFacts ==
    /\ DOMAIN W!AfterFlush = {"flush", "drain", "drained", "budget", "budgeted"}
    /\ W!AfterFlush["flush"] = "entries" /\ W!AfterFlush["drain"] = "drained"
    /\ W!AfterFlush["drained"] = "end" /\ W!AfterFlush["budget"] = "budgeted"
    /\ W!AfterFlush["budgeted"] = "end"
BY DEF W!AfterFlush

LEMMA TakenOff ==
    ASSUME NEW T, NEW s1 \in Seq(T), s1 # <<>>
    PROVE  /\ Head(s1) \in T /\ Tail(s1) \in Seq(T) /\ Len(s1) = Len(Tail(s1)) + 1 /\ Len(Tail(s1)) \in Nat
           /\ W!ToSet(s1) = {Head(s1)} \cup W!ToSet(Tail(s1))
<1>1. Head(s1) \in T /\ Tail(s1) \in Seq(T) /\ Len(s1) = Len(Tail(s1)) + 1 /\ Len(Tail(s1)) \in Nat  OBVIOUS
<1>2. \A k \in DOMAIN s1 : s1[k] = Head(s1) \/ (k - 1 \in DOMAIN Tail(s1) /\ s1[k] = Tail(s1)[k - 1])
  OBVIOUS
<1>3. \A k \in DOMAIN Tail(s1) : k + 1 \in DOMAIN s1 /\ Tail(s1)[k] = s1[k + 1]  OBVIOUS
<1>4. 1 \in DOMAIN s1 /\ Head(s1) = s1[1]  OBVIOUS
<1>5. W!ToSet(s1) \subseteq {Head(s1)} \cup W!ToSet(Tail(s1))  BY <1>2 DEF W!ToSet
<1>6. {Head(s1)} \cup W!ToSet(Tail(s1)) \subseteq W!ToSet(s1)  BY <1>3, <1>4 DEF W!ToSet
<1> QED  BY <1>1, <1>5, <1>6

LEMMA PutLast ==
    ASSUME NEW T, NEW s1 \in Seq(T), NEW e \in T
    PROVE  /\ Append(s1, e) \in Seq(T) /\ Len(Append(s1, e)) = Len(s1) + 1
           /\ W!ToSet(Append(s1, e)) = W!ToSet(s1) \cup {e}
           /\ IsInjective(s1) /\ e \notin W!ToSet(s1) => IsInjective(Append(s1, e))
<1>1. Append(s1, e) \in Seq(T) /\ Len(Append(s1, e)) = Len(s1) + 1  OBVIOUS
<1>2. \A k \in DOMAIN s1 : k \in DOMAIN Append(s1, e) /\ Append(s1, e)[k] = s1[k]  OBVIOUS
<1>3. Len(s1) + 1 \in DOMAIN Append(s1, e) /\ Append(s1, e)[Len(s1) + 1] = e  OBVIOUS
<1>4. \A k \in DOMAIN Append(s1, e) : k \in DOMAIN s1 \/ k = Len(s1) + 1  OBVIOUS
<1>5. W!ToSet(Append(s1, e)) = W!ToSet(s1) \cup {e}
  <2>1. W!ToSet(s1) \cup {e} \subseteq W!ToSet(Append(s1, e))  BY <1>2, <1>3 DEF W!ToSet
  <2>2. W!ToSet(Append(s1, e)) \subseteq W!ToSet(s1) \cup {e}  BY <1>2, <1>3, <1>4 DEF W!ToSet
  <2> QED  BY <2>1, <2>2
<1>6. ASSUME IsInjective(s1), e \notin W!ToSet(s1) PROVE IsInjective(Append(s1, e))
  <2>1. \A k \in DOMAIN s1 : s1[k] # e  BY <1>6 DEF W!ToSet
  <2>2. \A k, n \in DOMAIN s1 : s1[k] = s1[n] => k = n  BY <1>6 DEF IsInjective
  <2> HIDE <1>1
  <2> QED  BY <1>2, <1>3, <1>4, <2>1, <2>2, Zenon DEF IsInjective
<1> QED  BY <1>1, <1>5, <1>6

\* A sequence without repetitions is as long as its set is large.
LEMMA OnceEach ==
    ASSUME NEW T, NEW s1 \in Seq(T)
    PROVE  /\ IsFiniteSet(W!ToSet(s1))
           /\ IsInjective(s1) => Cardinality(W!ToSet(s1)) = Len(s1)
<1>0. Len(s1) \in Nat  OBVIOUS
<1> DEFINE n == Len(s1)
<1>1. IsFiniteSet(1..n) /\ Cardinality(1..n) = n
  <2> HIDE DEF n
  <2>1. n \in Nat  BY <1>0 DEF n
  <2> QED  BY <2>1, FS_Interval
<1>2. s1 \in Surjection(1..Len(s1), W!ToSet(s1))
  <2>1. DOMAIN s1 = 1..Len(s1) /\ s1 \in [1..Len(s1) -> T] /\ s1 = [k \in 1..Len(s1) |-> s1[k]]  OBVIOUS
  <2>2. \A k \in 1..Len(s1) : s1[k] \in W!ToSet(s1)  BY <2>1 DEF W!ToSet
  <2>3. s1 \in [1..Len(s1) -> W!ToSet(s1)]  BY <2>1, <2>2
  <2>4. \A e \in W!ToSet(s1) : \E k \in 1..Len(s1) : s1[k] = e  BY <2>1, Zenon DEF W!ToSet
  <2> QED  BY <2>3, <2>4 DEF Surjection
<1>3. IsFiniteSet(W!ToSet(s1))
      /\ (Cardinality(W!ToSet(s1)) = Cardinality(1..Len(s1)) <=> s1 \in Injection(1..Len(s1), W!ToSet(s1)))
  BY <1>1, <1>2, FS_Surjection
<1>4. IsInjective(s1) => s1 \in Injection(1..Len(s1), W!ToSet(s1))
  BY <1>2 DEF Surjection, Injection
<1> QED  BY <1>1, <1>3, <1>4

LEMMA VisitedCount ==
    ASSUME WalkTypes
    PROVE  /\ W!Cardinality(wVisited) \in Nat
           /\ \A d \in Doc : W!Cardinality(wVisited \cup {d}) \in Nat
                             /\ W!Cardinality(wVisited \cup {d}) <= W!Cardinality(wVisited) + 1
<1>1. IsFiniteSet(wVisited)  BY TreeFacts, FS_Subset DEF WalkTypes
<1>2. Cardinality(wVisited) \in Nat  BY <1>1, FS_CardinalityType
<1>3. ASSUME NEW d \in Doc
      PROVE  Cardinality(wVisited \cup {d}) \in Nat /\ Cardinality(wVisited \cup {d}) <= Cardinality(wVisited) + 1
  <2>1. Cardinality(wVisited \cup {d}) = IF d \in wVisited THEN Cardinality(wVisited) ELSE Cardinality(wVisited) + 1
    BY <1>1, FS_AddElement
  <2> QED  BY <1>2, <2>1
<1> QED  BY <1>2, <1>3, WalkCounts

\* What the steps of the walk leave alone.
LEMMA FetchingStays ==
    ASSUME Fetching, UNCHANGED <<wPending, wInflight, wVisited, wCap, wQueued, wRaw, wProducts>>,
           wPc' \in {"drain", "drained"} \/ wStatus' \in Ended => wPc \in {"drain", "drained"} \/ wStatus \in Ended
    PROVE  Fetching'
BY Zenon DEF Fetching, W!Enough

LEMMA BatchingStays ==
    ASSUME Batching, UNCHANGED <<wStatus, wTodo, wKnown, wSeen, wBatch, wWriting, wWrite, wParsed>>,
           wPool \subseteq wPool', wPc' = wPc \/ (wPc = "walk" /\ wPc' \in {"drain", "budget"})
    PROVE  Batching'
BY DEF Batching

LEMMA CountingStays ==
    ASSUME Counting, UNCHANGED <<wSeen, wBatch, wWriting, wWrite, wInserted, wMine>>, wPool \subseteq wPool'
    PROVE  Counting'
BY DEF Counting

LEMMA DispatchStep == ASSUME WalkInv, W!Dispatch PROVE WalkInv'
<1>0. WalkTypes /\ Fetching /\ Batching /\ Counting  BY DEF WalkInv
<1> DEFINE d == Head(wPending)
<1>1. /\ wPc = "walk" /\ wPending # <<>> /\ Len(wInflight) < Prefetch
      /\ W!Cardinality(wVisited) + Len(wInflight) < wCap
      /\ wPending' = Tail(wPending)
      /\ \/ W!Known(d) /\ UNCHANGED <<wInflight, wAnswer>>
         \/ wInflight' = Append(wInflight, d) /\ wAnswer' = [wAnswer EXCEPT ![d] = "awaited"]
      /\ UNCHANGED <<wPool, wVisited, wCap, wLocale, wPc, wStatus, wTodo, wKnown, wSeen, wRaw, wProducts, wParsed,
                     wBatch, wWriting, wWrite, wInserted, wQueued, wMine>>
  BY Zenon DEF W!Dispatch, W!CanDispatch, W!entries, W!writer
<1>2. d \in Doc /\ wPending' \in Seq(Doc) /\ W!ToSet(wPending) = {d} \cup W!ToSet(wPending')
  BY <1>0, <1>1, TakenOff DEF WalkTypes
<1> HIDE DEF d
<1>3. wStatus = "running"  BY <1>0, <1>1 DEF Batching
<1>4. wInflight \in Seq(Doc) /\ wCap \in Nat  BY <1>0 DEF WalkTypes
<1>a. wAnswer \in [Doc -> Answers]
  BY <1>0 DEF WalkTypes
<1>5. Len(wInflight) \in Nat  BY <1>4
<1>6. /\ Append(wInflight, d) \in Seq(Doc) /\ Len(Append(wInflight, d)) = Len(wInflight) + 1
      /\ W!ToSet(Append(wInflight, d)) = W!ToSet(wInflight) \cup {d}
  BY <1>2, <1>4, PutLast
<1>7. \/ W!Known(d) /\ wInflight' = wInflight
      \/ Len(wInflight') = Len(wInflight) + 1 /\ W!ToSet(wInflight') = W!ToSet(wInflight) \cup {d}
  BY <1>1, <1>6
<1>8. WalkTypes'
  <2>1. wInflight' \in Seq(Doc)  BY <1>1, <1>4, <1>6
  <2>2. wAnswer' \in [Doc -> Answers]
    <3>1. "awaited" \in Answers  BY DEF Answers
    <3> QED  BY <1>1, <1>2, <1>a, <3>1
  <2> QED  BY <1>0, <1>1, <1>2, <2>1, <2>2 DEF WalkTypes
<1>9. Fetching'
  <2>1. wQueued \subseteq wVisited \cup W!ToSet(wPending') \cup W!ToSet(wInflight')
    BY <1>0, <1>2, <1>7 DEF Fetching, W!Known
  <2>2. Len(wInflight') <= Prefetch /\ W!Cardinality(wVisited) + Len(wInflight') <= wCap
    <3>1. Prefetch \in Nat /\ W!Cardinality(wVisited) \in Nat  BY <1>0, TreeFacts, VisitedCount
    <3>2. Len(wInflight) <= Prefetch /\ W!Cardinality(wVisited) + Len(wInflight) <= wCap  BY <1>0 DEF Fetching
    <3> QED  BY <1>1, <1>4, <1>5, <1>7, <3>1, <3>2
  <2>3. wStatus' \notin Ended  BY <1>1, <1>3 DEF Ended
  <2> QED  BY <1>1, <2>1, <2>2, <2>3 DEF Fetching
<1>10. Batching'  BY <1>0, <1>1, BatchingStays
<1>11. Counting'  BY <1>0, <1>1, CountingStays
<1> QED  BY <1>8, <1>9, <1>10, <1>11 DEF WalkInv

LEMMA AnswerStep == ASSUME WalkInv, NEW d \in Doc, W!Answer(d) PROVE WalkInv'
<1>0. WalkTypes /\ Fetching /\ Batching /\ Counting  BY DEF WalkInv
<1>1. /\ \E came \in Answers : wAnswer' = [wAnswer EXCEPT ![d] = came]
      /\ UNCHANGED <<wPool, wPending, wInflight, wVisited, wCap, wPc, wStatus, wTodo, wKnown, wSeen, wRaw, wProducts,
                     wParsed, wBatch, wWriting, wWrite, wInserted, wQueued, wMine>>
  BY Zenon DEF W!Answer, W!entries, W!writer, Answers
<1>2. wAnswer' \in [Doc -> Answers]  BY <1>0, <1>1 DEF WalkTypes
<1>3. WalkTypes'  BY <1>0, <1>1, <1>2 DEF WalkTypes
<1>4. Fetching'  BY <1>0, <1>1, FetchingStays
<1>5. Batching'  BY <1>0, <1>1, BatchingStays
<1>6. Counting'  BY <1>0, <1>1, CountingStays
<1> QED  BY <1>3, <1>4, <1>5, <1>6 DEF WalkInv

\* The documents an awaited one refers to are queued, its entries come next.
LEMMA AwaitStep == ASSUME WalkInv, W!Await PROVE WalkInv'
<1>0. WalkTypes /\ Fetching /\ Batching /\ Counting  BY DEF WalkInv
<1> DEFINE d == W!Awaited
           more == W!Filter(W!Kept(Children[d], wLocale), Doc \ (wVisited \cup {d} \cup W!ToSet(Tail(wInflight))))
<1>1. /\ wPc = "walk" /\ wInflight # <<>>
      /\ wInflight' = Tail(wInflight) /\ wVisited' = wVisited \cup {d}
      /\ wPending' = W!Sorted(wPending \o more) /\ wQueued' = wQueued \cup W!ToSet(more)
      /\ wTodo' = DocUrls[d] /\ wKnown' = wPool /\ wParsed' = wParsed \cup {d}
      /\ wPc' = (IF DocUrls[d] = <<>> THEN "walk" ELSE "entries")
      /\ UNCHANGED <<wPool, wAnswer, wCap, wStatus, wSeen, wBatch, wWriting, wWrite, wInserted, wMine>>
  BY Zenon DEF W!Await, W!writer
<1>2. wRaw' = wRaw + Entries[d] /\ wProducts' = wProducts + Len(DocUrls[d])  BY DEF W!Await
<1>3. /\ d \in Doc /\ wInflight' \in Seq(Doc) /\ Len(wInflight) = Len(wInflight') + 1 /\ Len(wInflight') \in Nat
      /\ W!ToSet(wInflight) = {d} \cup W!ToSet(wInflight')
  BY <1>0, <1>1, TakenOff DEF WalkTypes, W!Awaited
<1>4. more \in Seq(Doc)  BY <1>3, TreeFacts, KeptTyped, WalkFilter
<1> HIDE DEF more, d
<1>5. wPending' \in Seq(Doc) /\ W!ToSet(wPending') = W!ToSet(wPending) \cup W!ToSet(more)
  <2>1. wPending \o more \in Seq(Doc) /\ W!ToSet(wPending \o more) = W!ToSet(wPending) \cup W!ToSet(more)
    BY <1>0, <1>4, Joined DEF WalkTypes
  <2> QED  BY <1>1, <2>1, SortKeepsAll
<1>6. W!ToSet(more) \subseteq Doc  BY <1>4 DEF W!ToSet
<1>7. wStatus = "running" /\ wStatus' = "running"  BY <1>0, <1>1 DEF Batching
<1>8. DocUrls[d] \in Seq(W!AllUrls) /\ Entries[d] \in Nat  BY <1>3, TreeFacts
<1>9. WalkTypes'
  <2>1. wRaw' \in Nat /\ wProducts' \in Nat
    <3>1. wRaw \in Nat /\ wProducts \in Nat  BY <1>0 DEF WalkTypes
    <3>2. Len(DocUrls[d]) \in Nat  BY <1>8
    <3> QED  BY <1>2, <1>8, <3>1, <3>2
  <2>2. wPc' \in PlacesAt  BY <1>1 DEF PlacesAt
  <2> QED  BY <1>0, <1>1, <1>3, <1>5, <1>6, <1>8, <2>1, <2>2 DEF WalkTypes
<1>10. Fetching'
  <2>1. wQueued' \subseteq wVisited' \cup W!ToSet(wPending') \cup W!ToSet(wInflight')
    BY <1>0, <1>1, <1>3, <1>5 DEF Fetching
  <2>2. Len(wInflight') <= Prefetch  BY <1>0, <1>3, TreeFacts DEF Fetching
  <2>3. W!Cardinality(wVisited') + Len(wInflight') <= wCap'
    <3>1. W!Cardinality(wVisited') \in Nat /\ W!Cardinality(wVisited) \in Nat
          /\ W!Cardinality(wVisited') <= W!Cardinality(wVisited) + 1
      BY <1>0, <1>1, <1>3, VisitedCount
    <3>2. wCap' = wCap /\ wCap \in Nat /\ W!Cardinality(wVisited) + Len(wInflight) <= wCap
      BY <1>0, <1>1 DEF Fetching, WalkTypes
    <3> QED  BY <1>3, <3>1, <3>2
  <2>4. wPc' \notin {"drain", "drained"} /\ wStatus' \notin Ended  BY <1>1, <1>7 DEF Ended
  <2> QED  BY <2>1, <2>2, <2>3, <2>4 DEF Fetching
<1>11. Batching'
  <2>1. W!ToSet(wTodo) = {}  BY <1>0, <1>1 DEF Batching, W!ToSet
  <2>2. \A e \in wParsed' : W!ToSet(DocUrls[e]) \subseteq
            wPool \cup W!ToSet(wBatch) \cup W!ToSet(wWriting) \cup W!ToSet(wTodo')
    BY <1>0, <1>1, <2>1 DEF Batching
  <2> QED  BY <1>0, <1>1, <1>7, <2>2 DEF Batching
<1>12. Counting'  BY <1>0, <1>1, CountingStays
<1> QED  BY <1>9, <1>10, <1>11, <1>12 DEF WalkInv

LEMMA AwaitNothingStep == ASSUME WalkInv, W!AwaitNothing PROVE WalkInv'
<1>0. WalkTypes /\ Fetching /\ Batching /\ Counting  BY DEF WalkInv
<1> DEFINE d == W!Awaited
<1>1. /\ wPc = "walk" /\ wInflight # <<>> /\ wInflight' = Tail(wInflight) /\ wVisited' = wVisited \cup {d}
      /\ UNCHANGED <<wPool, wPending, wAnswer, wCap, wPc, wStatus, wTodo, wKnown, wSeen, wRaw, wProducts, wParsed,
                     wBatch, wWriting, wWrite, wInserted, wQueued, wMine>>
  BY Zenon DEF W!AwaitNothing, W!entries, W!writer
<1>2. /\ d \in Doc /\ wInflight' \in Seq(Doc) /\ Len(wInflight) = Len(wInflight') + 1 /\ Len(wInflight') \in Nat
      /\ W!ToSet(wInflight) = {d} \cup W!ToSet(wInflight')
  BY <1>0, <1>1, TakenOff DEF WalkTypes, W!Awaited
<1> HIDE DEF d
<1>3. wStatus = "running"  BY <1>0, <1>1 DEF Batching
<1>4. WalkTypes'  BY <1>0, <1>1, <1>2 DEF WalkTypes
<1>5. Fetching'
  <2>1. wQueued \subseteq wVisited' \cup W!ToSet(wPending) \cup W!ToSet(wInflight')
    BY <1>0, <1>1, <1>2 DEF Fetching
  <2>2. Len(wInflight') <= Prefetch  BY <1>0, <1>2, TreeFacts DEF Fetching
  <2>3. W!Cardinality(wVisited') + Len(wInflight') <= wCap
    <3>1. W!Cardinality(wVisited') \in Nat /\ W!Cardinality(wVisited) \in Nat
          /\ W!Cardinality(wVisited') <= W!Cardinality(wVisited) + 1
      BY <1>0, <1>1, <1>2, VisitedCount
    <3>2. wCap \in Nat /\ W!Cardinality(wVisited) + Len(wInflight) <= wCap  BY <1>0 DEF Fetching, WalkTypes
    <3> QED  BY <1>2, <3>1, <3>2
  <2>4. wStatus' \notin Ended  BY <1>1, <1>3 DEF Ended
  <2> QED  BY <1>1, <2>1, <2>2, <2>3, <2>4 DEF Fetching
<1>6. Batching'  BY <1>0, <1>1, BatchingStays
<1>7. Counting'  BY <1>0, <1>1, CountingStays
<1> QED  BY <1>4, <1>5, <1>6, <1>7 DEF WalkInv

\* The walk ends when nothing is left to fetch, or the cap is reached; or leaves without budget.
LEMMA WalkEndStep == ASSUME WalkInv, W!WalkEnd \/ W!AwaitNoBudget PROVE WalkInv'
<1>0. WalkTypes /\ Fetching /\ Batching /\ Counting  BY DEF WalkInv
<1>1. /\ wPc = "walk" /\ ~W!CanDispatch
      /\ (wPc' = "drain" /\ wInflight = <<>>) \/ wPc' = "budget"
      /\ UNCHANGED <<wPool, wPending, wInflight, wVisited, wAnswer, wCap, wQueued, wStatus, wTodo, wKnown, wSeen,
                     wRaw, wProducts, wParsed, wBatch, wWriting, wWrite, wInserted, wMine>>
  BY Zenon DEF W!WalkEnd, W!AwaitNoBudget, W!fetching, W!entries, W!writer
<1>2. wStatus = "running"  BY <1>0, <1>1 DEF Batching
<1>3. WalkTypes'  BY <1>0, <1>1 DEF WalkTypes, PlacesAt
<1>4. Fetching'
  <2>1. wInflight = <<>> => Len(wInflight) = 0  OBVIOUS
  <2>2. W!Cardinality(wVisited) \in Nat /\ wCap \in Nat /\ Prefetch \in Nat \ {0}
    BY <1>0, VisitedCount, TreeFacts DEF WalkTypes
  <2>3. wInflight = <<>> => wPending = <<>> \/ W!Cardinality(wVisited) >= wCap
    BY <1>1, <2>1, <2>2 DEF W!CanDispatch
  <2>4. wStatus' \notin Ended  BY <1>1, <1>2 DEF Ended
  <2> QED  BY <1>0, <1>1, <2>3, <2>4 DEF Fetching
<1>5. Batching'  BY <1>0, <1>1, BatchingStays
<1>6. Counting'  BY <1>0, <1>1, CountingStays
<1> QED  BY <1>3, <1>4, <1>5, <1>6 DEF WalkInv

-----------------------------------------------------------------------------
\* An entry that is passed over has been written or is about to be.
LEMMA EntryStep == ASSUME WalkInv, W!Entry PROVE WalkInv'
<1>0. WalkTypes /\ Fetching /\ Batching /\ Counting  BY DEF WalkInv
<1> DEFINE e == Head(wTodo)
           new == e \notin wKnown /\ e \notin wSeen
<1>1. /\ wPc = "entries" /\ wTodo # <<>> /\ wTodo' = Tail(wTodo)
      /\ wSeen' = (IF new THEN wSeen \cup {e} ELSE wSeen)
      /\ wBatch' = (IF new THEN Append(wBatch, e) ELSE wBatch)
      /\ wPc' \in {"entries", "flush"}
      /\ UNCHANGED <<wPool, wPending, wInflight, wVisited, wAnswer, wCap, wQueued, wStatus, wKnown, wRaw, wProducts,
                     wParsed, wWriting, wWrite, wInserted, wMine>>
  BY Zenon DEF W!Entry, W!fetching
<1>2. e \in W!AllUrls /\ wTodo' \in Seq(W!AllUrls) /\ W!ToSet(wTodo) = {e} \cup W!ToSet(wTodo')
  BY <1>0, <1>1, TakenOff DEF WalkTypes
<1> HIDE DEF e
<1>3. wStatus = "running"  BY <1>0, <1>1 DEF Batching
<1>4. /\ Append(wBatch, e) \in Seq(W!AllUrls) /\ W!ToSet(Append(wBatch, e)) = W!ToSet(wBatch) \cup {e}
      /\ IsInjective(wBatch) /\ e \notin W!ToSet(wBatch) => IsInjective(Append(wBatch, e))
  BY <1>0, <1>2, PutLast DEF WalkTypes
<1>5. /\ wBatch' \in Seq(W!AllUrls) /\ IsInjective(wBatch') /\ W!ToSet(wBatch') \subseteq wSeen'
      /\ new => W!ToSet(wBatch') = W!ToSet(wBatch) \cup {e}
      /\ ~new => wBatch' = wBatch /\ wSeen' = wSeen /\ (e \in wKnown \/ e \in wSeen)
      /\ new => wSeen' = wSeen \cup {e}
  BY <1>0, <1>1, <1>4 DEF WalkTypes, Counting
<1> HIDE DEF new
<1>6. WalkTypes'
  <2>1. wSeen' \subseteq W!AllUrls  BY <1>0, <1>2, <1>5 DEF WalkTypes
  <2> QED  BY <1>0, <1>1, <1>2, <1>5, <2>1 DEF WalkTypes, PlacesAt
<1>7. wStatus' \notin Ended /\ wPc' \notin {"drain", "drained"}  BY <1>1, <1>3 DEF Ended
<1>8. Fetching'  BY <1>0, <1>1, <1>7, FetchingStays
<1>9. Batching'
  <2>1. W!ToSet(wTodo) \subseteq wPool \cup W!ToSet(wBatch') \cup W!ToSet(wWriting) \cup W!ToSet(wTodo')
    BY <1>0, <1>2, <1>5 DEF Batching
  <2>2. \A d \in wParsed' : W!ToSet(DocUrls[d]) \subseteq
            wPool \cup W!ToSet(wBatch') \cup W!ToSet(wWriting) \cup W!ToSet(wTodo')
    BY <1>0, <1>1, <1>5, <2>1 DEF Batching
  <2>3. wSeen' \subseteq wPool \cup W!ToSet(wBatch') \cup W!ToSet(wWriting)  BY <1>0, <1>5 DEF Batching
  <2> QED  BY <1>0, <1>1, <1>3, <2>2, <2>3 DEF Batching, Ended
<1>10. Counting'  BY <1>0, <1>1, <1>5 DEF Counting
<1> QED  BY <1>6, <1>8, <1>9, <1>10 DEF WalkInv

LEMMA EntriesEndStep == ASSUME WalkInv, W!EntriesEnd PROVE WalkInv'
<1>0. WalkTypes /\ Fetching /\ Batching /\ Counting  BY DEF WalkInv
<1>1. /\ wPc = "entries" /\ wTodo = <<>> /\ wKnown' = {}
      /\ wPc' = (IF W!Enough THEN "drain" ELSE "walk")
      /\ UNCHANGED <<wPool, wPending, wInflight, wVisited, wAnswer, wCap, wQueued, wStatus, wTodo, wSeen, wRaw,
                     wProducts, wParsed, wBatch, wWriting, wWrite, wInserted, wMine>>
  BY Zenon DEF W!EntriesEnd, W!fetching, W!writer
<1>2. wStatus = "running"  BY <1>0, <1>1 DEF Batching
<1>3. WalkTypes'  BY <1>0, <1>1 DEF WalkTypes, PlacesAt
<1>4. Fetching'
  <2>1. wStatus' \notin Ended  BY <1>1, <1>2 DEF Ended
  <2>2. W!Enough' = W!Enough  BY <1>1 DEF W!Enough
  <2> QED  BY <1>0, <1>1, <2>1, <2>2 DEF Fetching
<1>5. Batching'  BY <1>0, <1>1, <1>2 DEF Batching, Ended
<1>6. Counting'  BY <1>0, <1>1, CountingStays
<1> QED  BY <1>3, <1>4, <1>5, <1>6 DEF WalkInv

\* The batch before is out of the writer's hands, the next one is handed over.
LEMMA FlushStep == ASSUME WalkInv, W!Flush PROVE WalkInv'
<1>0. WalkTypes /\ Fetching /\ Batching /\ Counting  BY DEF WalkInv
<1>1. /\ wPc \in {"flush", "drain", "drained", "budget", "budgeted"} /\ wWrite \in {"idle", "done"}
      /\ wInserted' = wInserted + Len(wWriting) /\ wWriting' = wBatch /\ wBatch' = <<>>
      /\ wWrite' = (IF wBatch = <<>> THEN "idle" ELSE "writing")
      /\ UNCHANGED <<wPool, wPending, wInflight, wVisited, wAnswer, wCap, wQueued, wTodo, wKnown, wSeen, wRaw,
                     wProducts, wParsed, wMine>>
  BY Zenon, FlushFacts DEF W!Flush, W!fetching, W!entries
<1>2. \/ wPc = "flush" /\ wPc' = "entries" /\ wStatus' = wStatus
      \/ wPc = "drain" /\ wPc' = "drained" /\ wStatus' = wStatus
      \/ wPc = "budget" /\ wPc' = "budgeted" /\ wStatus' = wStatus
      \/ wPc = "drained" /\ wPc' = "end" /\ wStatus' \in Ended
      \/ wPc = "budgeted" /\ wPc' = "end" /\ wStatus' = "budget_exhausted"
  BY <1>1, FlushFacts DEF W!Flush, Ended
<1>3. wStatus = "running"  BY <1>0, <1>1 DEF Batching
<1>4. W!ToSet(wWriting) \subseteq wPool
  <2>1. wWriting = <<>> => W!ToSet(wWriting) = {}  BY DEF W!ToSet
  <2> QED  BY <1>0, <1>1, <2>1 DEF Batching
<1>5. W!ToSet(wBatch') = {} /\ IsInjective(wBatch') /\ wBatch' \in Seq(W!AllUrls)
  BY <1>1 DEF W!ToSet, IsInjective
<1>6. WalkTypes'
  <2>1. wInserted' \in Nat
    <3>1. wWriting \in Seq(W!AllUrls) /\ wInserted \in Nat  BY <1>0 DEF WalkTypes
    <3>2. Len(wWriting) \in Nat  BY <3>1
    <3> QED  BY <1>1, <3>1, <3>2
  <2>2. wPc' \in PlacesAt /\ wStatus' \in Statuses  BY <1>2, <1>3 DEF PlacesAt, Statuses, Ended
  <2> QED  BY <1>0, <1>1, <1>5, <2>1, <2>2 DEF WalkTypes
<1>7. Fetching'
  <2>1. wPc' \in {"drain", "drained"} \/ wStatus' \in Ended => wPc \in {"drain", "drained"} \/ wStatus \in Ended
    BY <1>2, <1>3 DEF Ended
  <2> QED  BY <1>0, <1>1, <2>1, FetchingStays
<1>8. Batching'
  <2>1. wSeen' \subseteq wPool' \cup W!ToSet(wBatch') \cup W!ToSet(wWriting')
    BY <1>0, <1>1, <1>4 DEF Batching
  <2>2. \A d \in wParsed' : W!ToSet(DocUrls[d]) \subseteq
            wPool' \cup W!ToSet(wBatch') \cup W!ToSet(wWriting') \cup W!ToSet(wTodo')
    BY <1>0, <1>1, <1>4 DEF Batching
  <2>3. wStatus' # "running" <=> wPc' = "end"  BY <1>2, <1>3 DEF Ended
  <2>4. wPc \in {"drained", "budgeted"} => wWrite' = "idle" /\ wBatch' = <<>> /\ wTodo' = <<>>
    BY <1>0, <1>1 DEF Batching
  <2>5. wPc \in {"drain", "budget"} => wTodo' = <<>>  BY <1>0, <1>1 DEF Batching
  <2>6. wWrite' = "idle" => wWriting' = <<>>  BY <1>1
  <2>7. wWrite' # "done" /\ wWrite' # "failed"  BY <1>1
  <2>8. wKnown' \subseteq wPool'  BY <1>0, <1>1 DEF Batching
  <2>9. wStatus' \in Ended \/ wStatus' = "budget_exhausted" => wPc \in {"drained", "budgeted"}
    BY <1>2, <1>3 DEF Ended
  <2>10. wPc' \notin {"entries", "flush"} => wPc # "flush"  BY <1>2
  <2>11. wPc' \in {"drained", "budgeted"} => wBatch' = <<>>  BY <1>1
  <2> HIDE <1>1
  <2> QED  BY <1>2, <2>1, <2>2, <2>3, <2>4, <2>5, <2>6, <2>7, <2>8, <2>9, <2>10, <2>11 DEF Batching
<1>9. Counting'
  <2>1. wWrite = "done" \/ (wWrite = "idle" /\ Len(wWriting) = 0)
    <3>1. wWriting = <<>> => Len(wWriting) = 0  OBVIOUS
    <3> QED  BY <1>0, <1>1, <3>1 DEF Batching
  <2>2. Cardinality(wMine) = wInserted'
    <3>1. Cardinality(wMine) = wInserted + (IF wWrite = "done" THEN Len(wWriting) ELSE 0)  BY <1>0 DEF Counting
    <3>2. wInserted \in Nat  BY <1>0 DEF WalkTypes
    <3> QED  BY <1>1, <2>1, <3>1, <3>2
  <2>3. wWrite' # "done" /\ wInserted' \in Nat  BY <1>1, <1>6 DEF WalkTypes
  <2>4. Cardinality(wMine') = wInserted' + (IF wWrite' = "done" THEN Len(wWriting') ELSE 0)
    BY <1>1, <2>2, <2>3
  <2> QED  BY <1>0, <1>1, <1>5, <2>4 DEF Counting
<1> QED  BY <1>6, <1>7, <1>8, <1>9 DEF WalkInv

LEMMA FlushFailsStep == ASSUME WalkInv, W!FlushFails PROVE WalkInv'
<1>0. WalkTypes /\ Fetching /\ Batching /\ Counting  BY DEF WalkInv
<1>1. /\ wPc \in {"flush", "drain", "drained", "budget", "budgeted"} /\ wWrite = "failed"
      /\ wPc' = "end" /\ wStatus' \in {"budget_exhausted", "error"}
      /\ UNCHANGED <<wPool, wPending, wInflight, wVisited, wAnswer, wCap, wQueued, wTodo, wKnown, wSeen, wRaw,
                     wProducts, wParsed, wBatch, wWriting, wWrite, wInserted, wMine>>
  BY FlushFacts DEF W!FlushFails, W!fetching, W!entries, W!writer
<1>2. WalkTypes'  BY <1>0, <1>1 DEF WalkTypes, PlacesAt, Statuses
<1>3. wStatus' \notin Ended  BY <1>1 DEF Ended
<1>4. Fetching'  BY <1>0, <1>1, <1>3, FetchingStays
<1>5. Batching'  BY <1>0, <1>1, <1>3 DEF Batching
<1>6. Counting'  BY <1>0, <1>1, CountingStays
<1> QED  BY <1>2, <1>4, <1>5, <1>6 DEF WalkInv

\* The thread writes: what it inserted is what writing keeps.
LEMMA WriteStep == ASSUME WalkInv, W!Write PROVE WalkInv'
<1>0. WalkTypes /\ Fetching /\ Batching /\ Counting  BY DEF WalkInv
<1> DEFINE fresh == W!ToSet(wWriting) \ wPool
<1>1. /\ wWrite = "writing" /\ wWrite' = "done"
      /\ wWriting' = W!Filter(wWriting, fresh) /\ wPool' = wPool \cup W!ToSet(wWriting)
      /\ wMine' = wMine \cup fresh
      /\ UNCHANGED <<wPending, wInflight, wVisited, wAnswer, wCap, wQueued, wPc, wStatus, wTodo, wKnown, wSeen, wRaw,
                     wProducts, wParsed, wBatch, wInserted>>
  BY Zenon DEF W!Write, W!fetching, W!entries
<1>2. wWriting \in Seq(W!AllUrls) /\ IsInjective(wWriting)  BY <1>0 DEF WalkTypes, Counting
<1>3. wWriting' \in Seq(W!AllUrls) /\ IsInjective(wWriting') /\ W!ToSet(wWriting') = fresh
  <2>1. W!Filter(wWriting, fresh) \in Seq(W!AllUrls) /\ IsInjective(W!Filter(wWriting, fresh))
        /\ W!ToSet(W!Filter(wWriting, fresh)) = W!ToSet(wWriting) \cap fresh
    BY <1>2, WalkFilter
  <2>2. W!ToSet(wWriting) \cap fresh = fresh  OBVIOUS
  <2> QED  BY <1>1, <2>1, <2>2
<1>4. IsFiniteSet(fresh) /\ Cardinality(fresh) = Len(wWriting')
  BY <1>3, OnceEach
<1>5. W!ToSet(wWriting) \subseteq W!AllUrls  BY <1>2 DEF W!ToSet
<1>6. fresh \cap wMine = {} /\ fresh \subseteq W!ToSet(wWriting)  BY <1>0 DEF Counting
<1> HIDE DEF fresh
<1>7. WalkTypes'  BY <1>0, <1>1, <1>3, <1>5, <1>6 DEF WalkTypes
<1>8. Fetching'  BY <1>0, <1>1, FetchingStays
<1>9. Batching'
  <2>1. W!ToSet(wWriting') \subseteq wPool' /\ W!ToSet(wWriting) \subseteq wPool' /\ wPool \subseteq wPool'
    BY <1>1, <1>3, <1>6
  <2>2. wSeen' \subseteq wPool' \cup W!ToSet(wBatch') \cup W!ToSet(wWriting')
    BY <1>0, <1>1, <2>1 DEF Batching
  <2>3. \A d \in wParsed' : W!ToSet(DocUrls[d]) \subseteq
            wPool' \cup W!ToSet(wBatch') \cup W!ToSet(wWriting') \cup W!ToSet(wTodo')
    BY <1>0, <1>1, <2>1 DEF Batching
  <2> QED  BY <1>0, <1>1, <2>1, <2>2, <2>3 DEF Batching
<1>10. Counting'
  <2>1. IsFiniteSet(wMine) /\ Cardinality(wMine) = wInserted /\ wInserted \in Nat
    BY <1>0, <1>1 DEF Counting, WalkTypes
  <2>2. IsFiniteSet(wMine') /\ Cardinality(wMine') = Cardinality(wMine) + Cardinality(fresh)
    <3>1. IsFiniteSet(wMine \cup fresh)
          /\ Cardinality(wMine \cup fresh) = Cardinality(wMine) + Cardinality(fresh) - Cardinality(wMine \cap fresh)
      BY <1>4, <2>1, FS_Union
    <3>2. Cardinality(wMine \cap fresh) = 0  BY <1>6, FS_EmptySet
    <3>3. Cardinality(fresh) \in Nat /\ Cardinality(wMine) \in Nat  BY <1>4, <2>1, FS_CardinalityType
    <3> QED  BY <1>1, <3>1, <3>2, <3>3
  <2>3. wMine' \subseteq wPool'  BY <1>0, <1>1, <1>6 DEF Counting
  <2> QED  BY <1>0, <1>1, <1>3, <1>4, <2>1, <2>2, <2>3 DEF Counting
<1> QED  BY <1>7, <1>8, <1>9, <1>10 DEF WalkInv

LEMMA WriteFailsStep == ASSUME WalkInv, W!WriteFails PROVE WalkInv'
<1>0. WalkTypes /\ Fetching /\ Batching /\ Counting  BY DEF WalkInv
<1>1. /\ wWrite = "writing" /\ wWrite' = "failed"
      /\ UNCHANGED <<wPool, wPending, wInflight, wVisited, wAnswer, wCap, wQueued, wPc, wStatus, wTodo, wKnown, wSeen,
                     wRaw, wProducts, wParsed, wBatch, wWriting, wInserted, wMine>>
  BY Zenon DEF W!WriteFails, W!fetching, W!entries
<1>2. WalkTypes'  BY <1>0, <1>1 DEF WalkTypes
<1>3. Fetching'  BY <1>0, <1>1, FetchingStays
<1>4. Batching'  BY <1>0, <1>1 DEF Batching
<1>5. Counting'  BY <1>0, <1>1 DEF Counting
<1> QED  BY <1>2, <1>3, <1>4, <1>5 DEF WalkInv

LEMMA OtherShardStep == ASSUME WalkInv, W!OtherShard PROVE WalkInv'
<1>0. WalkTypes /\ Fetching /\ Batching /\ Counting  BY DEF WalkInv
<1>1. /\ \E d \in Doc : \E u \in W!ToSet(DocUrls[d]) : wPool' = wPool \cup {u}
      /\ UNCHANGED <<wPending, wInflight, wVisited, wAnswer, wCap, wQueued, wPc, wStatus, wTodo, wKnown, wSeen, wRaw,
                     wProducts, wParsed, wBatch, wWriting, wWrite, wInserted, wMine>>
  BY Zenon DEF W!OtherShard, W!fetching, W!entries, W!writer
<1>2. wPool' \subseteq wPool \cup W!AllUrls /\ wPool \subseteq wPool'  BY <1>1 DEF W!AllUrls
<1>3. WalkTypes'  BY <1>0, <1>1, <1>2 DEF WalkTypes
<1>4. Fetching'  BY <1>0, <1>1, FetchingStays
<1>5. Batching'  BY <1>0, <1>1, <1>2, BatchingStays
<1>6. Counting'  BY <1>0, <1>1, <1>2, CountingStays
<1> QED  BY <1>3, <1>4, <1>5, <1>6 DEF WalkInv

-----------------------------------------------------------------------------
LEMMA WalkInit == ASSUME W!Init PROVE WalkInv
<1>1. /\ wPool = {} /\ wInflight = <<>> /\ wVisited = {} /\ wAnswer = [d \in Doc |-> "none"]
      /\ wCap \in Caps /\ wPc = "walk" /\ wStatus = "running" /\ wTodo = <<>> /\ wKnown = {} /\ wSeen = {}
      /\ wBatch = <<>> /\ wWriting = <<>> /\ wWrite = "idle" /\ wInserted = 0 /\ wRaw = 0 /\ wProducts = 0
      /\ wQueued = W!ToSet(wPending) /\ wParsed = {} /\ wMine = {}
      /\ wPending = (IF Explicit THEN W!Kept(Roots, NoLocale) ELSE Roots)
  BY Zenon DEF W!Init
<1>2. wPending \in Seq(Doc)  BY <1>1, TreeFacts, KeptTyped
<1>3. W!ToSet(wPending) \subseteq Doc  BY <1>2 DEF W!ToSet
<1>4. wAnswer \in [Doc -> Answers]  BY <1>1 DEF Answers
<1>5. WalkTypes  BY <1>1, <1>2, <1>3, <1>4, TreeFacts DEF WalkTypes, PlacesAt, Statuses
<1>6. Fetching
  <2>1. W!Cardinality({}) = 0  BY WalkCounts, FS_EmptySet
  <2>2. Len(wInflight) = 0  BY <1>1
  <2>3. Prefetch \in Nat /\ wCap \in Nat  BY <1>1, TreeFacts
  <2> QED  BY <1>1, <2>1, <2>2, <2>3 DEF Fetching, Ended
<1>7. Batching  BY <1>1 DEF Batching, Ended, W!ToSet
<1>8. Counting
  <2>1. Cardinality({}) = 0 /\ IsFiniteSet({})  BY FS_EmptySet
  <2> QED  BY <1>1, <2>1 DEF Counting, IsInjective, W!ToSet
<1> QED  BY <1>5, <1>6, <1>7, <1>8 DEF WalkInv

LEMMA WalkStep == ASSUME WalkInv, [W!Next]_wVars PROVE WalkInv'
<1>1. CASE UNCHANGED wVars
  <2>1. WalkTypes'  BY <1>1 DEF WalkInv, WalkTypes, wVars
  <2>2. Fetching'  BY <1>1, FetchingStays DEF WalkInv, wVars
  <2>3. Batching'  BY <1>1, BatchingStays DEF WalkInv, wVars
  <2>4. Counting'  BY <1>1, CountingStays DEF WalkInv, wVars
  <2> QED  BY <2>1, <2>2, <2>3, <2>4 DEF WalkInv
<1>2. CASE W!Next
  BY <1>2, DispatchStep, AnswerStep, AwaitStep, AwaitNothingStep, WalkEndStep, EntryStep, EntriesEndStep,
     FlushStep, FlushFailsStep, WriteStep, WriteFailsStep, OtherShardStep, Zenon DEF W!Next
<1> QED  BY <1>1, <1>2

LEMMA WalkTyped == ASSUME WalkInv PROVE W!TypeOK
<1>0. WalkTypes /\ Fetching /\ Batching  BY DEF WalkInv
<1>1. W!ToSet(wPending) \subseteq Doc /\ W!ToSet(wInflight) \subseteq Doc  BY <1>0 DEF WalkTypes, W!ToSet
<1>2. W!Cardinality(wVisited) <= wCap
  <2>1. wInflight \in Seq(Doc) /\ wCap \in Nat  BY <1>0 DEF WalkTypes
  <2>2. Len(wInflight) \in Nat  BY <2>1
  <2>3. W!Cardinality(wVisited) \in Nat  BY <1>0, VisitedCount
  <2>4. W!Cardinality(wVisited) + Len(wInflight) <= wCap  BY <1>0 DEF Fetching
  <2> QED  BY <2>1, <2>2, <2>3, <2>4
<1>3. wAnswer \in [Doc -> {"none", "awaited", "document", "nothing", "no budget"}]
  BY <1>0, Zenon DEF WalkTypes, Answers
<1>4. wPc \in {"walk", "entries", "end"} \cup DOMAIN W!AfterFlush
  BY <1>0, FlushFacts DEF WalkTypes, PlacesAt
<1>5. wStatus \in {"running", "completed", "empty_sitemap", "budget_exhausted", "error"}
      /\ wWrite \in {"idle", "writing", "done", "failed"} /\ (wWrite = "idle" => wWriting = <<>>)
  BY <1>0 DEF WalkTypes, Statuses, Batching
<1>6. wPool \subseteq W!AllUrls /\ wSeen \subseteq W!AllUrls /\ wKnown \subseteq W!AllUrls /\ wVisited \subseteq Doc
      /\ Len(wInflight) <= Prefetch
  BY <1>0 DEF WalkTypes, Fetching
<1> QED  BY <1>1, <1>2, <1>3, <1>4, <1>5, <1>6, Zenon DEF W!TypeOK

LEMMA WalkLeavesNothing == ASSUME WalkInv PROVE W!NothingLeftBehind /\ W!CompletedWalk
<1>0. WalkTypes /\ Fetching /\ Batching /\ Counting  BY DEF WalkInv
<1>1. W!NothingLeftBehind
  <2> SUFFICES ASSUME wStatus \in {"completed", "empty_sitemap", "budget_exhausted"}, wWrite # "failed",
                      NEW d \in wParsed
               PROVE  W!ToSet(DocUrls[d]) \subseteq wPool
    BY DEF W!NothingLeftBehind
  <2>1. wBatch = <<>> /\ wWriting = <<>> /\ wTodo = <<>>  BY <1>0 DEF Batching, Ended
  <2>2. W!ToSet(<<>>) = {}  BY DEF W!ToSet
  <2> QED  BY <1>0, <2>1, <2>2 DEF Batching
<1>2. W!CompletedWalk
  <2> SUFFICES ASSUME wStatus = "completed" PROVE
          wInserted = W!Cardinality(wMine)
          /\ (W!Cardinality(wVisited) < wCap /\ ~W!Enough => wQueued \subseteq wVisited)
    BY DEF W!CompletedWalk
  <2>1. wStatus \in Ended  BY DEF Ended
  <2>2. Cardinality(wMine) = wInserted
    <3>1. wWrite = "idle" /\ wInserted \in Nat  BY <1>0, <2>1 DEF Batching, WalkTypes
    <3>2. Cardinality(wMine) = wInserted + (IF wWrite = "done" THEN Len(wWriting) ELSE 0)  BY <1>0 DEF Counting
    <3> QED  BY <3>1, <3>2
  <2>3. ASSUME W!Cardinality(wVisited) < wCap, ~W!Enough PROVE wQueued \subseteq wVisited
    <3>1. W!Cardinality(wVisited) \in Nat /\ wCap \in Nat  BY <1>0, VisitedCount DEF WalkTypes
    <3>2. wInflight = <<>> /\ wPending = <<>>  BY <1>0, <2>1, <2>3, <3>1 DEF Fetching
    <3>3. W!ToSet(<<>>) = {}  BY DEF W!ToSet
    <3> QED  BY <1>0, <3>2, <3>3 DEF Fetching
  <2> QED  BY <2>2, <2>3, WalkCounts
<1> QED  BY <1>1, <1>2

\* A walk that ends by itself has written all it parsed, has gone through all it queued unless it
\* reached a cap, and reports what it wrote (sitemap_enumerator.py:297-425 over
\* scraper_pool.py:776-864), for any tree, locales, caps and sizes of batch, whatever fetches and
\* writes fail and whatever other shards write beside it.
THEOREM WalkIsComplete ==
    /\ W!Spec => [](W!TypeOK /\ W!NothingLeftBehind /\ W!CompletedWalk)
    /\ MCSpec => [](part = "walk" => W!TypeOK)
<1>1. W!Spec => []WalkInv
  <2>1. [W!Next]_W!vars => [W!Next]_wVars  BY DEF W!vars, wVars
  <2>2. WalkInv /\ [W!Next]_wVars => WalkInv'  BY WalkStep
  <2> QED  BY <2>1, <2>2, WalkInit, PTL DEF W!Spec
<1>2. WalkInv => W!TypeOK /\ W!NothingLeftBehind /\ W!CompletedWalk  BY WalkTyped, WalkLeavesNothing
<1>3. MCSpec => [](part = "walk" => WalkInv)
  <2>1. MCInit => (part = "walk" => WalkInv)  BY WalkInit DEF MCInit
  <2>2. (part = "walk" => WalkInv) /\ [MCNext]_allVars => (part = "walk" => WalkInv)'  BY WalkPart, WalkStep
  <2> QED  BY <2>1, <2>2, PTL DEF MCSpec, allVars
<1>4. W!Spec => [](W!TypeOK /\ W!NothingLeftBehind /\ W!CompletedWalk)  BY <1>1, <1>2, PTL
<1>5. MCSpec => [](part = "walk" => W!TypeOK)  BY <1>2, <1>3, PTL
<1> QED  BY <1>4, <1>5

\* What the runs check of a walk (sitemap_enumerator.py:297-425): nothing it parsed is left behind,
\* and a completed walk counted what it wrote.
THEOREM WalkIsAccounted == MCSpec => []WalkAccounted
<1>1. MCInit => (part = "walk" => WalkInv)  BY WalkInit DEF MCInit
<1>2. (part = "walk" => WalkInv) /\ [MCNext]_allVars => (part = "walk" => WalkInv)'  BY WalkPart, WalkStep
<1>3. (part = "walk" => WalkInv) => WalkAccounted  BY WalkLeavesNothing DEF WalkAccounted
<1> QED  BY <1>1, <1>2, <1>3, PTL DEF MCSpec, allVars

-----------------------------------------------------------------------------
(***************************************************************************)
(* The discovery runs of a shop.                                           *)
(***************************************************************************)
Goods == D!ToSet(Sitemap) \cup UNION {Products[page] : page \in Page}
Queues == Seq(Page \X (0..MaxDepth + 1))
RunPlaces == {"idle", "sitemap", "category", "dedup", "save", "bfs", "plan", "harvest", "finish"}
Outcomes == {"none", "error", "partial_budget", "partial", "no_categories", "completed"}

RunLocals ==
    [number : 0..MaxRuns, via : {"none", "sitemap"}, remaining : Nat, late : {"no", "phase1", "both"},
     backlog : BOOLEAN, queue : Queues, visited : SUBSET Page, found : Seq(Page),
     todo : Seq(D!ToSet(Sitemap) \cup Page), at : Nat, end : Nat, streak : Nat,
     known : SUBSET Goods, saved : Nat, candidates : Nat,
     partial : BOOLEAN, errors : BOOLEAN, status : Outcomes]

QueuedIn(queue) == {queue[k][1] : k \in DOMAIN queue}
InFrontier(frontier) == IF frontier = NoFrontier THEN {} ELSE QueuedIn(frontier.queue)
Categories(pages) == (pages \cap Listings) \ {Home}
StoredTo(n, goods) == \A k \in 1..n : Sitemap[k] \in goods

\* The categories before place n of a list were worked off since its publication.
WorkedOff(m, n, done) == \A k \in 1..n : k <= Len(m.cats) + 1 /\ <<m.pub, D!HarvestUrls(m)[k]>> \in done

\* A copy of the cursors, the row's or a run's: the resume index is honest, what was seen is
\* accounted for, and what lies before the offset is in the pool.
GoodCursors(m, goods, done, listed, failed, q1, old) ==
    /\ m \in D!Cursors /\ D!FrontierOK(m)
    /\ m.frontier # NoFrontier => m.frontier.visited = m.seen
    /\ ~old => m.index <= Len(m.cats) /\ WorkedOff(m, m.index, done)
    /\ Categories(m.seen) \subseteq listed \cup failed \cup D!ToSet(m.cats) \cup InFrontier(m.frontier)
    /\ q1 = 0 => StoredTo(m.offset, goods)

\* A walk: what it queues it has visited, and a category it visited is queued, found, or missed.
GoodWalk(l, listed, failed) ==
    /\ QueuedIn(l.queue) \subseteq l.visited
    /\ Categories(l.visited) \subseteq listed \cup failed \cup D!ToSet(l.found) \cup QueuedIn(l.queue)

\* A harvest of the list m: todo is the head of the list, all before at was worked off.
GoodHarvest(m, l, done, old) ==
    /\ Len(l.todo) <= Len(m.cats) + 1 /\ \A k \in 1..Len(l.todo) : l.todo[k] = D!HarvestUrls(m)[k]
    /\ l.at < l.end => l.end <= Len(l.todo)
    /\ ~old => WorkedOff(m, l.at, done)

\* A pass over the sitemap: todo is its head, all of it without a quota.
GoodPass(p1, l, goods, q1) ==
    /\ Len(l.todo) <= Len(Sitemap) /\ \A k \in 1..Len(l.todo) : l.todo[k] = Sitemap[k]
    /\ q1 = 0 => Len(l.todo) = Len(Sitemap) /\ l.at <= Len(Sitemap) /\ StoredTo(l.at, goods)
    /\ p1 = "save" => l.known \subseteq goods

\* A run, where it is: free of a quota, old lists put back.
GoodRun(p1, m, l, goods, done, listed, failed, q1, old) ==
    /\ p1 \in RunPlaces /\ l \in RunLocals
    /\ p1 \in {"sitemap", "category", "bfs"} => D!ToSet(m.cats) \subseteq listed
    /\ p1 = "bfs" => GoodWalk(l, listed, failed)
    /\ p1 = "harvest" => GoodHarvest(m, l, done, old)
    /\ p1 \in {"dedup", "save"} => GoodPass(p1, l, goods, q1)
    /\ p1 = "sitemap" /\ q1 = 0 => Len(Sitemap) <= l.remaining
    /\ l.via = "sitemap" => p1 \in {"dedup", "save", "finish", "idle"}
    /\ p1 # "idle" => l.status = "none"
    /\ l.via = "sitemap" /\ q1 = 0 /\ ((p1 = "finish" /\ ~l.partial) \/ l.status = "completed") =>
          D!ToSet(Sitemap) \subseteq goods

GoodRuns ==
    \A o \in Run :
        /\ GoodCursors(dMem[o], dPool, dHarvested, dPublished, dMissed, dQuota, dClobbered)
        /\ GoodRun(dPc[o], dMem[o], dLoc[o], dPool, dHarvested, dPublished, dMissed, dQuota, dClobbered)

GoodRow ==
    /\ GoodCursors(dRow, dPool, dHarvested, dPublished, dMissed, dQuota, dClobbered)
    /\ D!ToSet(dRow.cats) \subseteq dPublished

RunShapes ==
    /\ dPc \in [Run -> RunPlaces] /\ dMem \in [Run -> D!Cursors] /\ dLoc \in [Run -> RunLocals]
    /\ dQuota \in Nat /\ dRuns \in 0..MaxRuns /\ dClobbered \in BOOLEAN
    /\ dPool \subseteq Goods /\ IsFiniteSet(dPool)
    /\ dMerging \in {NoList} \cup Seq(Page)

RunInv == RunShapes /\ GoodRow /\ GoodRuns

LEMMA ShopFacts ==
    /\ IsFiniteSet(Page) /\ Home \in Page /\ Listings \subseteq Page /\ Usual \subseteq Page
    /\ Links \in [Page -> Seq(Page)] /\ \A page \in Page : IsFiniteSet(Products[page])
    /\ Sitemap \in Seq(D!ToSet(Sitemap)) /\ Len(Sitemap) \in Nat
    /\ Quotas \subseteq Nat /\ MaxDepth \in Nat /\ MaxRuns \in Nat
    /\ SaveBatch \in Nat \ {0} /\ Window \in Nat \ {0}
    /\ NoFrontier \notin [queue : Queues, visited : SUBSET Page]
<1>1. D!ShopAssumption  BY PartsAssumption
<1>2. \A S : D!IsFiniteSet(S) <=> IsFiniteSet(S)  BY DEF D!IsFiniteSet, IsFiniteSet
<1>3. Sitemap \in Seq(D!ToSet(Sitemap))  BY <1>1 DEF D!ShopAssumption
<1>4. Len(Sitemap) \in Nat  BY <1>3
<1> QED  BY <1>1, <1>2, <1>3, <1>4 DEF D!ShopAssumption, Queues

LEMMA RunCounts == ASSUME NEW S PROVE (D!IsFiniteSet(S) <=> IsFiniteSet(S)) /\ D!Cardinality(S) = Cardinality(S)
BY DEF D!IsFiniteSet, IsFiniteSet, D!Cardinality, Cardinality

LEMMA SameElements == ASSUME NEW s1 PROVE D!ToSet(s1) = Elements(s1) /\ W!ToSet(s1) = Elements(s1)
BY DEF D!ToSet, W!ToSet, Elements

LEMMA RunFilter ==
    ASSUME NEW T, NEW s1 \in Seq(T), NEW S
    PROVE  D!Filter(s1, S) \in Seq(T) /\ D!ToSet(D!Filter(s1, S)) = D!ToSet(s1) \cap S
<1>2. D!Filter(s1, S) = Filter(s1, S)
  BY DEF D!Filter, Filter, D!PlaceOf, PlaceOf, D!PlacesIn, PlacesIn, D!Cardinality, Cardinality,
         D!IsFiniteSet, IsFiniteSet
<1>3. Filter(s1, S) \in Seq(T) /\ Elements(Filter(s1, S)) = Elements(s1) \cap S
  BY Filtered, Zenon
<1> QED  BY <1>2, <1>3, SameElements

LEMMA RunPart ==
    ASSUME [MCNext]_allVars
    PROVE  part' = part /\ (part = "discovery" => [D!Next]_dVars)
BY DEF allVars, MCNext, MarketParts, UserParts

-----------------------------------------------------------------------------
\* What is good stays good while the pool, the history and the faults grow.
LEMMA CursorsGrow ==
    ASSUME NEW m, NEW goods, NEW done, NEW listed, NEW failed, NEW q1, NEW old,
           NEW goods2, NEW done2, NEW listed2, NEW failed2, NEW old2,
           GoodCursors(m, goods, done, listed, failed, q1, old),
           goods \subseteq goods2, done \subseteq done2, listed \subseteq listed2, failed \subseteq failed2, old => old2
    PROVE  GoodCursors(m, goods2, done2, listed2, failed2, q1, old2)
<1>1. q1 = 0 => StoredTo(m.offset, goods2)  BY DEF GoodCursors, StoredTo
<1>2. ~old2 => m.index <= Len(m.cats) /\ WorkedOff(m, m.index, done2)  BY DEF GoodCursors, WorkedOff
<1>3. Categories(m.seen) \subseteq listed2 \cup failed2 \cup D!ToSet(m.cats) \cup InFrontier(m.frontier)
  BY DEF GoodCursors
<1> QED  BY <1>1, <1>2, <1>3 DEF GoodCursors

LEMMA RunGrows ==
    ASSUME NEW p1, NEW m, NEW l, NEW goods, NEW done, NEW listed, NEW failed, NEW q1, NEW old,
           NEW goods2, NEW done2, NEW listed2, NEW failed2, NEW old2,
           GoodRun(p1, m, l, goods, done, listed, failed, q1, old),
           goods \subseteq goods2, done \subseteq done2, listed \subseteq listed2, failed \subseteq failed2, old => old2
    PROVE  GoodRun(p1, m, l, goods2, done2, listed2, failed2, q1, old2)
<1>1. p1 = "bfs" => GoodWalk(l, listed2, failed2)  BY DEF GoodRun, GoodWalk
<1>2. p1 = "harvest" => GoodHarvest(m, l, done2, old2)  BY DEF GoodRun, GoodHarvest, WorkedOff
<1>3. p1 \in {"dedup", "save"} => GoodPass(p1, l, goods2, q1)  BY DEF GoodRun, GoodPass, StoredTo
<1> QED  BY <1>1, <1>2, <1>3 DEF GoodRun

Grown ==
    /\ dPool \subseteq dPool' /\ dHarvested \subseteq dHarvested' /\ dPublished \subseteq dPublished'
    /\ dMissed \subseteq dMissed' /\ (dClobbered => dClobbered') /\ dQuota' = dQuota
    /\ dClobbered' \in BOOLEAN /\ dPool' \subseteq Goods /\ IsFiniteSet(dPool')

\* A step of one run: the others stay as they are.
OnlyRun(r1) ==
    \A o \in Run : o # r1 => dPc'[o] = dPc[o] /\ dMem'[o] = dMem[o] /\ dLoc'[o] = dLoc[o]

GoodAfter(r1) ==
    /\ GoodCursors(dMem'[r1], dPool', dHarvested', dPublished', dMissed', dQuota, dClobbered')
    /\ GoodRun(dPc'[r1], dMem'[r1], dLoc'[r1], dPool', dHarvested', dPublished', dMissed', dQuota, dClobbered')

GoodBefore(r1) ==
    /\ GoodCursors(dMem[r1], dPool, dHarvested, dPublished, dMissed, dQuota, dClobbered)
    /\ GoodRun(dPc[r1], dMem[r1], dLoc[r1], dPool, dHarvested, dPublished, dMissed, dQuota, dClobbered)

LEMMA RunMoves ==
    ASSUME RunShapes', GoodRuns, NEW r1 \in Run, Grown, OnlyRun(r1), GoodAfter(r1)
    PROVE  GoodRuns'
<1>1. ASSUME NEW o \in Run
      PROVE  /\ GoodCursors(dMem[o], dPool, dHarvested, dPublished, dMissed, dQuota, dClobbered)'
             /\ GoodRun(dPc[o], dMem[o], dLoc[o], dPool, dHarvested, dPublished, dMissed, dQuota, dClobbered)'
  <2>1. CASE o = r1  BY <2>1 DEF GoodAfter, Grown
  <2>2. CASE o # r1
    <3>1. dPc'[o] = dPc[o] /\ dMem'[o] = dMem[o] /\ dLoc'[o] = dLoc[o]  BY <2>2 DEF OnlyRun
    <3>2. GoodCursors(dMem[o], dPool, dHarvested, dPublished, dMissed, dQuota, dClobbered)
          /\ GoodRun(dPc[o], dMem[o], dLoc[o], dPool, dHarvested, dPublished, dMissed, dQuota, dClobbered)
      BY DEF GoodRuns
    <3>3. GoodCursors(dMem[o], dPool', dHarvested', dPublished', dMissed', dQuota, dClobbered')
      BY <3>2, CursorsGrow DEF Grown
    <3>4. GoodRun(dPc[o], dMem[o], dLoc[o], dPool', dHarvested', dPublished', dMissed', dQuota, dClobbered')
      BY <3>2, RunGrows DEF Grown
    <3> QED  BY <3>1, <3>3, <3>4 DEF Grown
  <2> QED  BY <2>1, <2>2
<1> QED  BY <1>1 DEF GoodRuns

LEMMA RunsStay ==
    ASSUME GoodRuns, Grown, UNCHANGED <<dPc, dMem, dLoc>>
    PROVE  GoodRuns'
<1>1. ASSUME NEW o \in Run
      PROVE  /\ GoodCursors(dMem[o], dPool, dHarvested, dPublished, dMissed, dQuota, dClobbered)'
             /\ GoodRun(dPc[o], dMem[o], dLoc[o], dPool, dHarvested, dPublished, dMissed, dQuota, dClobbered)'
  <2>1. GoodCursors(dMem[o], dPool, dHarvested, dPublished, dMissed, dQuota, dClobbered)
        /\ GoodRun(dPc[o], dMem[o], dLoc[o], dPool, dHarvested, dPublished, dMissed, dQuota, dClobbered)
    BY DEF GoodRuns
  <2>2. GoodCursors(dMem[o], dPool', dHarvested', dPublished', dMissed', dQuota, dClobbered')
    BY <2>1, CursorsGrow DEF Grown
  <2>3. GoodRun(dPc[o], dMem[o], dLoc[o], dPool', dHarvested', dPublished', dMissed', dQuota, dClobbered')
    BY <2>1, RunGrows DEF Grown
  <2> QED  BY <2>2, <2>3 DEF Grown
<1> QED  BY <1>1 DEF GoodRuns

LEMMA RowStays ==
    ASSUME GoodRow, Grown, dRow' = dRow
    PROVE  GoodRow'
<1>1. GoodCursors(dRow, dPool', dHarvested', dPublished', dMissed', dQuota, dClobbered')
  BY CursorsGrow DEF Grown, GoodRow
<1> QED  BY <1>1 DEF GoodRow, Grown

OverRuns ==
    /\ dPc' = [o \in Run |-> dPc'[o]] /\ dMem' = [o \in Run |-> dMem'[o]] /\ dLoc' = [o \in Run |-> dLoc'[o]]

\* What a step of one run has to show.
LEMMA RunStepKeeps ==
    ASSUME RunInv, NEW r1 \in Run, OverRuns, OnlyRun(r1), Grown, GoodAfter(r1), GoodRow',
           dRuns' \in 0..MaxRuns, dMerging' \in {NoList} \cup Seq(Page)
    PROVE  RunInv'
<1>0. RunShapes /\ GoodRuns  BY DEF RunInv
<1>1. dPc'[r1] \in RunPlaces /\ dMem'[r1] \in D!Cursors /\ dLoc'[r1] \in RunLocals
  BY DEF GoodAfter, GoodCursors, GoodRun
<1>2. ASSUME NEW o \in Run PROVE dPc'[o] \in RunPlaces /\ dMem'[o] \in D!Cursors /\ dLoc'[o] \in RunLocals
  <2>1. o # r1 => dPc'[o] = dPc[o] /\ dMem'[o] = dMem[o] /\ dLoc'[o] = dLoc[o]  BY DEF OnlyRun
  <2>2. dPc[o] \in RunPlaces /\ dMem[o] \in D!Cursors /\ dLoc[o] \in RunLocals  BY <1>0 DEF RunShapes
  <2> QED  BY <1>1, <2>1, <2>2
<1>3. dPc' \in [Run -> RunPlaces] /\ dMem' \in [Run -> D!Cursors] /\ dLoc' \in [Run -> RunLocals]
  BY <1>2 DEF OverRuns
<1>4. RunShapes'  BY <1>0, <1>3 DEF RunShapes, Grown
<1>5. GoodRuns'  BY <1>0, <1>4, RunMoves
<1> QED  BY <1>4, <1>5 DEF RunInv

\* What a run can count on before its step.
LEMMA RunBefore ==
    ASSUME RunInv, NEW r1 \in Run
    PROVE  /\ RunShapes /\ GoodRow /\ GoodBefore(r1)
           /\ dMem[r1] \in D!Cursors /\ dLoc[r1] \in RunLocals /\ dPc[r1] \in RunPlaces
           /\ dQuota \in Nat /\ dClobbered \in BOOLEAN /\ dPool \subseteq Goods /\ IsFiniteSet(dPool)
BY DEF RunInv, RunShapes, GoodRuns, GoodBefore

LEMMA CursorFields ==
    ASSUME NEW m \in D!Cursors
    PROVE  /\ m.sitemapAge \in {"fresh", "stale"} /\ m.offset \in 0..Len(Sitemap) /\ m.reconAge \in {"fresh", "stale"}
           /\ m.cats \in Seq(Page) /\ m.index \in Nat /\ m.pub \in 0..MaxRuns /\ m.seen \subseteq Page
           /\ m.frontier # NoFrontier =>
                 m.frontier.queue \in Queues /\ m.frontier.visited \subseteq Page
BY DEF D!Cursors, Queues

\* Steps of a run that stay inside it.
LEMMA StepInside ==
    ASSUME RunInv, NEW r1 \in Run, OverRuns, OnlyRun(r1), GoodAfter(r1),
           UNCHANGED <<dRow, dQuota, dMerging, dRuns, dPublished, dClobbered>>,
           dPool \subseteq dPool', dPool' \subseteq Goods, IsFiniteSet(dPool'),
           dHarvested \subseteq dHarvested', dMissed \subseteq dMissed'
    PROVE  RunInv'
<1>1. RunShapes /\ GoodRow  BY DEF RunInv
<1>2. Grown  BY <1>1 DEF Grown, RunShapes
<1>3. GoodRow'  BY <1>1, <1>2, RowStays
<1> QED  BY <1>1, <1>2, <1>3, RunStepKeeps DEF RunShapes

\* A run before it has done anything.
LEMMA EmptyLocals == D!NoLocals \in RunLocals /\ D!NoLocals.via = "none" /\ D!NoLocals.status = "none"
<1>1. /\ <<>> \in Queues /\ <<>> \in Seq(Page) /\ <<>> \in Seq(D!ToSet(Sitemap) \cup Page) /\ 0 \in 0..MaxRuns
      /\ "none" \in Outcomes /\ "none" \in {"none", "sitemap"} /\ "no" \in {"no", "phase1", "both"}
  BY ShopFacts DEF Queues, Outcomes
<1>2. D!NoLocals \in RunLocals  BY <1>1, SMTT(20) DEF RunLocals, D!NoLocals
<1>3. D!NoLocals.via = "none" /\ D!NoLocals.status = "none"  BY DEF D!NoLocals
<1> QED  BY <1>2, <1>3

LEMMA FreshLocals ==
    ASSUME NEW n \in 0..MaxRuns, NEW left \in Nat
    PROVE  LET l == [D!NoLocals EXCEPT !.number = n, !.remaining = left]
           IN  l \in RunLocals /\ l.via = "none" /\ l.status = "none" /\ l.remaining = left
<1>2. D!NoLocals \in RunLocals /\ D!NoLocals.via = "none" /\ D!NoLocals.status = "none"  BY EmptyLocals
<1> DEFINE l == [D!NoLocals EXCEPT !.number = n, !.remaining = left]
<1>4. l \in RunLocals  BY <1>2, ZenonT(20) DEF RunLocals
<1>5. l.via = D!NoLocals.via /\ l.status = D!NoLocals.status /\ l.remaining = left
  BY <1>2 DEF RunLocals
<1> QED  BY <1>2, <1>4, <1>5

\* discover: a run loads the row.
LEMMA StartStep == ASSUME RunInv, NEW r1 \in Run, D!Start(r1) PROVE RunInv'
<1>0. RunShapes /\ GoodRow  BY DEF RunInv
<1> DEFINE left == IF dQuota > 0 THEN IF dQuota > D!Cardinality(dPool) THEN dQuota - D!Cardinality(dPool) ELSE 0
                   ELSE Len(Sitemap) + D!Cardinality(Page) + 1
           l == [D!NoLocals EXCEPT !.number = dRuns', !.remaining = left]
           p1 == IF D!ShouldRunSitemap(dRow) THEN "sitemap" ELSE "category"
<1>1. /\ dRuns < MaxRuns /\ dRuns' = dRuns + 1
      /\ dMem' = [dMem EXCEPT ![r1] = dRow] /\ dLoc' = [dLoc EXCEPT ![r1] = l] /\ dPc' = [dPc EXCEPT ![r1] = p1]
      /\ UNCHANGED <<dRow, dQuota, dPool, dMerging, dPublished, dHarvested, dMissed, dClobbered>>
  BY Zenon DEF D!Start, D!Goto
<1>2. left \in Nat /\ (dQuota = 0 => Len(Sitemap) <= left)
  <2>1. D!Cardinality(dPool) \in Nat /\ D!Cardinality(Page) \in Nat
    BY <1>0, ShopFacts, RunCounts, FS_CardinalityType DEF RunShapes
  <2>2. dQuota \in Nat /\ Len(Sitemap) \in Nat  BY <1>0, ShopFacts DEF RunShapes
  <2> QED  BY <2>1, <2>2
<1>3. dRuns' \in 0..MaxRuns  BY <1>0, <1>1, ShopFacts DEF RunShapes
<1> HIDE DEF left
<1>4. l \in RunLocals /\ l.via = "none" /\ l.status = "none" /\ l.remaining = left
  BY <1>2, <1>3, FreshLocals
<1>5. p1 \in {"sitemap", "category"}  OBVIOUS
<1> HIDE DEF l, p1
<1>6. OverRuns /\ OnlyRun(r1) /\ dMem'[r1] = dRow /\ dLoc'[r1] = l /\ dPc'[r1] = p1
  BY <1>0, <1>1 DEF RunShapes, OverRuns, OnlyRun
<1>7. Grown  BY <1>0, <1>1 DEF Grown, RunShapes
<1>8. GoodRow'  BY <1>0, <1>1, <1>7, RowStays
<1>9. GoodAfter(r1)
  <2>1. GoodRun(p1, dRow, l, dPool, dHarvested, dPublished, dMissed, dQuota, dClobbered)
    BY <1>0, <1>2, <1>4, <1>5 DEF GoodRun, GoodRow, RunPlaces
  <2>2. GoodCursors(dRow, dPool, dHarvested, dPublished, dMissed, dQuota, dClobbered)  BY <1>0 DEF GoodRow
  <2> QED  BY <1>1, <1>6, <2>1, <2>2 DEF GoodAfter
<1> QED  BY <1>0, <1>1, <1>3, <1>6, <1>7, <1>8, <1>9, RunStepKeeps DEF RunShapes

\* The first n places, or all.
First(places, n) == {i \in places : Cardinality({j \in places : j < i}) < n}

LEMMA FirstPlaces ==
    ASSUME NEW places \in SUBSET Nat, IsFiniteSet(places), NEW n \in Nat
    PROVE  /\ Cardinality(First(places, n)) = n \/ First(places, n) = places
           /\ \A i \in First(places, n), j \in places : j < i => j \in First(places, n)
<1> DEFINE Below(i) == {j \in places : j < i}
           number == [i \in places |-> Cardinality(UpTo(places, i))]
           total == Cardinality(places)
<1>1. /\ total \in Nat
      /\ \A i, j \in places : number[i] = number[j] => i = j
      /\ number \in [places -> 1..total]
      /\ \A k \in 1..total : \E i \in places : number[i] = k
  BY PlacesNumbered, Zenon DEF Injection, IsInjective, Surjection
<1>2. ASSUME NEW i \in places
      PROVE  IsFiniteSet(Below(i)) /\ Cardinality(Below(i)) \in Nat /\ number[i] = Cardinality(Below(i)) + 1
  <2>1. IsFiniteSet(Below(i))  BY FS_Subset
  <2>2. UpTo(places, i) = Below(i) \cup {i} /\ i \notin Below(i)
    <3>1. \A j \in places : j <= i <=> j < i \/ j = i  OBVIOUS
    <3>2. UpTo(places, i) = {j \in places : j <= i}  BY DEF UpTo
    <3>3. Below(i) = {j \in places : j < i}  OBVIOUS
    <3>4. ~(i < i)  OBVIOUS
    <3> HIDE DEF Below
    <3> QED  BY <3>1, <3>2, <3>3, <3>4
  <2>3. Cardinality(Below(i) \cup {i}) = Cardinality(Below(i)) + 1  BY <2>1, <2>2, FS_AddElement
  <2>4. Cardinality(Below(i)) \in Nat  BY <2>1, FS_CardinalityType
  <2> QED  BY <2>1, <2>2, <2>3, <2>4
<1>3. ASSUME NEW i \in places, NEW j \in places, j < i PROVE Cardinality(Below(j)) <= Cardinality(Below(i))
  <2>0. \A k \in places : k < j => k < i  BY <1>3
  <2>1. Below(j) \in SUBSET Below(i)  BY <2>0
  <2> QED  BY <1>2, <2>1, FS_Subset
<1>4. First(places, n) = {i \in places : Cardinality(Below(i)) < n}  BY DEF First
<1> HIDE DEF Below, number
<1>5. \A i \in places : i \in First(places, n) <=> number[i] <= n
  <2> SUFFICES ASSUME NEW i \in places PROVE i \in First(places, n) <=> number[i] <= n  OBVIOUS
  <2>1. Cardinality(Below(i)) \in Nat /\ number[i] = Cardinality(Below(i)) + 1  BY <1>2
  <2> QED  BY <1>4, <2>1
<1>6. \A i \in First(places, n), j \in places : j < i => j \in First(places, n)
  <2> SUFFICES ASSUME NEW i \in First(places, n), NEW j \in places, j < i PROVE j \in First(places, n)
    OBVIOUS
  <2>1. i \in places /\ Cardinality(Below(i)) < n  BY <1>4
  <2>2. Cardinality(Below(j)) <= Cardinality(Below(i))  BY <1>3, <2>1
  <2>3. Cardinality(Below(j)) \in Nat /\ Cardinality(Below(i)) \in Nat  BY <1>2, <2>1
  <2> QED  BY <1>4, <2>1, <2>2, <2>3
<1>7. Cardinality(First(places, n)) = n \/ First(places, n) = places
  <2>1. CASE total <= n
    <3>1. \A i \in places : number[i] <= n  BY <1>1, <2>1
    <3> QED  BY <1>4, <1>5, <3>1
  <2>2. CASE n < total
    <3> DEFINE of == [i \in First(places, n) |-> number[i]]
    <3>1. First(places, n) \subseteq places  BY <1>4
    <3>2. \A i \in First(places, n) : number[i] \in 1..n
      <4> TAKE i \in First(places, n)
      <4>1. i \in places  BY <3>1
      <4>2. number[i] \in 1..total  BY <1>1, <4>1
      <4>3. number[i] <= n  BY <1>5, <4>1
      <4> QED  BY <1>1, <4>2, <4>3
    <3>3. of \in [First(places, n) -> 1..n]  BY <3>2
    <3>4. \A i, j \in First(places, n) : of[i] = of[j] => i = j  BY <1>1, <3>1
    <3>5. \A k \in 1..n : \E i \in First(places, n) : of[i] = k
      <4> SUFFICES ASSUME NEW k \in 1..n PROVE \E i \in First(places, n) : of[i] = k  OBVIOUS
      <4>1. k \in 1..total  BY <1>1, <2>2
      <4>2. PICK i \in places : number[i] = k  BY <1>1, <4>1
      <4>3. i \in First(places, n)  BY <1>5, <4>2
      <4> QED  BY <4>2, <4>3
    <3> HIDE DEF of
    <3>6. of \in Bijection(First(places, n), 1..n)
      BY <3>3, <3>4, <3>5, Zenon DEF Bijection, Injection, IsInjective, Surjection
    <3>7. IsFiniteSet(First(places, n))  BY <3>1, FS_Subset
    <3>8. Cardinality(1..n) = Cardinality(First(places, n))  BY <3>6, <3>7, FS_Bijection DEF ExistsBijection
    <3>9. Cardinality(1..n) = n  BY FS_Interval
    <3> QED  BY <3>8, <3>9
  <2> QED  BY <1>1, <2>1, <2>2
<1> QED  BY <1>6, <1>7

LEMMA LargestPlace ==
    ASSUME NEW places \in SUBSET Nat, IsFiniteSet(places), places # {}
    PROVE  D!Max(places) \in places /\ \A j \in places : j <= D!Max(places)
<1> DEFINE total == Cardinality(places)
           last == PlaceOf(places, total)
<1>1. total \in Nat /\ total # 0  BY FS_CardinalityType, FS_EmptySet
<1>2. last \in places /\ Cardinality(UpTo(places, last)) = total  BY <1>1, PlaceFound
<1>3. UpTo(places, last) \in SUBSET places  BY DEF UpTo
<1>4. UpTo(places, last) = places  BY <1>2, <1>3, FS_Subset
<1>5. \A j \in places : j <= last  BY <1>4 DEF UpTo
<1> HIDE DEF last
<1>6. \E k \in places : \A j \in places : k >= j  BY <1>2, <1>5
<1>7. D!Max(places) \in places /\ \A j \in places : D!Max(places) >= j  BY <1>6, Zenon DEF D!Max
<1> QED  BY <1>7

LEMMA HeadOfList ==
    ASSUME NEW T, NEW s1 \in Seq(T), NEW n \in 0..Len(s1)
    PROVE  /\ SubSeq(s1, 1, n) \in Seq(T) /\ Len(SubSeq(s1, 1, n)) = n
           /\ \A k \in 1..n : SubSeq(s1, 1, n)[k] = s1[k]
<1>1. n <= Len(s1) /\ 1 \in Nat  OBVIOUS
<1>2. SubSeq(s1, 1, n) \in Seq(T)  BY SMT
<1>3. Len(SubSeq(s1, 1, n)) = n  BY SMT
<1>4. \A k \in 1..n : SubSeq(s1, 1, n)[k] = s1[k]  BY SMT
<1> QED  BY <1>2, <1>3, <1>4

\* A run stands at p2 with the copy m2 and the locals l2 after its step.
Moves(r1, p2, m2, l2) ==
    /\ dPc' = [dPc EXCEPT ![r1] = p2] /\ dMem' = [dMem EXCEPT ![r1] = m2] /\ dLoc' = [dLoc EXCEPT ![r1] = l2]

Quiet == UNCHANGED <<dRow, dQuota, dMerging, dRuns, dPublished, dClobbered>>

LEMMA OwnStep ==
    ASSUME RunShapes, NEW r1 \in Run, NEW p2, NEW m2, NEW l2, Moves(r1, p2, m2, l2)
    PROVE  OverRuns /\ OnlyRun(r1) /\ dPc'[r1] = p2 /\ dMem'[r1] = m2 /\ dLoc'[r1] = l2
BY DEF Moves, RunShapes, OverRuns, OnlyRun

LEMMA QuietMove ==
    ASSUME RunInv, NEW r1 \in Run, NEW p2, NEW m2, NEW l2, Moves(r1, p2, m2, l2), Quiet,
           dPool \subseteq dPool', dPool' \subseteq Goods, IsFiniteSet(dPool'),
           dHarvested \subseteq dHarvested', dMissed \subseteq dMissed',
           GoodCursors(m2, dPool', dHarvested', dPublished, dMissed', dQuota, dClobbered),
           GoodRun(p2, m2, l2, dPool', dHarvested', dPublished, dMissed', dQuota, dClobbered)
    PROVE  RunInv'
<1>1. OverRuns /\ OnlyRun(r1) /\ dPc'[r1] = p2 /\ dMem'[r1] = m2 /\ dLoc'[r1] = l2
  BY OwnStep DEF RunInv
<1>2. GoodAfter(r1)  BY <1>1 DEF GoodAfter, Quiet
<1> QED  BY <1>1, <1>2, StepInside DEF Quiet

LEMMA SameCursors ==
    ASSUME NEW m, NEW goods, NEW done, NEW listed, NEW failed, NEW q1, NEW old, NEW m2 \in D!Cursors,
           GoodCursors(m, goods, done, listed, failed, q1, old),
           m2.cats = m.cats, m2.index = m.index, m2.pub = m.pub, m2.frontier = m.frontier,
           m2.seen = m.seen, m2.offset = m.offset
    PROVE  GoodCursors(m2, goods, done, listed, failed, q1, old)
<1>1. D!HarvestUrls(m2) = D!HarvestUrls(m)  BY DEF D!HarvestUrls
<1> QED  BY <1>1 DEF GoodCursors, WorkedOff, D!FrontierOK

LEMMA LocalFields ==
    ASSUME NEW l \in RunLocals
    PROVE  /\ l.number \in 0..MaxRuns /\ l.via \in {"none", "sitemap"} /\ l.remaining \in Nat
           /\ l.late \in {"no", "phase1", "both"} /\ l.backlog \in BOOLEAN /\ l.queue \in Queues
           /\ l.visited \subseteq Page /\ l.found \in Seq(Page)
           /\ l.todo \in Seq(D!ToSet(Sitemap) \cup Page) /\ l.at \in Nat /\ l.end \in Nat /\ l.streak \in Nat
           /\ l.known \subseteq Goods /\ l.saved \in Nat /\ l.candidates \in Nat
           /\ l.partial \in BOOLEAN /\ l.errors \in BOOLEAN /\ l.status \in Outcomes
BY DEF RunLocals

-----------------------------------------------------------------------------
\* harvest_sitemap: the run takes the sitemap, cut to the slots left.
LEMMA UsefulStep == ASSUME RunInv, NEW r1 \in Run, D!SitemapUseful(r1) PROVE RunInv'
<1> DEFINE m == dMem[r1]
           l == dLoc[r1]
           cut == IF l.remaining < Len(Sitemap) THEN l.remaining ELSE Len(Sitemap)
           todo == SubSeq(Sitemap, 1, cut)
           m2 == [m EXCEPT !.sitemapAge = "fresh"]
           l2 == [l EXCEPT !.todo = todo, !.via = "sitemap", !.at = m.offset, !.candidates = Len(Sitemap)]
<1>0. RunShapes /\ GoodBefore(r1) /\ m \in D!Cursors /\ l \in RunLocals /\ dQuota \in Nat
      /\ dPool \subseteq Goods /\ IsFiniteSet(dPool)
  BY RunBefore
<1>1. /\ dPc[r1] = "sitemap" /\ Moves(r1, "dedup", m2, l2)
      /\ Quiet /\ UNCHANGED <<dPool, dHarvested, dMissed>>
  BY ZenonT(20) DEF D!SitemapUseful, D!Goto, D!shared, Moves, Quiet
<1>2. l.remaining \in Nat /\ m.offset \in 0..Len(Sitemap) /\ Len(Sitemap) \in Nat
  BY <1>0, LocalFields, CursorFields, ShopFacts
<1>3. cut \in 0..Len(Sitemap)  BY <1>2
<1>4. todo \in Seq(D!ToSet(Sitemap)) /\ Len(todo) = cut /\ \A k \in 1..cut : todo[k] = Sitemap[k]
  BY <1>3, ShopFacts, HeadOfList
<1>5. todo \in Seq(D!ToSet(Sitemap) \cup Page) /\ m.offset \in Nat  BY <1>2, <1>4
<1> HIDE DEF todo
<1>6. l2 \in RunLocals  BY <1>0, <1>2, <1>5, ZenonT(20) DEF RunLocals
<1>7. l2.todo = todo /\ l2.via = "sitemap" /\ l2.at = m.offset /\ l2.status = l.status
  BY <1>0 DEF RunLocals
<1>8. m2 \in D!Cursors  BY <1>0, ZenonT(20) DEF D!Cursors
<1>9. /\ m2.cats = m.cats /\ m2.index = m.index /\ m2.pub = m.pub /\ m2.frontier = m.frontier
      /\ m2.seen = m.seen /\ m2.offset = m.offset
  BY <1>0 DEF D!Cursors
<1> HIDE DEF l2, m2, m, l
<1>10. /\ GoodCursors(m, dPool, dHarvested, dPublished, dMissed, dQuota, dClobbered)
       /\ GoodRun("sitemap", m, l, dPool, dHarvested, dPublished, dMissed, dQuota, dClobbered)
  BY <1>0, <1>1 DEF GoodBefore, m, l
<1>11. GoodCursors(m2, dPool, dHarvested, dPublished, dMissed, dQuota, dClobbered)
  BY <1>8, <1>9, <1>10, SameCursors
<1>12. (dQuota = 0 => cut = Len(Sitemap)) /\ l.status = "none"
  BY <1>2, <1>10 DEF GoodRun
<1>13. GoodPass("dedup", l2, dPool, dQuota)
  <2>1. dQuota = 0 => StoredTo(m.offset, dPool)  BY <1>10 DEF GoodCursors
  <2> QED  BY <1>2, <1>3, <1>4, <1>7, <1>12, <2>1 DEF GoodPass
<1>14. GoodRun("dedup", m2, l2, dPool, dHarvested, dPublished, dMissed, dQuota, dClobbered)
  BY <1>6, <1>7, <1>12, <1>13 DEF GoodRun, RunPlaces
<1> QED  BY <1>0, <1>1, <1>11, <1>14, QuietMove DEF Quiet

\* harvest_sitemap fails: the run goes on with the categories.
LEMMA UselessStep == ASSUME RunInv, NEW r1 \in Run, D!SitemapUseless(r1) PROVE RunInv'
<1> DEFINE m == dMem[r1]
           l == dLoc[r1]
           m2 == [m EXCEPT !.sitemapAge = "fresh"]
<1>0. RunShapes /\ GoodBefore(r1) /\ m \in D!Cursors /\ l \in RunLocals /\ dPool \subseteq Goods /\ IsFiniteSet(dPool)
  BY RunBefore
<1>1. /\ dPc[r1] = "sitemap" /\ Quiet /\ UNCHANGED <<dPool, dHarvested, dMissed>>
      /\ \E timeout \in BOOLEAN : Moves(r1, "category", m2, [l EXCEPT !.errors = timeout])
  BY ZenonT(20) DEF D!SitemapUseless, D!Goto, D!shared, Moves, Quiet
<1>2. PICK timeout \in BOOLEAN : Moves(r1, "category", m2, [l EXCEPT !.errors = timeout])  BY <1>1
<1> DEFINE l2 == [l EXCEPT !.errors = timeout]
<1>3. l2 \in RunLocals  BY <1>0, ZenonT(20) DEF RunLocals
<1>4. l2.via = l.via /\ l2.status = l.status  BY <1>0 DEF RunLocals
<1>5. m2 \in D!Cursors  BY <1>0, ZenonT(20) DEF D!Cursors
<1>6. /\ m2.cats = m.cats /\ m2.index = m.index /\ m2.pub = m.pub /\ m2.frontier = m.frontier
      /\ m2.seen = m.seen /\ m2.offset = m.offset
  BY <1>0 DEF D!Cursors
<1>7. Moves(r1, "category", m2, l2)  BY <1>2
<1> HIDE DEF l2, m2, m, l
<1>8. /\ GoodCursors(m, dPool, dHarvested, dPublished, dMissed, dQuota, dClobbered)
      /\ GoodRun("sitemap", m, l, dPool, dHarvested, dPublished, dMissed, dQuota, dClobbered)
  BY <1>0, <1>1 DEF GoodBefore, m, l
<1>9. GoodCursors(m2, dPool, dHarvested, dPublished, dMissed, dQuota, dClobbered)
  BY <1>5, <1>6, <1>8, SameCursors
<1>10. GoodRun("category", m2, l2, dPool, dHarvested, dPublished, dMissed, dQuota, dClobbered)
  BY <1>3, <1>4, <1>6, <1>8 DEF GoodRun, RunPlaces
<1> QED  BY <1>0, <1>1, <1>7, <1>9, <1>10, QuietMove DEF Quiet

\* load_existing_url_hashes.
LEMMA DedupStep == ASSUME RunInv, NEW r1 \in Run, D!Dedup(r1) PROVE RunInv'
<1> DEFINE m == dMem[r1]
           l == dLoc[r1]
<1>0. RunShapes /\ GoodBefore(r1) /\ m \in D!Cursors /\ l \in RunLocals /\ dPool \subseteq Goods /\ IsFiniteSet(dPool)
  BY RunBefore
<1>1. /\ dPc[r1] = "dedup" /\ Quiet /\ UNCHANGED <<dPool, dHarvested, dMissed, dMem>>
      /\ dPc' = [dPc EXCEPT ![r1] = "save"]
      /\ \E known \in {dPool, {}} : dLoc' = [dLoc EXCEPT ![r1].known = known]
  BY ZenonT(20) DEF D!Dedup, D!Goto, D!shared, Quiet
<1>2. PICK known \in {dPool, {}} : dLoc' = [dLoc EXCEPT ![r1].known = known]  BY <1>1
<1> DEFINE l2 == [l EXCEPT !.known = known]
<1>3. dMem' = [dMem EXCEPT ![r1] = m]  BY <1>0, <1>1 DEF RunShapes
<1>4. Moves(r1, "save", m, l2)  BY <1>1, <1>2, <1>3, Zenon DEF Moves
<1>5. known \subseteq Goods /\ known \subseteq dPool  BY <1>0
<1>6. l2 \in RunLocals  BY <1>0, <1>5, ZenonT(20) DEF RunLocals
<1>7. /\ l2.via = l.via /\ l2.status = l.status /\ l2.todo = l.todo /\ l2.at = l.at /\ l2.known = known
  BY <1>0 DEF RunLocals
<1> HIDE DEF l2, m, l
<1>8. /\ GoodCursors(m, dPool, dHarvested, dPublished, dMissed, dQuota, dClobbered)
      /\ GoodRun("dedup", m, l, dPool, dHarvested, dPublished, dMissed, dQuota, dClobbered)
  BY <1>0, <1>1 DEF GoodBefore, m, l
<1>9. GoodPass("save", l2, dPool, dQuota)  BY <1>5, <1>7, <1>8 DEF GoodRun, GoodPass
<1>10. GoodRun("save", m, l2, dPool, dHarvested, dPublished, dMissed, dQuota, dClobbered)
  BY <1>6, <1>7, <1>8, <1>9 DEF GoodRun, RunPlaces
<1> QED  BY <1>0, <1>1, <1>4, <1>8, <1>10, QuietMove DEF Quiet

-----------------------------------------------------------------------------
\* One batch of the pass: which positions it writes, and how far that gets.
LEMMA OneBatch ==
    ASSUME NEW l \in RunLocals, NEW q1, NEW goods, GoodPass("save", l, goods, q1)
    PROVE  LET batch == D!NextBatch(l)
               urls == {l.todo[k] : k \in batch}
               full == D!Cardinality(batch) = SaveBatch
               next == IF full THEN D!Reached(batch) ELSE Len(l.todo)
           IN  /\ urls \subseteq D!ToSet(Sitemap) /\ IsFiniteSet(urls)
               /\ next \in 0..Len(l.todo)
               /\ q1 = 0 => StoredTo(next, goods \cup urls)
<1> DEFINE todo == l.todo
           places == D!Unsaved(l)
           batch == D!NextBatch(l)
           urls == {l.todo[k] : k \in batch}
           full == D!Cardinality(batch) = SaveBatch
           next == IF full THEN D!Reached(batch) ELSE Len(l.todo)
<1>1. todo \in Seq(D!ToSet(Sitemap) \cup Page) /\ Len(todo) \in Nat /\ l.at \in Nat
  <2>1. todo \in Seq(D!ToSet(Sitemap) \cup Page) /\ l.at \in Nat  BY LocalFields
  <2> QED  BY <2>1
<1>2. Len(todo) <= Len(Sitemap) /\ Len(Sitemap) \in Nat /\ \A k \in 1..Len(todo) : todo[k] = Sitemap[k]
  BY ShopFacts DEF GoodPass
<1>3. /\ places \subseteq 1..Len(todo) /\ places \subseteq Nat
      /\ \A k \in 1..Len(todo) : k > l.at /\ todo[k] \notin l.known => k \in places
  BY <1>1 DEF D!Unsaved
<1>4. IsFiniteSet(places)
  <2>1. IsFiniteSet(1..Len(todo))  BY <1>1, FS_Interval
  <2> QED  BY <1>3, <2>1, FS_Subset
<1>5. batch = First(places, SaveBatch)  BY RunCounts DEF D!NextBatch, First
<1>6. /\ Cardinality(batch) = SaveBatch \/ batch = places
      /\ \A i \in batch, j \in places : j < i => j \in batch
  BY <1>3, <1>4, <1>5, ShopFacts, FirstPlaces
<1>7. batch \subseteq places  BY <1>5 DEF First
<1>8. IsFiniteSet(batch)  BY <1>4, <1>7, FS_Subset
<1> HIDE DEF batch, places
<1>9. urls \subseteq D!ToSet(Sitemap)
  <2>1. \A k \in 1..Len(Sitemap) : Sitemap[k] \in D!ToSet(Sitemap)  BY ShopFacts
  <2> SUFFICES ASSUME NEW k \in batch PROVE todo[k] \in D!ToSet(Sitemap)  OBVIOUS
  <2>2. k \in 1..Len(todo)  BY <1>3, <1>7
  <2> QED  BY <1>1, <1>2, <2>1, <2>2
<1>10. IsFiniteSet(urls)
  <2>0. IsFiniteSet(W!ToSet(Sitemap))  BY ShopFacts, OnceEach
  <2>1. IsFiniteSet(Elements(Sitemap))  BY <2>0, SameElements
  <2> QED  BY <1>9, <2>1, SameElements, FS_Subset
<1>11. full <=> Cardinality(batch) = SaveBatch  BY RunCounts
<1>12. full => D!Reached(batch) \in batch /\ \A k \in batch : k <= D!Reached(batch)
  <2> SUFFICES ASSUME full PROVE D!Reached(batch) \in batch /\ \A k \in batch : k <= D!Reached(batch)
    OBVIOUS
  <2>1. batch # {}  BY <1>11, FS_EmptySet, ShopFacts
  <2>2. D!Max(batch) \in batch /\ \A k \in batch : k <= D!Max(batch)
    BY <1>3, <1>7, <1>8, <2>1, LargestPlace
  <2> QED  BY <2>2 DEF D!Reached
<1>13. next \in 0..Len(todo)
  <2>1. full => D!Reached(batch) \in 1..Len(todo)  BY <1>3, <1>7, <1>12
  <2> QED  BY <1>1, <2>1
<1>14. \A k \in places : k <= next => k \in batch
  <2> SUFFICES ASSUME NEW k \in places, k <= next PROVE k \in batch  OBVIOUS
  <2>1. CASE full
    <3>1. next = D!Reached(batch) /\ next \in batch  BY <1>12, <2>1
    <3>2. k = next \/ k < next  BY <1>3, <1>13
    <3> QED  BY <1>6, <3>1, <3>2
  <2>2. CASE ~full
    <3> QED  BY <1>6, <1>11, <2>2
  <2> QED  BY <2>1, <2>2
<1>15. \A k \in batch : todo[k] \in urls  OBVIOUS
<1> HIDE DEF urls, next, full
<1>16. q1 = 0 => StoredTo(next, goods \cup urls)
  <2> SUFFICES ASSUME q1 = 0, NEW k \in 1..next PROVE Sitemap[k] \in goods \cup urls  BY DEF StoredTo
  <2>1. k \in 1..Len(todo) /\ todo[k] = Sitemap[k]  BY <1>1, <1>2, <1>13
  <2>2. CASE k <= l.at
    <3>1. k \in 1..l.at  BY <1>1, <2>1, <2>2
    <3> QED  BY <3>1 DEF GoodPass, StoredTo
  <2>3. CASE k > l.at
    <3>1. CASE todo[k] \in l.known  BY <2>1, <3>1 DEF GoodPass
    <3>2. CASE todo[k] \notin l.known
      <4>1. k \in places  BY <1>3, <2>1, <2>3, <3>2
      <4>2. k \in batch  BY <1>13, <1>14, <4>1
      <4> QED  BY <1>15, <2>1, <4>2
    <3> QED  BY <3>1, <3>2
  <2> QED  BY <1>1, <2>1, <2>2, <2>3
<1> QED  BY <1>9, <1>10, <1>13, <1>16 DEF urls, next, full, batch

\* _save_product_urls: one batch is written and the offset moves behind it.
LEMMA SaveStepKeeps == ASSUME RunInv, NEW r1 \in Run, D!SaveStep(r1) PROVE RunInv'
<1> DEFINE m == dMem[r1]
           l == dLoc[r1]
           batch == D!NextBatch(l)
           urls == {l.todo[k] : k \in batch}
           full == D!Cardinality(batch) = SaveBatch
           exhausted == full /\ l.late = "both"
           next == IF full THEN D!Reached(batch) ELSE Len(l.todo)
           over == ~full \/ exhausted
           partial == exhausted /\ next < Len(l.todo)
           fresh == D!Cardinality(urls \ dPool)
           off == IF over THEN IF partial THEN next ELSE 0 ELSE m.offset
           m2 == [m EXCEPT !.offset = off]
           l2 == [l EXCEPT !.known = l.known \cup urls, !.at = next, !.saved = l.saved + fresh,
                           !.partial = over /\ partial]
           p2 == IF over THEN "finish" ELSE "save"
<1>0. RunShapes /\ GoodBefore(r1) /\ m \in D!Cursors /\ l \in RunLocals /\ dPool \subseteq Goods /\ IsFiniteSet(dPool)
      /\ dQuota \in Nat
  BY RunBefore
<1>1. /\ dPc[r1] = "save" /\ Quiet /\ UNCHANGED <<dHarvested, dMissed>>
      /\ dPool' = dPool \cup urls /\ Moves(r1, p2, m2, l2)
  BY ZenonT(30) DEF D!SaveStep, D!Goto, D!shared, Quiet, Moves
<1>2. /\ GoodCursors(m, dPool, dHarvested, dPublished, dMissed, dQuota, dClobbered)
      /\ GoodRun("save", m, l, dPool, dHarvested, dPublished, dMissed, dQuota, dClobbered)
      /\ GoodPass("save", l, dPool, dQuota)
  <2>1. GoodRun("save", m, l, dPool, dHarvested, dPublished, dMissed, dQuota, dClobbered)
    BY <1>0, <1>1 DEF GoodBefore
  <2>2. GoodCursors(m, dPool, dHarvested, dPublished, dMissed, dQuota, dClobbered)  BY <1>0 DEF GoodBefore
  <2> HIDE DEF m, l
  <2>3. GoodPass("save", l, dPool, dQuota)  BY <2>1 DEF GoodRun
  <2> QED  BY <2>1, <2>2, <2>3
<1> HIDE DEF m, l
<1>3. /\ urls \subseteq D!ToSet(Sitemap) /\ IsFiniteSet(urls) /\ next \in 0..Len(l.todo)
      /\ dQuota = 0 => StoredTo(next, dPool \cup urls)
  BY <1>0, <1>2, OneBatch
<1> HIDE DEF urls, batch
<1>4. /\ l.known \subseteq Goods /\ l.saved \in Nat /\ l.todo \in Seq(D!ToSet(Sitemap) \cup Page)
      /\ m.offset \in 0..Len(Sitemap) /\ Len(Sitemap) \in Nat
  BY <1>0, LocalFields, CursorFields, ShopFacts
<1>5. Len(l.todo) \in Nat /\ Len(l.todo) <= Len(Sitemap) /\ l.known \subseteq dPool
      /\ \A k \in 1..Len(l.todo) : l.todo[k] = Sitemap[k]
  BY <1>2, <1>4 DEF GoodPass
<1>6. next \in Nat /\ next \in 0..Len(Sitemap)  BY <1>3, <1>4, <1>5
<1>7. ~over \/ partial \/ next = Len(l.todo)  BY <1>3, <1>5
<1>8. partial => over  OBVIOUS
<1>9. fresh \in Nat
  <2>1. IsFiniteSet(urls \ dPool)  BY <1>3, FS_Subset
  <2> QED  BY <2>1, RunCounts, FS_CardinalityType
<1>10. off \in 0..Len(Sitemap)  BY <1>4, <1>6
<1>11. dPool' \subseteq Goods /\ IsFiniteSet(dPool') /\ dPool \subseteq dPool'
  <2>1. urls \subseteq Goods  BY <1>3 DEF Goods
  <2> QED  BY <1>0, <1>1, <1>3, <2>1, FS_Union
<1> HIDE DEF fresh, next
<1>12. (over /\ partial) \in BOOLEAN /\ l.known \cup urls \subseteq Goods /\ l.saved + fresh \in Nat
       /\ l.known \cup urls \subseteq dPool'
  BY <1>1, <1>3, <1>4, <1>5, <1>9 DEF Goods
<1> DEFINE parted == over /\ partial
<1>13. parted \in BOOLEAN /\ (parted <=> over /\ partial)  BY <1>12
<1>14. l2 = [l EXCEPT !.known = l.known \cup urls, !.at = next, !.saved = l.saved + fresh, !.partial = parted]
  OBVIOUS
<1> HIDE DEF parted, l2, off
<1>15. l2 \in RunLocals  BY <1>0, <1>6, <1>12, <1>13, <1>14, ZenonT(20) DEF RunLocals
<1>16. /\ l2.via = l.via /\ l2.status = l.status /\ l2.todo = l.todo /\ l2.at = next
       /\ l2.known = l.known \cup urls /\ l2.partial = parted
  BY <1>0, <1>14 DEF RunLocals
<1>17. m2 \in D!Cursors  BY <1>0, <1>10, ZenonT(20) DEF D!Cursors
<1>18. /\ m2.cats = m.cats /\ m2.index = m.index /\ m2.pub = m.pub /\ m2.frontier = m.frontier
       /\ m2.seen = m.seen /\ m2.offset = off
  BY <1>0 DEF D!Cursors
<1>19. dQuota = 0 => StoredTo(next, dPool') /\ Len(l.todo) = Len(Sitemap)
  BY <1>1, <1>2, <1>3 DEF GoodPass
<1>20. dQuota = 0 => StoredTo(m.offset, dPool')
  BY <1>1, <1>2 DEF GoodCursors, StoredTo
<1>21. dQuota = 0 => StoredTo(off, dPool')
  <2>1. StoredTo(0, dPool')  BY DEF StoredTo
  <2> QED  BY <1>19, <1>20, <2>1 DEF off
<1>22. GoodCursors(m, dPool', dHarvested', dPublished, dMissed', dQuota, dClobbered)
  BY <1>1, <1>2, <1>11, CursorsGrow
<1>23. GoodCursors(m2, dPool', dHarvested', dPublished, dMissed', dQuota, dClobbered)
  <2>1. D!HarvestUrls(m2) = D!HarvestUrls(m)  BY <1>18 DEF D!HarvestUrls
  <2> HIDE DEF m2
  <2> QED  BY <1>17, <1>18, <1>21, <1>22, <2>1 DEF GoodCursors, WorkedOff, D!FrontierOK
<1>24. GoodPass("save", l2, dPool', dQuota)
  BY <1>4, <1>5, <1>6, <1>12, <1>16, <1>19 DEF GoodPass
<1>25. dQuota = 0 /\ over /\ ~partial => D!ToSet(Sitemap) \subseteq dPool'
  <2> SUFFICES ASSUME dQuota = 0, over, ~partial PROVE D!ToSet(Sitemap) \subseteq dPool'  OBVIOUS
  <2>1. StoredTo(Len(Sitemap), dPool')  BY <1>7, <1>19
  <2> QED  BY <2>1, ShopFacts DEF StoredTo, D!ToSet
<1>26. p2 \in {"finish", "save"} /\ (p2 = "finish" <=> over)  OBVIOUS
<1> HIDE DEF m2, p2, over, partial
<1>27. l.status = "none"  BY <1>2 DEF GoodRun
<1>28. GoodRun(p2, m2, l2, dPool', dHarvested', dPublished, dMissed', dQuota, dClobbered)
  BY <1>8, <1>13, <1>15, <1>16, <1>24, <1>25, <1>26, <1>27 DEF GoodRun, RunPlaces
<1>29. dHarvested \subseteq dHarvested' /\ dMissed \subseteq dMissed'  BY <1>1
<1> HIDE DEF Moves
<1> QED  BY <1>1, <1>11, <1>23, <1>28, <1>29, QuietMove

LEMMA ResumedRun ==
    ASSUME NEW l \in RunLocals, NEW flag \in BOOLEAN, NEW f, f.queue \in Queues, f.visited \subseteq Page
    PROVE  LET l2 == D!Resumed([l EXCEPT !.backlog = flag], f)
           IN  /\ l2 \in RunLocals /\ l2.queue = f.queue /\ l2.visited = f.visited
               /\ l2.found = l.found /\ l2.via = l.via /\ l2.status = l.status
<1> DEFINE l1 == [l EXCEPT !.backlog = flag]
           l2 == [l1 EXCEPT !.queue = f.queue, !.visited = f.visited]
<1>1. l1 \in RunLocals  BY ZenonT(20) DEF RunLocals
<1>2. l1.found = l.found /\ l1.via = l.via /\ l1.status = l.status  BY DEF RunLocals
<1> HIDE DEF l1
<1>3. f.queue \in Queues /\ f.visited \in SUBSET Page  OBVIOUS
<1>4. l2 \in RunLocals  BY <1>1, <1>3, ZenonT(20) DEF RunLocals
<1>5. /\ l2.queue = f.queue /\ l2.visited = f.visited
      /\ l2.found = l1.found /\ l2.via = l1.via /\ l2.status = l1.status
  BY <1>1 DEF RunLocals
<1> QED  BY <1>2, <1>4, <1>5 DEF D!Resumed, l1

\* run_category_bfs begins: at the home page, in the frontier, or not at all.
LEMMA CategoryStep == ASSUME RunInv, NEW r1 \in Run, D!Category(r1) PROVE RunInv'
<1> DEFINE m == dMem[r1]
           l == dLoc[r1]
           cold == [queue |-> <<<<Home, 0>>>>, visited |-> {Home}]
           flag == D!Backlog(m)
           m2 == [m EXCEPT !.frontier = NoFrontier, !.index = 0, !.seen = {}]
<1>0. RunShapes /\ GoodBefore(r1) /\ m \in D!Cursors /\ l \in RunLocals /\ dPool \subseteq Goods /\ IsFiniteSet(dPool)
  BY RunBefore
<1>1. /\ dPc[r1] = "category" /\ Quiet /\ UNCHANGED <<dPool, dHarvested, dMissed>>
      /\ \/ /\ dPc' = [dPc EXCEPT ![r1] = "plan"] /\ dMem' = dMem
            /\ dLoc' = [dLoc EXCEPT ![r1] = [l EXCEPT !.backlog = flag]]
         \/ /\ dPc' = [dPc EXCEPT ![r1] = "bfs"] /\ dMem' = dMem
            /\ dLoc' = [dLoc EXCEPT ![r1] = D!Resumed([l EXCEPT !.backlog = flag],
                                                IF m.frontier = NoFrontier THEN cold ELSE m.frontier)]
         \/ Moves(r1, "bfs", m2, D!Resumed([l EXCEPT !.backlog = flag], cold))
  BY ZenonT(30) DEF D!Category, D!Goto, D!shared, Quiet, Moves
<1>2. dMem' = dMem => dMem' = [dMem EXCEPT ![r1] = m]  BY <1>0 DEF RunShapes
<1>3. m.index \in Nat /\ m.cats \in Seq(Page) /\ Len(m.cats) \in Nat
      /\ (m.frontier # NoFrontier => m.frontier.queue \in Queues /\ m.frontier.visited \subseteq Page)
  <2>1. m.index \in Nat /\ m.cats \in Seq(Page)
        /\ (m.frontier # NoFrontier => m.frontier.queue \in Queues /\ m.frontier.visited \subseteq Page)
    BY <1>0, CursorFields
  <2> QED  BY <2>1
<1>4. flag \in BOOLEAN  BY <1>3 DEF D!Backlog
<1>5. /\ cold.queue \in Queues /\ cold.visited = {Home} /\ {Home} \subseteq Page
      /\ QueuedIn(cold.queue) = {Home}
  BY ShopFacts DEF Queues, QueuedIn
<1> HIDE DEF m, l, cold, flag
<1>6. /\ GoodCursors(m, dPool, dHarvested, dPublished, dMissed, dQuota, dClobbered)
      /\ GoodRun("category", m, l, dPool, dHarvested, dPublished, dMissed, dQuota, dClobbered)
  BY <1>0, <1>1 DEF GoodBefore, m, l
<1>7. l.status = "none" /\ l.via # "sitemap" /\ D!ToSet(m.cats) \subseteq dPublished
  BY <1>6 DEF GoodRun
<1>8. ASSUME dPc' = [dPc EXCEPT ![r1] = "plan"], dMem' = dMem,
             dLoc' = [dLoc EXCEPT ![r1] = [l EXCEPT !.backlog = flag]]
      PROVE  RunInv'
  <2> DEFINE l2 == [l EXCEPT !.backlog = flag]
  <2>1. l2 \in RunLocals  BY <1>0, <1>4, ZenonT(20) DEF RunLocals
  <2>2. l2.via = l.via /\ l2.status = l.status  BY <1>0 DEF RunLocals
  <2>3. Moves(r1, "plan", m, l2)  BY <1>2, <1>8 DEF Moves
  <2> HIDE DEF l2
  <2>4. GoodRun("plan", m, l2, dPool, dHarvested, dPublished, dMissed, dQuota, dClobbered)
    BY <1>7, <2>1, <2>2 DEF GoodRun, RunPlaces
  <2> QED  BY <1>0, <1>1, <1>6, <2>3, <2>4, QuietMove DEF Quiet
<1>9. ASSUME NEW m3, NEW f, Moves(r1, "bfs", m3, D!Resumed([l EXCEPT !.backlog = flag], f)),
             f.queue \in Queues, f.visited \subseteq Page, QueuedIn(f.queue) \subseteq f.visited,
             Categories(f.visited) \subseteq dPublished \cup dMissed \cup QueuedIn(f.queue),
             m3.cats = m.cats,
             GoodCursors(m3, dPool, dHarvested, dPublished, dMissed, dQuota, dClobbered)
      PROVE  RunInv'
  <2> DEFINE l2 == D!Resumed([l EXCEPT !.backlog = flag], f)
  <2>1. /\ l2 \in RunLocals /\ l2.queue = f.queue /\ l2.visited = f.visited
        /\ l2.via = l.via /\ l2.status = l.status
    BY <1>0, <1>4, <1>9, ResumedRun
  <2> HIDE DEF l2
  <2>2. GoodWalk(l2, dPublished, dMissed)  BY <1>9, <2>1 DEF GoodWalk
  <2>3. GoodRun("bfs", m3, l2, dPool, dHarvested, dPublished, dMissed, dQuota, dClobbered)
    BY <1>7, <1>9, <2>1, <2>2 DEF GoodRun, RunPlaces
  <2>4. Moves(r1, "bfs", m3, l2)  BY <1>9 DEF l2
  <2> QED  BY <1>0, <1>1, <1>9, <2>3, <2>4, QuietMove DEF Quiet
<1>10. Categories(cold.visited) \subseteq {}  BY <1>5 DEF Categories
<1>11. ASSUME dPc' = [dPc EXCEPT ![r1] = "bfs"], dMem' = dMem,
              dLoc' = [dLoc EXCEPT ![r1] = D!Resumed([l EXCEPT !.backlog = flag],
                                               IF m.frontier = NoFrontier THEN cold ELSE m.frontier)]
       PROVE  RunInv'
  <2> DEFINE f == IF m.frontier = NoFrontier THEN cold ELSE m.frontier
  <2>1. Moves(r1, "bfs", m, D!Resumed([l EXCEPT !.backlog = flag], f))  BY <1>2, <1>11 DEF Moves
  <2>2. CASE m.frontier = NoFrontier
    <3>1. f = cold  BY <2>2
    <3> HIDE DEF f
    <3> QED  BY <1>5, <1>6, <1>9, <1>10, <2>1, <3>1
  <2>3. CASE m.frontier # NoFrontier
    <3>1. f = m.frontier  BY <2>3
    <3> HIDE DEF f
    <3>2. f.visited = m.seen /\ QueuedIn(f.queue) \subseteq f.visited
      BY <1>6, <2>3, <3>1 DEF GoodCursors, D!FrontierOK, QueuedIn
    <3>3. Categories(m.seen) \subseteq dPublished \cup dMissed \cup D!ToSet(m.cats) \cup QueuedIn(f.queue)
      BY <1>6, <2>3, <3>1 DEF GoodCursors, InFrontier
    <3>4. Categories(f.visited) \subseteq dPublished \cup dMissed \cup QueuedIn(f.queue)
      BY <1>7, <3>2, <3>3
    <3>5. f.queue \in Queues /\ f.visited \subseteq Page  BY <1>3, <2>3, <3>1
    <3> QED  BY <1>6, <1>9, <2>1, <3>2, <3>4, <3>5
  <2> QED  BY <2>2, <2>3
<1>12. ASSUME Moves(r1, "bfs", m2, D!Resumed([l EXCEPT !.backlog = flag], cold)) PROVE RunInv'
  <2>1. m2 \in D!Cursors  BY <1>0, ZenonT(20) DEF D!Cursors
  <2>2. /\ m2.cats = m.cats /\ m2.index = 0 /\ m2.pub = m.pub /\ m2.frontier = NoFrontier
        /\ m2.seen = {} /\ m2.offset = m.offset
    BY <1>0 DEF D!Cursors
  <2> HIDE DEF m2
  <2>3. Categories({}) = {} /\ WorkedOff(m2, 0, dHarvested)  BY DEF Categories, WorkedOff
  <2>4. GoodCursors(m2, dPool, dHarvested, dPublished, dMissed, dQuota, dClobbered)
    BY <1>3, <1>6, <2>1, <2>2, <2>3 DEF GoodCursors, D!FrontierOK
  <2> QED  BY <1>5, <1>9, <1>10, <1>12, <2>2, <2>4
<1> QED  BY <1>1, <1>8, <1>11, <1>12

LEMMA QueueTail ==
    ASSUME NEW queue \in Queues, queue # <<>>
    PROVE  /\ Head(queue)[1] \in Page /\ Head(queue)[2] \in 0..MaxDepth + 1 /\ Tail(queue) \in Queues
           /\ QueuedIn(queue) = {Head(queue)[1]} \cup QueuedIn(Tail(queue))
<1>1. queue \in Seq(Page \X (0..MaxDepth + 1))  BY DEF Queues
<1>2. Head(queue) \in Page \X (0..MaxDepth + 1) /\ Tail(queue) \in Queues
  BY <1>1 DEF Queues
<1>3. \A k \in DOMAIN queue : queue[k] = Head(queue) \/ (k - 1 \in DOMAIN Tail(queue) /\ queue[k] = Tail(queue)[k - 1])
  BY <1>1
<1>4. \A k \in DOMAIN Tail(queue) : k + 1 \in DOMAIN queue /\ Tail(queue)[k] = queue[k + 1]  BY <1>1
<1>5. 1 \in DOMAIN queue /\ Head(queue) = queue[1]  BY <1>1
<1>6. QueuedIn(queue) \subseteq {Head(queue)[1]} \cup QueuedIn(Tail(queue))
  <2>1. \A k \in DOMAIN Tail(queue) : Tail(queue)[k][1] \in QueuedIn(Tail(queue))  BY DEF QueuedIn
  <2>2. \A k \in DOMAIN queue : queue[k][1] \in {Head(queue)[1]} \cup QueuedIn(Tail(queue))  BY <1>3, <2>1
  <2> QED  BY <2>2 DEF QueuedIn
<1>7. {Head(queue)[1]} \cup QueuedIn(Tail(queue)) \subseteq QueuedIn(queue)  BY <1>4, <1>5 DEF QueuedIn
<1>8. Head(queue)[1] \in Page /\ Head(queue)[2] \in 0..MaxDepth + 1  BY <1>2
<1> QED  BY <1>2, <1>6, <1>7, <1>8

LEMMA QueueGrows ==
    ASSUME NEW queue \in Queues, NEW pages \in Seq(Page), NEW d \in 0..MaxDepth + 1
    PROVE  LET longer == queue \o [k \in DOMAIN pages |-> <<pages[k], d>>]
           IN  longer \in Queues /\ QueuedIn(longer) = QueuedIn(queue) \cup D!ToSet(pages)
<1> DEFINE more == [k \in DOMAIN pages |-> <<pages[k], d>>]
           longer == queue \o more
<1>1. queue \in Seq(Page \X (0..MaxDepth + 1))  BY DEF Queues
<1>2. more \in Seq(Page \X (0..MaxDepth + 1)) /\ DOMAIN more = DOMAIN pages
      /\ \A k \in DOMAIN pages : more[k][1] = pages[k]
  <2>1. DOMAIN pages = 1..Len(pages) /\ Len(pages) \in Nat /\ \A k \in DOMAIN pages : pages[k] \in Page  OBVIOUS
  <2>2. \A k \in DOMAIN pages : <<pages[k], d>> \in Page \X (0..MaxDepth + 1)  BY <2>1
  <2>3. more \in [1..Len(pages) -> Page \X (0..MaxDepth + 1)]  BY <2>1, <2>2
  <2> QED  BY <2>1, <2>3
<1> HIDE DEF more
<1>3. longer \in Seq(Page \X (0..MaxDepth + 1))  BY <1>1, <1>2
<1>4. \A k \in DOMAIN queue : k \in DOMAIN longer /\ longer[k] = queue[k]  BY <1>1, <1>2
<1>5. \A k \in DOMAIN more : Len(queue) + k \in DOMAIN longer /\ longer[Len(queue) + k] = more[k]  BY <1>1, <1>2
<1>6. \A k \in DOMAIN longer : (k \in DOMAIN queue /\ longer[k] = queue[k])
                               \/ (k - Len(queue) \in DOMAIN more /\ longer[k] = more[k - Len(queue)])
  BY <1>1, <1>2
<1> HIDE DEF longer
<1>7. QueuedIn(longer) \subseteq QueuedIn(queue) \cup D!ToSet(pages)
  <2>1. \A k \in DOMAIN queue : queue[k][1] \in QueuedIn(queue)  BY DEF QueuedIn
  <2>2. \A k \in DOMAIN pages : pages[k] \in D!ToSet(pages)  BY DEF D!ToSet
  <2>3. \A k \in DOMAIN longer : longer[k][1] \in QueuedIn(queue) \cup D!ToSet(pages)
    BY <1>2, <1>6, <2>1, <2>2
  <2> QED  BY <2>3 DEF QueuedIn
<1>8. QueuedIn(queue) \subseteq QueuedIn(longer)  BY <1>4, Zenon DEF QueuedIn
<1>9. D!ToSet(pages) \subseteq QueuedIn(longer)
  <2>1. \A k \in DOMAIN longer : longer[k][1] \in QueuedIn(longer)  BY DEF QueuedIn
  <2>2. \A k \in DOMAIN pages : pages[k] \in QueuedIn(longer)  BY <1>2, <1>5, <2>1
  <2> QED  BY <2>2 DEF D!ToSet
<1> QED  BY <1>3, <1>7, <1>8, <1>9 DEF Queues, longer, more

-----------------------------------------------------------------------------
\* _publish_category_batch: the list and the frontier account for the walk.
LEMMA PublishedCursors ==
    ASSUME NEW m, NEW goods, NEW done, NEW listed, NEW failed, NEW q1, NEW old,
           GoodCursors(m, goods, done, listed, failed, q1, old),
           NEW l \in RunLocals, GoodWalk(l, listed, failed)
    PROVE  GoodCursors(D!Published(m, l, l.queue), goods, done, listed, failed, q1, old)
<1> DEFINE f == D!Frontier(l, l.queue)
           m2 == [m EXCEPT !.cats = l.found, !.index = 0, !.reconAge = "fresh",
                           !.frontier = f, !.pub = l.number, !.seen = l.visited]
<1>1. m \in D!Cursors /\ l.found \in Seq(Page) /\ l.queue \in Queues /\ l.visited \subseteq Page /\ l.number \in 0..MaxRuns
  BY LocalFields DEF GoodCursors
<1>2. /\ l.queue = <<>> => f = NoFrontier
      /\ l.queue # <<>> => f # NoFrontier /\ f.queue = l.queue /\ f.visited = l.visited
                           /\ f \in [queue : Seq(Page \X (0..MaxDepth + 1)), visited : SUBSET Page]
  BY <1>1, ShopFacts DEF D!Frontier, Queues
<1>3. f \in {NoFrontier} \cup [queue : Seq(Page \X (0..MaxDepth + 1)), visited : SUBSET Page]
  BY <1>2
<1> HIDE DEF f
<1>4. m2 \in D!Cursors
  <2>1. "fresh" \in {"fresh", "stale"} /\ 0 \in Nat /\ l.visited \in SUBSET Page  BY <1>1
  <2> QED  BY <1>1, <1>3, <2>1, ZenonT(30) DEF D!Cursors
<1>5. /\ m2.cats = l.found /\ m2.index = 0 /\ m2.frontier = f /\ m2.seen = l.visited /\ m2.offset = m.offset
  BY <1>1 DEF D!Cursors
<1> HIDE DEF m2
<1>6. Len(l.found) \in Nat  BY <1>1
<1>7. InFrontier(f) = QueuedIn(l.queue)
  <2>1. QueuedIn(<<>>) = {}  BY DEF QueuedIn
  <2> QED  BY <1>2, <2>1 DEF InFrontier
<1>8. Categories(m2.seen) \subseteq listed \cup failed \cup D!ToSet(m2.cats) \cup InFrontier(m2.frontier)
  BY <1>5, <1>7 DEF GoodWalk
<1>9. D!FrontierOK(m2)
  <2>1. {l.queue[k][1] : k \in DOMAIN l.queue} \subseteq l.visited  BY DEF GoodWalk, QueuedIn
  <2>2. CASE l.queue = <<>>  BY <1>2, <1>5, <2>2 DEF D!FrontierOK
  <2>3. CASE l.queue # <<>>
    <3>1. f.queue = l.queue /\ f.visited = l.visited  BY <1>2, <2>3
    <3> QED  BY <1>5, <2>1, <2>3, <3>1, Zenon DEF D!FrontierOK
  <2> QED  BY <2>2, <2>3
<1>10. m2.index <= Len(m2.cats) /\ WorkedOff(m2, m2.index, done)  BY <1>5, <1>6 DEF WorkedOff
<1>11. q1 = 0 => StoredTo(m2.offset, goods)  BY <1>5 DEF GoodCursors
<1>12. m2.frontier # NoFrontier => m2.frontier.visited = m2.seen  BY <1>2, <1>5
<1>13. GoodCursors(m2, goods, done, listed, failed, q1, old)
  BY <1>4, <1>8, <1>9, <1>10, <1>11, <1>12 DEF GoodCursors
<1> QED  BY <1>13 DEF m2, f, D!Published

\* The run that ends its walk goes on to the harvest, or stops.
LEMMA WalkLeft ==
    ASSUME NEW m, NEW l, NEW goods, NEW done, NEW listed, NEW failed, NEW q1, NEW old, NEW m2,
           NEW l2 \in RunLocals, NEW p2 \in {"plan", "finish"},
           GoodRun("bfs", m, l, goods, done, listed, failed, q1, old),
           l2.via = l.via, l2.status = l.status
    PROVE  GoodRun(p2, m2, l2, goods, done, listed, failed, q1, old)
BY DEF GoodRun, RunPlaces

\* The deadline of phase 1: what is found is published, or the frontier is kept.
LEMMA LateStep == ASSUME RunInv, NEW r1 \in Run, D!BfsLate(r1) PROVE RunInv'
<1> DEFINE m == dMem[r1]
           l == dLoc[r1]
           f == D!Frontier(l, l.queue)
           m3 == [m EXCEPT !.frontier = f, !.seen = l.visited]
           l2 == [l EXCEPT !.queue = <<>>, !.visited = {}]
           l3 == [l EXCEPT !.queue = <<>>, !.visited = {}, !.partial = ~l.backlog]
           p3 == IF l.backlog THEN "plan" ELSE "finish"
<1>0. RunShapes /\ GoodBefore(r1) /\ m \in D!Cursors /\ l \in RunLocals /\ dPool \subseteq Goods /\ IsFiniteSet(dPool)
  BY RunBefore
<1>1. /\ dPc[r1] = "bfs" /\ l.queue # <<>> /\ Quiet /\ UNCHANGED <<dPool, dHarvested, dMissed>>
      /\ IF l.found # <<>> THEN Moves(r1, "plan", D!Published(m, l, l.queue), l2)
                           ELSE Moves(r1, p3, m3, l3)
  BY ZenonT(30) DEF D!BfsLate, D!Goto, D!shared, Quiet, Moves
<1> HIDE DEF m, l
<1>2. /\ GoodCursors(m, dPool, dHarvested, dPublished, dMissed, dQuota, dClobbered)
      /\ GoodRun("bfs", m, l, dPool, dHarvested, dPublished, dMissed, dQuota, dClobbered)
  BY <1>0, <1>1 DEF GoodBefore, m, l
<1>3. GoodWalk(l, dPublished, dMissed)  BY <1>2 DEF GoodRun
<1>4. l.queue \in Queues /\ l.visited \subseteq Page /\ l.backlog \in BOOLEAN  BY <1>0, LocalFields
<1>5. <<>> \in Queues /\ {} \subseteq Page  BY DEF Queues
<1>6. CASE l.found # <<>>
  <2>1. l2 \in RunLocals  BY <1>0, <1>5, ZenonT(20) DEF RunLocals
  <2>2. l2.via = l.via /\ l2.status = l.status  BY <1>0 DEF RunLocals
  <2> DEFINE m2 == D!Published(m, l, l.queue)
  <2>3. GoodCursors(m2, dPool, dHarvested, dPublished, dMissed, dQuota, dClobbered)
    BY <1>0, <1>2, <1>3, PublishedCursors
  <2>4. Moves(r1, "plan", m2, l2)  BY <1>1, <1>6
  <2> HIDE DEF m2, l2
  <2>5. GoodRun("plan", m2, l2, dPool, dHarvested, dPublished, dMissed, dQuota, dClobbered)
    BY <1>2, <2>1, <2>2, WalkLeft
  <2> QED  BY <1>0, <1>1, <2>3, <2>4, <2>5, QuietMove DEF Quiet
<1>7. CASE l.found = <<>>
  <2> DEFINE flag == ~l.backlog
  <2>0. flag \in BOOLEAN /\ l3 = [l EXCEPT !.queue = <<>>, !.visited = {}, !.partial = flag]
    BY <1>4
  <2> HIDE DEF flag, l3
  <2>1. l3 \in RunLocals  BY <1>0, <1>5, <2>0, ZenonT(20) DEF RunLocals
  <2>2. l3.via = l.via /\ l3.status = l.status  BY <1>0, <2>0 DEF RunLocals
  <2>3. f # NoFrontier /\ f.queue = l.queue /\ f.visited = l.visited
        /\ f \in [queue : Seq(Page \X (0..MaxDepth + 1)), visited : SUBSET Page]
    BY <1>1, <1>4, ShopFacts DEF D!Frontier, Queues
  <2> HIDE DEF f
  <2>4. m3 \in D!Cursors
    <3>1. l.visited \in SUBSET Page /\ f \in {NoFrontier} \cup [queue : Seq(Page \X (0..MaxDepth + 1)), visited : SUBSET Page]
      BY <1>4, <2>3
    <3> QED  BY <1>0, <3>1, ZenonT(20) DEF D!Cursors
  <2>5. /\ m3.cats = m.cats /\ m3.index = m.index /\ m3.pub = m.pub /\ m3.frontier = f
        /\ m3.seen = l.visited /\ m3.offset = m.offset
    BY <1>0 DEF D!Cursors
  <2>6. Moves(r1, p3, m3, l3)  BY <1>1, <1>7
  <2>7. p3 \in {"plan", "finish"}  OBVIOUS
  <2> HIDE DEF m3, p3
  <2>8. GoodCursors(m3, dPool, dHarvested, dPublished, dMissed, dQuota, dClobbered)
    <3>1. D!HarvestUrls(m3) = D!HarvestUrls(m)  BY <2>5 DEF D!HarvestUrls
    <3>2. {l.queue[k][1] : k \in DOMAIN l.queue} \subseteq l.visited  BY <1>3 DEF GoodWalk, QueuedIn
    <3>3. D!FrontierOK(m3)  BY <1>1, <2>3, <2>5, <3>2, Zenon DEF D!FrontierOK
    <3>4. D!ToSet(l.found) = {}  BY <1>7, SameElements DEF Elements
    <3>5. InFrontier(m3.frontier) = QueuedIn(l.queue)  BY <2>3, <2>5 DEF InFrontier
    <3>6. Categories(m3.seen) \subseteq dPublished \cup dMissed \cup D!ToSet(m3.cats) \cup InFrontier(m3.frontier)
      BY <1>3, <2>5, <3>4, <3>5 DEF GoodWalk
    <3> QED  BY <1>2, <2>3, <2>4, <2>5, <3>1, <3>3, <3>6 DEF GoodCursors, WorkedOff
  <2>9. GoodRun(p3, m3, l3, dPool, dHarvested, dPublished, dMissed, dQuota, dClobbered)
    BY <1>2, <2>1, <2>2, <2>7, WalkLeft
  <2> QED  BY <1>0, <1>1, <2>6, <2>8, <2>9, QuietMove DEF Quiet
<1> QED  BY <1>6, <1>7

\* The walk is over: the usual addresses that were tried are categories too.
LEMMA TriedOnce ==
    ASSUME NEW S, IsFiniteSet(S)
    PROVE  D!SetToSeq(S) \in Seq(S)
<1> DEFINE n == Cardinality(S)
<1>1. n \in Nat /\ ExistsBijection(1..n, S)  BY FS_CardinalityType
<1>2. D!Cardinality(S) = n  BY RunCounts
<1> HIDE DEF n
<1>3. PICK s1 \in Bijection(1..n, S) : TRUE  BY <1>1 DEF ExistsBijection
<1>4. s1 \in [1..n -> S] /\ \A k, j \in 1..n : s1[k] = s1[j] => k = j
  BY <1>3, Zenon DEF Bijection, Injection, IsInjective
<1>5. D!IsInjective(s1)  BY <1>4 DEF D!IsInjective
<1>6. \E s2 \in [1..n -> S] : D!IsInjective(s2)  BY <1>4, <1>5
<1>7. D!SetToSeq(S) \in [1..n -> S]  BY <1>2, <1>6, Zenon DEF D!SetToSeq
<1> QED  BY <1>1, <1>7

LEMMA WalkOverStep == ASSUME RunInv, NEW r1 \in Run, D!BfsEnd(r1) PROVE RunInv'
<1> DEFINE m == dMem[r1]
           l == dLoc[r1]
           l2 == [l EXCEPT !.visited = {}]
<1>0. RunShapes /\ GoodBefore(r1) /\ m \in D!Cursors /\ l \in RunLocals /\ dPool \subseteq Goods /\ IsFiniteSet(dPool)
  BY RunBefore
<1>1. /\ dPc[r1] = "bfs" /\ l.queue = <<>> /\ Quiet /\ UNCHANGED <<dPool, dHarvested, dMissed>>
      /\ \E tried \in SUBSET (Usual \ l.visited) :
            Moves(r1, "plan", D!Published(m, [l EXCEPT !.found = l.found \o D!SetToSeq(tried)], <<>>), l2)
  BY ZenonT(30) DEF D!BfsEnd, D!Goto, D!shared, Quiet, Moves
<1> HIDE DEF m, l, l2
<1>2. PICK tried \in SUBSET Usual :
        Moves(r1, "plan", D!Published(m, [l EXCEPT !.found = l.found \o D!SetToSeq(tried)], <<>>), l2)
  BY <1>1
<1>3. /\ GoodCursors(m, dPool, dHarvested, dPublished, dMissed, dQuota, dClobbered)
      /\ GoodRun("bfs", m, l, dPool, dHarvested, dPublished, dMissed, dQuota, dClobbered)
  BY <1>0, <1>1 DEF GoodBefore, m, l
<1>4. GoodWalk(l, dPublished, dMissed)  BY <1>3 DEF GoodRun
<1>5. l.found \in Seq(Page)  BY <1>0, LocalFields
<1> DEFINE longer == l.found \o D!SetToSeq(tried)
           l1 == [l EXCEPT !.found = longer]
<1>6. longer \in Seq(Page) /\ D!ToSet(l.found) \subseteq D!ToSet(longer)
  <2>1. tried \subseteq Page /\ IsFiniteSet(tried)
    <3>1. tried \subseteq Page  BY ShopFacts
    <3> QED  BY <3>1, ShopFacts, FS_Subset
  <2>2. D!SetToSeq(tried) \in Seq(tried)  BY <2>1, TriedOnce
  <2>3. D!SetToSeq(tried) \in Seq(Page)  BY <2>1, <2>2
  <2>4. longer \in Seq(Page) /\ W!ToSet(longer) = W!ToSet(l.found) \cup W!ToSet(D!SetToSeq(tried))
    BY <1>5, <2>3, Joined
  <2> HIDE DEF longer
  <2> QED  BY <2>4, SameElements
<1> HIDE DEF longer
<1>7. l1 \in RunLocals  BY <1>0, <1>6, ZenonT(20) DEF RunLocals
<1>8. l1.found = longer /\ l1.queue = l.queue /\ l1.visited = l.visited  BY <1>0 DEF RunLocals
<1>9. l2 \in RunLocals
  <2>1. {} \subseteq Page  OBVIOUS
  <2> QED  BY <1>0, <2>1, ZenonT(20) DEF RunLocals, l2
<1>10. l2.via = l.via /\ l2.status = l.status  BY <1>0 DEF RunLocals, l2
<1> DEFINE m2 == D!Published(m, l1, l1.queue)
<1>11. Moves(r1, "plan", m2, l2)  BY <1>1, <1>2, <1>8 DEF longer
<1> HIDE DEF l1, m2
<1>12. GoodWalk(l1, dPublished, dMissed)  BY <1>4, <1>6, <1>8 DEF GoodWalk
<1>13. GoodCursors(m2, dPool, dHarvested, dPublished, dMissed, dQuota, dClobbered)
  BY <1>3, <1>7, <1>12, PublishedCursors DEF m2
<1>14. GoodRun("plan", m2, l2, dPool, dHarvested, dPublished, dMissed, dQuota, dClobbered)
  BY <1>3, <1>9, <1>10, WalkLeft
<1>15. Quiet /\ UNCHANGED <<dPool, dHarvested, dMissed>>  BY <1>1
<1>16. RunInv /\ dPool \subseteq Goods /\ IsFiniteSet(dPool)  BY <1>0
<1> QED  BY <1>11, <1>13, <1>14, <1>15, <1>16, QuietMove DEF Quiet

-----------------------------------------------------------------------------
\* A page that is taken off the queue without being read.
LEMMA PageSkipped ==
    ASSUME NEW l \in RunLocals, l.queue # <<>>, NEW listed, NEW failed, GoodWalk(l, listed, failed)
    PROVE  LET l1 == D!Consumed(l)
           IN  /\ l1 \in RunLocals /\ l1.via = l.via /\ l1.status = l.status /\ l1.found = l.found
               /\ l1.visited = l.visited /\ l1.queue = Tail(l.queue)
               /\ GoodWalk(l1, listed, failed \cup {Head(l.queue)[1]})
<1> DEFINE l1 == [l EXCEPT !.queue = Tail(l.queue)]
<1>1. l.queue \in Queues  BY LocalFields
<1>2. Tail(l.queue) \in Queues /\ QueuedIn(l.queue) = {Head(l.queue)[1]} \cup QueuedIn(Tail(l.queue))
  BY <1>1, QueueTail
<1>3. l1 \in RunLocals  BY <1>2, ZenonT(20) DEF RunLocals
<1>4. /\ l1.via = l.via /\ l1.status = l.status /\ l1.found = l.found
      /\ l1.visited = l.visited /\ l1.queue = Tail(l.queue)
  BY DEF RunLocals
<1> HIDE DEF l1
<1>5. GoodWalk(l1, listed, failed \cup {Head(l.queue)[1]})  BY <1>2, <1>4 DEF GoodWalk
<1> QED  BY <1>3, <1>4, <1>5 DEF D!Consumed, l1

\* The pages a hub links to are queued.
LEMMA LinksQueued ==
    ASSUME NEW l \in RunLocals, l.queue # <<>>, NEW page \in Page, NEW depth \in 0..MaxDepth
    PROVE  LET l1 == D!Enqueue(l, page, depth)
           IN  /\ l1 \in RunLocals /\ l1.via = l.via /\ l1.status = l.status /\ l1.found = l.found
               /\ \E more \in SUBSET Page :
                     /\ l1.visited = l.visited \cup more
                     /\ QueuedIn(l1.queue) = QueuedIn(Tail(l.queue)) \cup more
<1> DEFINE fresh == D!Filter(Links[page], Page \ l.visited)
           queue == Tail(l.queue) \o [k \in DOMAIN fresh |-> <<fresh[k], depth + 1>>]
           seen == l.visited \cup D!ToSet(fresh)
           l1 == [l EXCEPT !.visited = seen, !.queue = queue]
<1>1. l.queue \in Queues /\ l.visited \subseteq Page  BY LocalFields
<1>2. Tail(l.queue) \in Queues  BY <1>1, QueueTail
<1>3. Links[page] \in Seq(Page)  BY ShopFacts
<1>4. fresh \in Seq(Page)  BY <1>3, RunFilter
<1> HIDE DEF fresh
<1>5. D!ToSet(fresh) \subseteq Page  BY <1>4 DEF D!ToSet
<1>6. depth + 1 \in 0..MaxDepth + 1  BY ShopFacts
<1>7. queue \in Queues /\ QueuedIn(queue) = QueuedIn(Tail(l.queue)) \cup D!ToSet(fresh)
  BY <1>2, <1>4, <1>6, QueueGrows
<1>8. seen \subseteq Page  BY <1>1, <1>5
<1> HIDE DEF queue, seen
<1>9. l1 \in RunLocals  BY <1>7, <1>8, ZenonT(20) DEF RunLocals
<1>10. /\ l1.via = l.via /\ l1.status = l.status /\ l1.found = l.found
       /\ l1.visited = seen /\ l1.queue = queue
  BY DEF RunLocals
<1>11. l1 = D!Enqueue(l, page, depth)  BY Zenon DEF D!Enqueue, l1, seen, queue, fresh
<1> HIDE DEF l1
<1> QED  BY <1>5, <1>7, <1>9, <1>10, <1>11 DEF seen

\* A page that is read: a listing is found, a hub's links are queued.
LEMMA PageVisited ==
    ASSUME NEW l \in RunLocals, l.queue # <<>>, NEW listed, NEW failed, GoodWalk(l, listed, failed),
           ~(Head(l.queue)[2] > MaxDepth)
    PROVE  LET l1 == D!Visited(l)
           IN  /\ l1 \in RunLocals /\ l1.via = l.via /\ l1.status = l.status
               /\ GoodWalk(l1, listed, failed)
<1> DEFINE page == Head(l.queue)[1]
           depth == Head(l.queue)[2]
           next == IF page \notin Listings \/ depth < MaxDepth THEN D!Enqueue(l, page, depth) ELSE D!Consumed(l)
           l1 == IF page \in Listings \ {Home} THEN [next EXCEPT !.found = Append(next.found, page)] ELSE next
<1>1. l.queue \in Queues  BY LocalFields
<1>2. /\ page \in Page /\ depth \in 0..MaxDepth + 1
      /\ QueuedIn(l.queue) = {page} \cup QueuedIn(Tail(l.queue))
  BY <1>1, QueueTail
<1>3. depth \in 0..MaxDepth  BY <1>2, ShopFacts
<1>4. l1 = D!Visited(l)  BY Zenon DEF D!Visited
<1> HIDE DEF page, depth
<1>5. /\ next \in RunLocals /\ next.via = l.via /\ next.status = l.status /\ next.found = l.found
      /\ \E more \in SUBSET Page : /\ next.visited = l.visited \cup more
                                   /\ QueuedIn(next.queue) = QueuedIn(Tail(l.queue)) \cup more
  <2>1. CASE next = D!Enqueue(l, page, depth)
    <3> DEFINE l2 == D!Enqueue(l, page, depth)
    <3>1. /\ l2 \in RunLocals /\ l2.via = l.via /\ l2.status = l.status /\ l2.found = l.found
          /\ \E more \in SUBSET Page : /\ l2.visited = l.visited \cup more
                                       /\ QueuedIn(l2.queue) = QueuedIn(Tail(l.queue)) \cup more
      BY <1>2, <1>3, LinksQueued
    <3> HIDE DEF next
    <3> QED  BY <2>1, <3>1
  <2>2. CASE next = D!Consumed(l)
    <3> HIDE DEF next
    <3>1. /\ next \in RunLocals /\ next.via = l.via /\ next.status = l.status /\ next.found = l.found
          /\ next.visited = l.visited /\ next.queue = Tail(l.queue)
      BY <2>2, PageSkipped
    <3>2. next.visited = l.visited \cup {} /\ QueuedIn(next.queue) = QueuedIn(Tail(l.queue)) \cup {}
      BY <3>1
    <3> QED  BY <3>1, <3>2
  <2> QED  BY <2>1, <2>2
<1> HIDE DEF next
<1>6. PICK more \in SUBSET Page : /\ next.visited = l.visited \cup more
                                  /\ QueuedIn(next.queue) = QueuedIn(Tail(l.queue)) \cup more
  BY <1>5
<1>7. /\ QueuedIn(next.queue) \subseteq next.visited
      /\ Categories(next.visited) \subseteq listed \cup failed \cup D!ToSet(next.found)
                                            \cup QueuedIn(next.queue) \cup Categories({page})
  BY <1>2, <1>5, <1>6 DEF GoodWalk, Categories
<1>8. CASE page \in Listings \ {Home}
  <2> DEFINE longer == Append(next.found, page)
             l3 == [next EXCEPT !.found = longer]
  <2>1. next.found \in Seq(Page)  BY <1>5, LocalFields
  <2>2. longer \in Seq(Page) /\ D!ToSet(longer) = D!ToSet(next.found) \cup {page}
    <3>1. longer \in Seq(Page) /\ W!ToSet(longer) = W!ToSet(next.found) \cup {page}
      BY <1>2, <2>1, PutLast
    <3> HIDE DEF longer
    <3> QED  BY <3>1, SameElements
  <2> HIDE DEF longer
  <2>3. l3 \in RunLocals  BY <1>5, <2>2, ZenonT(20) DEF RunLocals
  <2>4. /\ l3.via = next.via /\ l3.status = next.status /\ l3.found = longer
        /\ l3.visited = next.visited /\ l3.queue = next.queue
    BY <1>5 DEF RunLocals
  <2>5. l1 = l3  BY <1>8 DEF longer
  <2> HIDE DEF l1, l3
  <2>6. GoodWalk(l3, listed, failed)  BY <1>7, <2>2, <2>4 DEF GoodWalk, Categories
  <2> QED  BY <1>4, <1>5, <2>3, <2>4, <2>5, <2>6
<1>9. CASE page \notin Listings \ {Home}
  <2>1. l1 = next /\ Categories({page}) = {}  BY <1>9 DEF Categories
  <2>2. GoodWalk(next, listed, failed)  BY <1>7, <2>1 DEF GoodWalk
  <2> HIDE DEF l1
  <2> QED  BY <1>4, <1>5, <2>1, <2>2
<1> QED  BY <1>8, <1>9

\* One page of the walk.
LEMMA PageStep == ASSUME RunInv, NEW r1 \in Run, D!BfsStep(r1) PROVE RunInv'
<1> DEFINE m == dMem[r1]
           l == dLoc[r1]
           deep == Head(l.queue)[2] > MaxDepth
           After(fetched) == IF fetched THEN D!Visited(l) ELSE D!Consumed(l)
           left(l1) == [l1 EXCEPT !.queue = <<>>, !.visited = {}]
<1>0. RunShapes /\ GoodBefore(r1) /\ m \in D!Cursors /\ l \in RunLocals /\ dPool \subseteq Goods /\ IsFiniteSet(dPool)
  BY RunBefore
<1>1. /\ dPc[r1] = "bfs" /\ l.queue # <<>> /\ Quiet /\ UNCHANGED <<dPool, dHarvested>>
      /\ \E fetched \in BOOLEAN :
            /\ fetched => ~deep
            /\ dMissed' = IF fetched THEN dMissed ELSE dMissed \cup {Head(l.queue)[1]}
            /\ \/ Moves(r1, "plan", D!Published(m, After(fetched), After(fetched).queue), left(After(fetched)))
               \/ dLoc' = [dLoc EXCEPT ![r1] = After(fetched)] /\ UNCHANGED <<dMem, dPc>>
  BY ZenonT(30) DEF D!BfsStep, D!Goto, D!shared, Quiet, Moves
<1>2. (UNCHANGED <<dMem, dPc>>) => dPc' = [dPc EXCEPT ![r1] = "bfs"] /\ dMem' = [dMem EXCEPT ![r1] = m]
  BY <1>0, <1>1 DEF RunShapes
<1> HIDE DEF m, l
<1>3. PICK fetched \in BOOLEAN :
            /\ fetched => ~deep
            /\ dMissed' = IF fetched THEN dMissed ELSE dMissed \cup {Head(l.queue)[1]}
            /\ \/ Moves(r1, "plan", D!Published(m, After(fetched), After(fetched).queue), left(After(fetched)))
               \/ dLoc' = [dLoc EXCEPT ![r1] = After(fetched)] /\ UNCHANGED <<dMem, dPc>>
  BY <1>1
<1>4. /\ GoodCursors(m, dPool, dHarvested, dPublished, dMissed, dQuota, dClobbered)
      /\ GoodRun("bfs", m, l, dPool, dHarvested, dPublished, dMissed, dQuota, dClobbered)
  BY <1>0, <1>1 DEF GoodBefore, m, l
<1>5. GoodWalk(l, dPublished, dMissed) /\ l.status = "none" /\ l.via # "sitemap" /\ D!ToSet(m.cats) \subseteq dPublished
  BY <1>4 DEF GoodRun
<1> DEFINE l1 == After(fetched)
<1>6. l1 \in RunLocals /\ l1.via = l.via /\ l1.status = l.status /\ GoodWalk(l1, dPublished, dMissed')
  <2>1. CASE fetched
    <3> DEFINE l3 == D!Visited(l)
    <3>1. l3 \in RunLocals /\ l3.via = l.via /\ l3.status = l.status /\ GoodWalk(l3, dPublished, dMissed)
      BY <1>0, <1>1, <1>3, <1>5, <2>1, PageVisited
    <3>2. l1 = l3 /\ dMissed' = dMissed  BY <1>3, <2>1
    <3> HIDE DEF l1, l3
    <3> QED  BY <3>1, <3>2
  <2>2. CASE ~fetched
    <3> DEFINE l3 == D!Consumed(l)
    <3>1. /\ l3 \in RunLocals /\ l3.via = l.via /\ l3.status = l.status
          /\ GoodWalk(l3, dPublished, dMissed \cup {Head(l.queue)[1]})
      BY <1>0, <1>1, <1>5, PageSkipped
    <3>2. l1 = l3 /\ dMissed' = dMissed \cup {Head(l.queue)[1]}  BY <1>3, <2>2
    <3> HIDE DEF l1, l3
    <3> QED  BY <3>1, <3>2
  <2> QED  BY <2>1, <2>2
<1>7. \/ Moves(r1, "plan", D!Published(m, l1, l1.queue), left(l1))
      \/ Moves(r1, "bfs", m, l1)
  BY <1>2, <1>3 DEF Moves
<1>8. dMissed \subseteq dMissed'  BY <1>3
<1> HIDE DEF l1, After, deep
<1>9. GoodCursors(m, dPool, dHarvested, dPublished, dMissed', dQuota, dClobbered)
  BY <1>4, <1>8, CursorsGrow
<1>10. Quiet /\ UNCHANGED <<dPool, dHarvested>> /\ RunInv /\ dPool \subseteq Goods /\ IsFiniteSet(dPool)
  BY <1>0, <1>1
<1>11. ASSUME Moves(r1, "bfs", m, l1) PROVE RunInv'
  <2>1. GoodRun("bfs", m, l1, dPool, dHarvested, dPublished, dMissed', dQuota, dClobbered)
    BY <1>5, <1>6 DEF GoodRun, RunPlaces
  <2> QED  BY <1>8, <1>9, <1>10, <1>11, <2>1, QuietMove DEF Quiet
<1>12. ASSUME Moves(r1, "plan", D!Published(m, l1, l1.queue), left(l1)) PROVE RunInv'
  <2> DEFINE m2 == D!Published(m, l1, l1.queue)
             l2 == left(l1)
  <2>1. GoodCursors(m2, dPool, dHarvested, dPublished, dMissed', dQuota, dClobbered)
    BY <1>6, <1>9, PublishedCursors
  <2>2. <<>> \in Queues /\ {} \subseteq Page  BY DEF Queues
  <2>3. l2 \in RunLocals  BY <1>6, <2>2, ZenonT(20) DEF RunLocals
  <2>4. l2.via = l1.via /\ l2.status = l1.status  BY <1>6 DEF RunLocals
  <2>5. Moves(r1, "plan", m2, l2)  BY <1>12
  <2> HIDE DEF m2, l2
  <2>6. GoodRun("plan", m2, l2, dPool, dHarvested, dPublished, dMissed', dQuota, dClobbered)
    BY <1>5, <1>6, <2>3, <2>4 DEF GoodRun, RunPlaces
  <2> QED  BY <1>8, <1>10, <2>1, <2>5, <2>6, QuietMove DEF Quiet
<1> QED  BY <1>7, <1>11, <1>12

-----------------------------------------------------------------------------
\* run_product_harvest begins: the work list and the window of this run.
LEMMA PlanStep == ASSUME RunInv, NEW r1 \in Run, D!Plan(r1) PROVE RunInv'
<1> DEFINE m == dMem[r1]
           l == dLoc[r1]
           urls == D!HarvestUrls(m)
           total == IF l.remaining < Len(urls) THEN l.remaining ELSE Len(urls)
           from == m.index
           end == IF from + Window < total THEN from + Window ELSE IF total < from THEN from ELSE total
           l2 == [l EXCEPT !.todo = SubSeq(urls, 1, total), !.at = from, !.end = end,
                           !.candidates = Len(urls), !.found = <<>>]
<1>0. RunShapes /\ GoodBefore(r1) /\ m \in D!Cursors /\ l \in RunLocals /\ dPool \subseteq Goods /\ IsFiniteSet(dPool)
      /\ dClobbered \in BOOLEAN
  BY RunBefore
<1>1. /\ dPc[r1] = "plan" /\ Quiet /\ UNCHANGED <<dPool, dHarvested, dMissed, dMem>>
      /\ dPc' = [dPc EXCEPT ![r1] = "harvest"] /\ dLoc' = [dLoc EXCEPT ![r1] = l2]
  BY ZenonT(30) DEF D!Plan, D!Goto, D!shared, Quiet
<1>2. dMem' = [dMem EXCEPT ![r1] = m]  BY <1>0, <1>1 DEF RunShapes
<1>3. Moves(r1, "harvest", m, l2)  BY <1>1, <1>2 DEF Moves
<1>4. m.index \in Nat /\ m.cats \in Seq(Page) /\ l.remaining \in Nat
  BY <1>0, LocalFields, CursorFields
<1> HIDE DEF m, l
<1>5. urls \in Seq(Page) /\ Len(urls) = Len(m.cats) + 1 /\ Len(m.cats) \in Nat
  BY <1>4, ShopFacts DEF D!HarvestUrls
<1> HIDE DEF urls
<1>6. total \in 0..Len(urls)  BY <1>4, <1>5
<1> DEFINE todo == SubSeq(urls, 1, total)
<1>7. todo \in Seq(Page) /\ Len(todo) = total /\ \A k \in 1..total : todo[k] = urls[k]
  BY <1>5, <1>6, HeadOfList
<1>8. from \in Nat /\ end \in Nat /\ (from < end => end <= total)
  BY <1>4, <1>6, ShopFacts
<1> HIDE DEF todo, end, from, total
<1>9. todo \in Seq(D!ToSet(Sitemap) \cup Page) /\ Len(urls) \in Nat /\ <<>> \in Seq(Page)
  BY <1>5, <1>7
<1>10. l2 = [l EXCEPT !.todo = todo, !.at = from, !.end = end, !.candidates = Len(urls), !.found = <<>>]
  BY DEF todo
<1> HIDE DEF l2
<1>11. l2 \in RunLocals  BY <1>0, <1>8, <1>9, <1>10, ZenonT(30) DEF RunLocals
<1>12. /\ l2.via = l.via /\ l2.status = l.status /\ l2.todo = todo /\ l2.at = from /\ l2.end = end
  BY <1>0, <1>10 DEF RunLocals
<1>13. /\ GoodCursors(m, dPool, dHarvested, dPublished, dMissed, dQuota, dClobbered)
       /\ GoodRun("plan", m, l, dPool, dHarvested, dPublished, dMissed, dQuota, dClobbered)
  BY <1>0, <1>1 DEF GoodBefore, m, l
<1>14. ~dClobbered => WorkedOff(m, from, dHarvested)  BY <1>13 DEF GoodCursors, from
<1>15. GoodHarvest(m, l2, dHarvested, dClobbered)
  BY <1>5, <1>6, <1>7, <1>8, <1>12, <1>14 DEF GoodHarvest, urls
<1>16. GoodRun("harvest", m, l2, dPool, dHarvested, dPublished, dMissed, dQuota, dClobbered)
  BY <1>11, <1>12, <1>13, <1>15 DEF GoodRun, RunPlaces
<1> QED  BY <1>0, <1>1, <1>3, <1>13, <1>16, QuietMove DEF Quiet

\* What the harvest of a run has at hand: its place in the list and the category there.
LEMMA AtCategory ==
    ASSUME RunInv, NEW r1 \in Run, dPc[r1] = "harvest", dLoc[r1].at < dLoc[r1].end
    PROVE  /\ dLoc[r1].at <= Len(dMem[r1].cats) /\ dLoc[r1].at + 1 <= dLoc[r1].end
           /\ dLoc[r1].todo[dLoc[r1].at + 1] \in Page
           /\ dLoc[r1].todo[dLoc[r1].at + 1] = D!HarvestUrls(dMem[r1])[dLoc[r1].at + 1]
<1> DEFINE m == dMem[r1]
           l == dLoc[r1]
           urls == D!HarvestUrls(m)
<1>0. GoodBefore(r1) /\ m \in D!Cursors /\ l \in RunLocals  BY RunBefore
<1>1. GoodHarvest(m, l, dHarvested, dClobbered)
  <2>1. GoodRun("harvest", m, l, dPool, dHarvested, dPublished, dMissed, dQuota, dClobbered)
    BY <1>0 DEF GoodBefore
  <2> HIDE DEF m, l
  <2> QED  BY <2>1 DEF GoodRun
<1>2. l.at \in Nat /\ l.end \in Nat /\ l.todo \in Seq(D!ToSet(Sitemap) \cup Page) /\ m.cats \in Seq(Page)
  BY <1>0, LocalFields, CursorFields
<1>3. l.at < l.end  OBVIOUS
<1> HIDE DEF m, l
<1>4. Len(l.todo) \in Nat /\ Len(m.cats) \in Nat  BY <1>2
<1>5. urls \in Seq(Page) /\ Len(urls) = Len(m.cats) + 1  BY <1>2, ShopFacts DEF D!HarvestUrls
<1>6. l.at + 1 <= l.end /\ l.end <= Len(l.todo) /\ Len(l.todo) <= Len(m.cats) + 1
  BY <1>1, <1>2, <1>3 DEF GoodHarvest
<1>7. l.todo[l.at + 1] = urls[l.at + 1]
  <2>1. l.at + 1 \in 1..Len(l.todo)  BY <1>2, <1>4, <1>6
  <2> QED  BY <1>1, <2>1 DEF GoodHarvest
<1> HIDE DEF urls
<1>8. urls[l.at + 1] \in Page
  <2>1. l.at + 1 \in 1..Len(urls)  BY <1>2, <1>4, <1>5, <1>6
  <2> QED  BY <1>5, <2>1
<1> QED  BY <1>2, <1>4, <1>6, <1>7, <1>8 DEF m, l, urls

\* The harvest stops: all before the new index has been worked off.
LEMMA StopKeeps ==
    ASSUME RunInv, NEW r1 \in Run, dPc[r1] = "harvest", NEW next \in Nat, NEW more \in BOOLEAN,
           D!Stop(r1, next, more), Quiet, UNCHANGED <<dHarvested, dMissed>>,
           dPool \subseteq dPool', dPool' \subseteq Goods, IsFiniteSet(dPool'),
           ~dClobbered => next <= Len(dMem[r1].cats) /\ WorkedOff(dMem[r1], next, dHarvested)
    PROVE  RunInv'
<1> DEFINE m == dMem[r1]
           l == dLoc[r1]
           m2 == [m EXCEPT !.index = next]
           l2 == [l EXCEPT !.partial = more, !.at = 0, !.end = 0]
<1>0. RunShapes /\ GoodBefore(r1) /\ m \in D!Cursors /\ l \in RunLocals  BY RunBefore
<1>1. Moves(r1, "finish", m2, l2)  BY ZenonT(20) DEF D!Stop, D!Goto, Moves
<1>2. ~dClobbered => next <= Len(m.cats) /\ WorkedOff(m, next, dHarvested)  OBVIOUS
<1>3. /\ GoodCursors(m, dPool, dHarvested, dPublished, dMissed, dQuota, dClobbered)
      /\ GoodRun("harvest", m, l, dPool, dHarvested, dPublished, dMissed, dQuota, dClobbered)
  BY <1>0 DEF GoodBefore
<1> HIDE DEF m, l
<1>4. m2 \in D!Cursors  BY <1>0, ZenonT(20) DEF D!Cursors
<1>5. /\ m2.cats = m.cats /\ m2.index = next /\ m2.pub = m.pub /\ m2.frontier = m.frontier
      /\ m2.seen = m.seen /\ m2.offset = m.offset
  BY <1>0 DEF D!Cursors
<1>6. l2 \in RunLocals  BY <1>0, ZenonT(20) DEF RunLocals
<1>7. l2.via = l.via /\ l2.status = l.status  BY <1>0 DEF RunLocals
<1> HIDE DEF m2, l2
<1>8. GoodCursors(m, dPool', dHarvested', dPublished, dMissed', dQuota, dClobbered)
  BY <1>3, CursorsGrow
<1>9. GoodCursors(m2, dPool', dHarvested', dPublished, dMissed', dQuota, dClobbered)
  <2>1. D!HarvestUrls(m2) = D!HarvestUrls(m)  BY <1>5 DEF D!HarvestUrls
  <2>2. dHarvested' = dHarvested  OBVIOUS
  <2> QED  BY <1>2, <1>4, <1>5, <1>8, <2>1, <2>2 DEF GoodCursors, WorkedOff, D!FrontierOK
<1>10. GoodRun("finish", m2, l2, dPool', dHarvested', dPublished, dMissed', dQuota, dClobbered)
  BY <1>3, <1>6, <1>7 DEF GoodRun, RunPlaces
<1>11. dHarvested \subseteq dHarvested' /\ dMissed \subseteq dMissed'  OBVIOUS
<1> QED  BY <1>1, <1>9, <1>10, <1>11, QuietMove

LEMMA StoppedHere ==
    ASSUME RunInv, NEW r1 \in Run, dPc[r1] = "harvest", dLoc[r1].at < dLoc[r1].end
    PROVE  /\ dLoc[r1].at \in Nat
           /\ ~dClobbered => /\ dLoc[r1].at <= Len(dMem[r1].cats)
                             /\ WorkedOff(dMem[r1], dLoc[r1].at, dHarvested)
<1>0. GoodBefore(r1) /\ dLoc[r1] \in RunLocals  BY RunBefore
<1>1. GoodRun("harvest", dMem[r1], dLoc[r1], dPool, dHarvested, dPublished, dMissed, dQuota, dClobbered)
  BY <1>0 DEF GoodBefore
<1>2. GoodHarvest(dMem[r1], dLoc[r1], dHarvested, dClobbered)  BY <1>1 DEF GoodRun
<1> QED  BY <1>0, <1>2, AtCategory, LocalFields DEF GoodHarvest

\* The deadline between two categories, or inside one.
LEMMA HarvestLateStep == ASSUME RunInv, NEW r1 \in Run, D!HarvestLate(r1) PROVE RunInv'
<1>1. /\ dPc[r1] = "harvest" /\ dLoc[r1].at < dLoc[r1].end /\ D!Stop(r1, dLoc[r1].at, TRUE)
      /\ Quiet /\ UNCHANGED <<dPool, dHarvested, dMissed>>
  BY Zenon DEF D!HarvestLate, D!shared, Quiet
<1>2. dPool \subseteq Goods /\ IsFiniteSet(dPool)  BY RunBefore
<1>3. /\ dLoc[r1].at \in Nat /\ TRUE \in BOOLEAN
      /\ ~dClobbered => dLoc[r1].at <= Len(dMem[r1].cats) /\ WorkedOff(dMem[r1], dLoc[r1].at, dHarvested)
  BY <1>1, StoppedHere
<1>4. dPool \subseteq dPool' /\ dPool' \subseteq Goods /\ IsFiniteSet(dPool')  BY <1>1, <1>2
<1> QED  BY <1>1, <1>3, <1>4, StopKeeps

LEMMA HarvestCutStep == ASSUME RunInv, NEW r1 \in Run, D!HarvestCut(r1) PROVE RunInv'
<1> DEFINE page == dLoc[r1].todo[dLoc[r1].at + 1]
<1>1. /\ dPc[r1] = "harvest" /\ dLoc[r1].at < dLoc[r1].end /\ D!Stop(r1, dLoc[r1].at, TRUE)
      /\ Quiet /\ UNCHANGED <<dHarvested, dMissed>>
      /\ \E some \in SUBSET Products[page] : dPool' = dPool \cup some
  BY Zenon DEF D!HarvestCut, D!shared, Quiet
<1>2. dPool \subseteq Goods /\ IsFiniteSet(dPool)  BY RunBefore
<1>3. /\ dLoc[r1].at \in Nat /\ TRUE \in BOOLEAN
      /\ ~dClobbered => dLoc[r1].at <= Len(dMem[r1].cats) /\ WorkedOff(dMem[r1], dLoc[r1].at, dHarvested)
  BY <1>1, StoppedHere
<1>4. page \in Page  BY <1>1, AtCategory
<1> HIDE DEF page
<1>5. PICK some \in SUBSET Products[page] : dPool' = dPool \cup some  BY <1>1
<1>6. some \subseteq Goods /\ IsFiniteSet(some)
  <2>1. Products[page] \subseteq Goods /\ IsFiniteSet(Products[page])  BY <1>4, ShopFacts DEF Goods
  <2> QED  BY <2>1, FS_Subset
<1>7. dPool \subseteq dPool' /\ dPool' \subseteq Goods /\ IsFiniteSet(dPool')
  BY <1>2, <1>5, <1>6, FS_Union
<1> QED  BY <1>1, <1>3, <1>7, StopKeeps

LEMMA HarvestEndStep == ASSUME RunInv, NEW r1 \in Run, D!HarvestEnd(r1) PROVE RunInv'
<1> DEFINE m == dMem[r1]
           l == dLoc[r1]
           more == l.end < Len(l.todo)
           next == IF more THEN l.end ELSE 0
<1>0. RunShapes /\ GoodBefore(r1) /\ m \in D!Cursors /\ l \in RunLocals /\ dPool \subseteq Goods /\ IsFiniteSet(dPool)
  BY RunBefore
<1>1. /\ dPc[r1] = "harvest" /\ l.at >= l.end /\ D!Stop(r1, next, more)
      /\ Quiet /\ UNCHANGED <<dPool, dHarvested, dMissed>>
  BY Zenon DEF D!HarvestEnd, D!shared, Quiet
<1>2. GoodHarvest(m, l, dHarvested, dClobbered)
  <2>1. GoodRun("harvest", m, l, dPool, dHarvested, dPublished, dMissed, dQuota, dClobbered)
    BY <1>0, <1>1 DEF GoodBefore
  <2> HIDE DEF m, l
  <2> QED  BY <2>1 DEF GoodRun
<1>3. l.at \in Nat /\ l.end \in Nat /\ l.todo \in Seq(D!ToSet(Sitemap) \cup Page) /\ m.cats \in Seq(Page)
  BY <1>0, LocalFields, CursorFields
<1> HIDE DEF m, l
<1>4. Len(l.todo) \in Nat /\ Len(m.cats) \in Nat  BY <1>3
<1>5. next \in Nat /\ more \in BOOLEAN  BY <1>3, <1>4
<1>6. next <= l.at /\ next <= Len(m.cats)
  <2>1. Len(l.todo) <= Len(m.cats) + 1  BY <1>2 DEF GoodHarvest
  <2> QED  BY <1>1, <1>3, <1>4, <2>1
<1>7. ~dClobbered => next <= Len(m.cats) /\ WorkedOff(m, next, dHarvested)
  <2>1. ~dClobbered => WorkedOff(m, l.at, dHarvested)  BY <1>2 DEF GoodHarvest
  <2> QED  BY <1>3, <1>5, <1>6, <2>1 DEF WorkedOff
<1> HIDE DEF next, more
<1>8. dPool \subseteq dPool' /\ dPool' \subseteq Goods /\ IsFiniteSet(dPool')  BY <1>0, <1>1
<1>9. ~dClobbered => next <= Len(dMem[r1].cats) /\ WorkedOff(dMem[r1], next, dHarvested)  BY <1>7 DEF m
<1> QED  BY <1>1, <1>5, <1>8, <1>9, StopKeeps

\* One category is worked off.
LEMMA CategoryStepDone == ASSUME RunInv, NEW r1 \in Run, D!HarvestStep(r1) PROVE RunInv'
<1> DEFINE m == dMem[r1]
           l == dLoc[r1]
           page == l.todo[l.at + 1]
           Fetched(fetched) == IF fetched /\ page \in Listings THEN Products[page] ELSE {}
           New(fetched) == Fetched(fetched) \ dPool
           Streak(fetched) == IF New(fetched) # {} THEN 0
                              ELSE IF Fetched(fetched) # {} \/ ~fetched THEN l.streak + 1 ELSE l.streak
           Saved(fetched) == l.saved + D!Cardinality(New(fetched))
           m2 == [m EXCEPT !.index = 0]
           Converged(fetched) == [l EXCEPT !.at = 0, !.end = 0, !.streak = 0, !.saved = Saved(fetched)]
           Further(fetched) == [l EXCEPT !.at = l.at + 1, !.streak = Streak(fetched), !.saved = Saved(fetched)]
<1>0. RunShapes /\ GoodBefore(r1) /\ m \in D!Cursors /\ l \in RunLocals /\ dPool \subseteq Goods /\ IsFiniteSet(dPool)
      /\ dClobbered \in BOOLEAN
  BY RunBefore
<1>1. /\ dPc[r1] = "harvest" /\ l.at < l.end /\ Quiet /\ dMissed' = dMissed
      /\ dHarvested' = dHarvested \cup {<<m.pub, page>>}
      /\ \E fetched \in BOOLEAN :
            /\ dPool' = dPool \cup Fetched(fetched)
            /\ \/ Moves(r1, "finish", m2, Converged(fetched))
               \/ dLoc' = [dLoc EXCEPT ![r1] = Further(fetched)] /\ UNCHANGED <<dMem, dPc>>
  BY ZenonT(60) DEF D!HarvestStep, D!Goto, D!shared, Quiet, Moves
<1>2. (UNCHANGED <<dMem, dPc>>) => dPc' = [dPc EXCEPT ![r1] = "harvest"] /\ dMem' = [dMem EXCEPT ![r1] = m]
  BY <1>0, <1>1 DEF RunShapes
<1>3. page \in Page /\ l.at <= Len(m.cats) /\ l.at + 1 <= l.end /\ page = D!HarvestUrls(m)[l.at + 1]
  BY <1>1, AtCategory
<1>4. l.at \in Nat /\ l.streak \in Nat /\ l.saved \in Nat /\ m.cats \in Seq(Page)  BY <1>0, LocalFields, CursorFields
<1>5. /\ GoodCursors(m, dPool, dHarvested, dPublished, dMissed, dQuota, dClobbered)
      /\ GoodRun("harvest", m, l, dPool, dHarvested, dPublished, dMissed, dQuota, dClobbered)
  BY <1>0, <1>1 DEF GoodBefore
<1> HIDE DEF m, l, page
<1>6. GoodHarvest(m, l, dHarvested, dClobbered) /\ l.status = "none" /\ l.via # "sitemap"
  BY <1>5 DEF GoodRun
<1>7. PICK fetched \in BOOLEAN :
            /\ dPool' = dPool \cup Fetched(fetched)
            /\ \/ Moves(r1, "finish", m2, Converged(fetched))
               \/ dLoc' = [dLoc EXCEPT ![r1] = Further(fetched)] /\ UNCHANGED <<dMem, dPc>>
  BY <1>1
<1>8. Fetched(fetched) \subseteq Goods /\ IsFiniteSet(Fetched(fetched))
  <2>1. Products[page] \subseteq Goods /\ IsFiniteSet(Products[page])  BY <1>3, ShopFacts DEF Goods
  <2> QED  BY <2>1, FS_EmptySet
<1>9. Saved(fetched) \in Nat
  <2>1. IsFiniteSet(New(fetched))  BY <1>8, FS_Subset
  <2>2. D!Cardinality(New(fetched)) \in Nat  BY <2>1, RunCounts, FS_CardinalityType
  <2> HIDE DEF New
  <2> QED  BY <1>4, <2>2
<1>10. Streak(fetched) \in Nat  BY <1>4
<1>11. dPool \subseteq dPool' /\ dPool' \subseteq Goods /\ IsFiniteSet(dPool')
  BY <1>0, <1>7, <1>8, FS_Union
<1>12. dHarvested \subseteq dHarvested' /\ dMissed \subseteq dMissed'  BY <1>1
<1> HIDE DEF Fetched, New, Saved, Streak
<1>13. GoodCursors(m, dPool', dHarvested', dPublished, dMissed', dQuota, dClobbered)
  BY <1>5, <1>11, <1>12, CursorsGrow
<1>14. ASSUME Moves(r1, "finish", m2, Converged(fetched)) PROVE RunInv'
  <2> DEFINE l2 == Converged(fetched)
  <2>1. m2 \in D!Cursors  BY <1>0, ZenonT(20) DEF D!Cursors
  <2>2. /\ m2.cats = m.cats /\ m2.index = 0 /\ m2.pub = m.pub /\ m2.frontier = m.frontier
        /\ m2.seen = m.seen /\ m2.offset = m.offset
    BY <1>0 DEF D!Cursors
  <2>3. l2 \in RunLocals  BY <1>0, <1>9, ZenonT(20) DEF RunLocals
  <2>4. l2.via = l.via /\ l2.status = l.status  BY <1>0 DEF RunLocals
  <2>5. Moves(r1, "finish", m2, l2)  BY <1>14
  <2> HIDE DEF m2, l2
  <2>6. GoodCursors(m2, dPool', dHarvested', dPublished, dMissed', dQuota, dClobbered)
    <3>1. Len(m.cats) \in Nat /\ WorkedOff(m2, 0, dHarvested')  BY <1>4 DEF WorkedOff
    <3> QED  BY <1>13, <2>1, <2>2, <3>1 DEF GoodCursors, D!FrontierOK
  <2>7. GoodRun("finish", m2, l2, dPool', dHarvested', dPublished, dMissed', dQuota, dClobbered)
    BY <1>6, <2>3, <2>4 DEF GoodRun, RunPlaces
  <2> QED  BY <1>1, <1>11, <1>12, <2>5, <2>6, <2>7, QuietMove
<1>15. ASSUME dLoc' = [dLoc EXCEPT ![r1] = Further(fetched)], UNCHANGED <<dMem, dPc>> PROVE RunInv'
  <2> DEFINE l2 == Further(fetched)
  <2>1. l.at + 1 \in Nat  BY <1>4
  <2>2. l2 \in RunLocals  BY <1>0, <1>9, <1>10, <2>1, ZenonT(20) DEF RunLocals
  <2>3. /\ l2.via = l.via /\ l2.status = l.status /\ l2.todo = l.todo /\ l2.end = l.end /\ l2.at = l.at + 1
    BY <1>0 DEF RunLocals
  <2>4. Moves(r1, "harvest", m, l2)  BY <1>2, <1>15 DEF Moves
  <2> HIDE DEF l2
  <2>5. ~dClobbered => WorkedOff(m, l.at + 1, dHarvested')
    <3>1. Len(m.cats) \in Nat  BY <1>4
    <3>2. ~dClobbered => WorkedOff(m, l.at, dHarvested)  BY <1>6 DEF GoodHarvest
    <3>3. \A k \in 1..l.at + 1 : k \in 1..l.at \/ k = l.at + 1  BY <1>4
    <3>4. <<m.pub, D!HarvestUrls(m)[l.at + 1]>> \in dHarvested'  BY <1>1, <1>3
    <3> QED  BY <1>3, <1>4, <1>12, <3>1, <3>2, <3>3, <3>4 DEF WorkedOff
  <2>6. GoodHarvest(m, l2, dHarvested', dClobbered)
    <3>1. l2.at < l2.end => l2.end <= Len(l2.todo)
      <4>1. l.at < l.end  BY <1>1 DEF l
      <4> QED  BY <1>6, <2>3, <4>1 DEF GoodHarvest
    <3> QED  BY <1>6, <2>3, <2>5, <3>1 DEF GoodHarvest
  <2>7. GoodRun("harvest", m, l2, dPool', dHarvested', dPublished, dMissed', dQuota, dClobbered)
    BY <1>6, <2>2, <2>3, <2>6 DEF GoodRun, RunPlaces
  <2> QED  BY <1>1, <1>11, <1>12, <1>13, <2>4, <2>7, QuietMove
<1> QED  BY <1>7, <1>14, <1>15

\* The copy of a run that is over.
LEMMA NoCopy ==
    ASSUME NEW goods, NEW done, NEW listed, NEW failed, NEW q1, NEW old
    PROVE  GoodCursors(D!Row, goods, done, listed, failed, q1, old)
<1>1. D!Row \in D!Cursors
  <2>1. /\ "stale" \in {"fresh", "stale"} /\ 0 \in 0..Len(Sitemap) /\ <<>> \in Seq(Page) /\ 0 \in 0..MaxRuns
        /\ {} \subseteq Page
    BY ShopFacts
  <2> QED  BY <2>1, SMTT(20) DEF D!Row, D!Cursors
<1>2. /\ D!Row.frontier = NoFrontier /\ D!Row.index = 0 /\ D!Row.cats = <<>> /\ D!Row.seen = {} /\ D!Row.offset = 0
  BY DEF D!Row
<1> HIDE DEF D!Row
<1>3. D!FrontierOK(D!Row)  BY <1>2 DEF D!FrontierOK
<1>4. Categories(D!Row.seen) = {}  BY <1>2 DEF Categories
<1>5. WorkedOff(D!Row, D!Row.index, done) /\ StoredTo(D!Row.offset, goods) /\ D!Row.index <= Len(D!Row.cats)
  BY <1>2 DEF WorkedOff, StoredTo
<1> QED  BY <1>1, <1>2, <1>3, <1>4, <1>5 DEF GoodCursors

LEMMA OverLocals ==
    ASSUME NEW via \in {"none", "sitemap"}, NEW status \in Outcomes
    PROVE  LET l == [D!NoLocals EXCEPT !.via = via, !.status = status]
           IN  l \in RunLocals /\ l.via = via /\ l.status = status
<1> DEFINE l == [D!NoLocals EXCEPT !.via = via, !.status = status]
<1>4. D!NoLocals \in RunLocals  BY EmptyLocals
<1>5. l \in RunLocals  BY <1>4, ZenonT(20) DEF RunLocals
<1>6. l.via = via /\ l.status = status  BY <1>4 DEF RunLocals
<1> QED  BY <1>5, <1>6

\* A run is over: its cursors are in the row, or the row is as it was.
LEMMA OverKeeps ==
    ASSUME RunInv, NEW r1 \in Run, NEW l2 \in RunLocals, Moves(r1, "idle", D!Row, l2),
           l2.via = "sitemap" /\ dQuota = 0 /\ l2.status = "completed" => D!ToSet(Sitemap) \subseteq dPool,
           UNCHANGED <<dQuota, dPool, dMerging, dRuns, dHarvested, dMissed, dClobbered>>,
           \/ dRow' = dMem[r1] /\ dPublished' = dPublished \cup D!ToSet(dMem[r1].cats)
           \/ UNCHANGED <<dRow, dPublished>>
    PROVE  RunInv'
<1>0. RunShapes /\ GoodRow /\ GoodBefore(r1)  BY RunBefore
<1>1. Grown  BY <1>0 DEF Grown, RunShapes
<1>2. OverRuns /\ OnlyRun(r1) /\ dPc'[r1] = "idle" /\ dMem'[r1] = D!Row /\ dLoc'[r1] = l2
  BY <1>0, OwnStep
<1>3. GoodRow'
  <2>1. CASE dRow' = dMem[r1] /\ dPublished' = dPublished \cup D!ToSet(dMem[r1].cats)
    <3>1. GoodCursors(dMem[r1], dPool, dHarvested, dPublished, dMissed, dQuota, dClobbered)
      BY <1>0 DEF GoodBefore
    <3>2. GoodCursors(dMem[r1], dPool', dHarvested', dPublished', dMissed', dQuota, dClobbered')
      BY <1>1, <3>1, CursorsGrow DEF Grown
    <3> QED  BY <1>1, <2>1, <3>2 DEF GoodRow, Grown
  <2>2. CASE dRow' = dRow  BY <1>0, <1>1, <2>2, RowStays
  <2> QED  BY <2>1, <2>2
<1>4. GoodRun("idle", D!Row, l2, dPool', dHarvested', dPublished', dMissed', dQuota, dClobbered')
  BY DEF GoodRun, RunPlaces
<1>5. GoodAfter(r1)  BY <1>2, <1>4, NoCopy DEF GoodAfter
<1> QED  BY <1>0, <1>1, <1>2, <1>3, <1>5, RunStepKeeps DEF RunShapes

\* discover ends: job row, then the snapshot of the cursors.
LEMMA FinishStep == ASSUME RunInv, NEW r1 \in Run, D!Finish(r1) PROVE RunInv'
<1> DEFINE l == dLoc[r1]
           l2 == [D!NoLocals EXCEPT !.via = l.via, !.status = D!Status(l)]
<1>0. GoodBefore(r1) /\ l \in RunLocals  BY RunBefore
<1>1. /\ dPc[r1] = "finish" /\ Moves(r1, "idle", D!Row, l2)
      /\ UNCHANGED <<dQuota, dPool, dMerging, dRuns, dHarvested, dMissed, dClobbered>>
      /\ \/ dRow' = dMem[r1] /\ dPublished' = dPublished \cup D!ToSet(dMem[r1].cats)
         \/ UNCHANGED <<dRow, dPublished>>
  BY ZenonT(30) DEF D!Finish, D!Goto, D!Snapshot, Moves
<1>2. GoodRun("finish", dMem[r1], l, dPool, dHarvested, dPublished, dMissed, dQuota, dClobbered)
  BY <1>0, <1>1 DEF GoodBefore
<1> HIDE DEF l
<1>3. l.via \in {"none", "sitemap"}  BY <1>0, LocalFields
<1>4. D!Status(l) \in Outcomes /\ (D!Status(l) = "completed" => ~l.partial)  BY DEF D!Status, Outcomes
<1>5. l2 \in RunLocals /\ l2.via = l.via /\ l2.status = D!Status(l)  BY <1>3, <1>4, OverLocals
<1> HIDE DEF l2
<1>6. l2.via = "sitemap" /\ dQuota = 0 /\ l2.status = "completed" => D!ToSet(Sitemap) \subseteq dPool
  BY <1>2, <1>4, <1>5 DEF GoodRun
<1> QED  BY <1>1, <1>5, <1>6, OverKeeps

\* An exception: the cursors are written as they are.
LEMMA FailStep == ASSUME RunInv, NEW r1 \in Run, D!Fail(r1) PROVE RunInv'
<1> DEFINE l2 == [D!NoLocals EXCEPT !.status = "error"]
<1>1. /\ Moves(r1, "idle", D!Row, l2)
      /\ UNCHANGED <<dQuota, dPool, dMerging, dRuns, dHarvested, dMissed, dClobbered>>
      /\ dRow' = dMem[r1] /\ dPublished' = dPublished \cup D!ToSet(dMem[r1].cats)
  BY ZenonT(30) DEF D!Fail, D!Goto, D!Snapshot, Moves
<1>2. "error" \in Outcomes /\ D!NoLocals \in RunLocals  BY EmptyLocals DEF Outcomes
<1>3. l2 \in RunLocals  BY <1>2, ZenonT(20) DEF RunLocals
<1>4. l2.status = "error"  BY <1>2 DEF RunLocals
<1> HIDE DEF l2
<1> QED  BY <1>1, <1>3, <1>4, OverKeeps

\* The worker dies: the row keeps what it has.
LEMMA CrashStep == ASSUME RunInv, NEW r1 \in Run, D!Crash(r1) PROVE RunInv'
<1>1. /\ Moves(r1, "idle", D!Row, D!NoLocals)
      /\ UNCHANGED <<dQuota, dPool, dMerging, dRuns, dHarvested, dMissed, dClobbered>>
      /\ UNCHANGED <<dRow, dPublished>>
  BY ZenonT(30) DEF D!Crash, D!Goto, D!shared, Moves
<1> QED  BY <1>1, EmptyLocals, OverKeeps

\* Time runs on.
LEMMA DeadlineStep == ASSUME RunInv, NEW r1 \in Run, D!Deadline(r1) PROVE RunInv'
<1> DEFINE m == dMem[r1]
           l == dLoc[r1]
           late == IF l.late = "no" /\ l.backlog THEN "phase1" ELSE "both"
           l2 == [l EXCEPT !.late = late]
<1>0. RunShapes /\ GoodBefore(r1) /\ m \in D!Cursors /\ l \in RunLocals /\ dPc[r1] \in RunPlaces
      /\ dPool \subseteq Goods /\ IsFiniteSet(dPool)
  BY RunBefore
<1>1. /\ dLoc' = [dLoc EXCEPT ![r1] = l2] /\ Quiet /\ UNCHANGED <<dPool, dPc, dMem, dHarvested, dMissed>>
  BY ZenonT(20) DEF D!Deadline, D!shared, Quiet
<1>2. Moves(r1, dPc[r1], m, l2)  BY <1>0, <1>1 DEF Moves, RunShapes
<1>3. late \in {"no", "phase1", "both"}  OBVIOUS
<1>4. /\ GoodCursors(m, dPool, dHarvested, dPublished, dMissed, dQuota, dClobbered)
      /\ GoodRun(dPc[r1], m, l, dPool, dHarvested, dPublished, dMissed, dQuota, dClobbered)
  BY <1>0 DEF GoodBefore
<1> HIDE DEF m, l, late
<1>5. l2 \in RunLocals  BY <1>0, <1>3, ZenonT(20) DEF RunLocals
<1>6. /\ l2.via = l.via /\ l2.status = l.status /\ l2.remaining = l.remaining /\ l2.partial = l.partial
      /\ l2.queue = l.queue /\ l2.visited = l.visited /\ l2.found = l.found
      /\ l2.todo = l.todo /\ l2.at = l.at /\ l2.end = l.end /\ l2.known = l.known
  BY <1>0 DEF RunLocals
<1> HIDE DEF l2
<1>7. GoodRun(dPc[r1], m, l2, dPool, dHarvested, dPublished, dMissed, dQuota, dClobbered)
  BY <1>4, <1>5, <1>6 DEF GoodRun, GoodWalk, GoodHarvest, GoodPass
<1> QED  BY <1>0, <1>1, <1>2, <1>4, <1>7, QuietMove DEF Quiet

\* Steps that only the row sees.
LEMMA RowMoves ==
    ASSUME RunInv, Grown, UNCHANGED <<dPc, dMem, dLoc, dRuns>>, GoodRow', dMerging' \in {NoList} \cup Seq(Page)
    PROVE  RunInv'
<1>0. RunShapes /\ GoodRuns  BY DEF RunInv
<1>1. RunShapes'  BY <1>0 DEF RunShapes, Grown
<1>2. GoodRuns'  BY <1>0, RunsStay
<1> QED  BY <1>1, <1>2 DEF RunInv

LEMMA RowBefore ==
    ASSUME RunInv
    PROVE  /\ RunShapes /\ dRow \in D!Cursors /\ D!ToSet(dRow.cats) \subseteq dPublished
           /\ GoodCursors(dRow, dPool, dHarvested, dPublished, dMissed, dQuota, dClobbered)
BY DEF RunInv, GoodRow, GoodCursors

LEMMA AgesStep == ASSUME RunInv, D!SitemapStale \/ D!ReconStale PROVE RunInv'
<1>0. RunShapes /\ dRow \in D!Cursors /\ GoodRow  BY RowBefore DEF RunInv
<1> DEFINE m1 == [dRow EXCEPT !.sitemapAge = "stale"]
           m2 == [dRow EXCEPT !.reconAge = "stale"]
<1>1. /\ dRow' = m1 \/ dRow' = m2
      /\ UNCHANGED <<dQuota, dPool, dPc, dMem, dLoc, dMerging, dRuns, dPublished, dHarvested, dMissed, dClobbered>>
  BY Zenon DEF D!SitemapStale, D!ReconStale
<1>2. m1 \in D!Cursors /\ m2 \in D!Cursors
  <2>1. m1 \in D!Cursors  BY <1>0, ZenonT(20) DEF D!Cursors
  <2>2. m2 \in D!Cursors  BY <1>0, ZenonT(20) DEF D!Cursors
  <2> QED  BY <2>1, <2>2
<1>3. /\ m1.cats = dRow.cats /\ m1.index = dRow.index /\ m1.pub = dRow.pub /\ m1.frontier = dRow.frontier
      /\ m1.seen = dRow.seen /\ m1.offset = dRow.offset
  BY <1>0 DEF D!Cursors
<1>4. /\ m2.cats = dRow.cats /\ m2.index = dRow.index /\ m2.pub = dRow.pub /\ m2.frontier = dRow.frontier
      /\ m2.seen = dRow.seen /\ m2.offset = dRow.offset
  BY <1>0 DEF D!Cursors
<1> HIDE DEF m1, m2
<1>5. PICK m3 : /\ m3 = dRow' /\ m3 \in D!Cursors
                /\ m3.cats = dRow.cats /\ m3.index = dRow.index /\ m3.pub = dRow.pub /\ m3.frontier = dRow.frontier
                /\ m3.seen = dRow.seen /\ m3.offset = dRow.offset
  BY <1>1, <1>2, <1>3, <1>4
<1>6. Grown  BY <1>0, <1>1 DEF Grown, RunShapes
<1>7. GoodCursors(m3, dPool, dHarvested, dPublished, dMissed, dQuota, dClobbered)
  BY <1>0, <1>5, SameCursors DEF GoodRow
<1>8. GoodRow'  BY <1>0, <1>1, <1>5, <1>7 DEF GoodRow
<1> QED  BY <1>0, <1>1, <1>6, <1>8, RowMoves DEF RunShapes

\* publish_category_urls of a sitemap enumeration: it loads the list, and writes it longer.
LEMMA MergeLoadStep == ASSUME RunInv, D!MergeLoad PROVE RunInv'
<1>0. RunShapes /\ GoodRow /\ dRow \in D!Cursors  BY RowBefore DEF RunInv
<1>1. /\ dMerging' = dRow.cats
      /\ UNCHANGED <<dRow, dQuota, dPool, dPc, dMem, dLoc, dRuns, dPublished, dHarvested, dMissed, dClobbered>>
  BY Zenon DEF D!MergeLoad
<1>2. Grown  BY <1>0, <1>1 DEF Grown, RunShapes
<1>3. GoodRow'  BY <1>0, <1>1, <1>2, RowStays
<1>4. dMerging' \in Seq(Page)  BY <1>0, <1>1, CursorFields
<1> QED  BY <1>1, <1>2, <1>3, <1>4, RowMoves

LEMMA MergeWriteStep == ASSUME RunInv, D!MergeWrite PROVE RunInv'
<1>0. /\ RunShapes /\ dRow \in D!Cursors /\ D!ToSet(dRow.cats) \subseteq dPublished
      /\ GoodCursors(dRow, dPool, dHarvested, dPublished, dMissed, dQuota, dClobbered)
  BY RowBefore
<1>1. /\ dMerging # NoList /\ dMerging' = NoList
      /\ UNCHANGED <<dQuota, dPool, dPc, dMem, dLoc, dRuns, dHarvested, dMissed>>
      /\ \E page \in Page :
            /\ dRow' = [dRow EXCEPT !.cats = Append(dMerging, page)]
            /\ dPublished' = dPublished \cup D!ToSet(Append(dMerging, page))
            /\ dClobbered' = (dClobbered \/ ~D!IsPrefix(dRow.cats, Append(dMerging, page)))
  BY Zenon DEF D!MergeWrite
<1>2. PICK page \in Page :
            /\ dRow' = [dRow EXCEPT !.cats = Append(dMerging, page)]
            /\ dPublished' = dPublished \cup D!ToSet(Append(dMerging, page))
            /\ dClobbered' = (dClobbered \/ ~D!IsPrefix(dRow.cats, Append(dMerging, page)))
  BY <1>1
<1> DEFINE merged == Append(dMerging, page)
           m2 == [dRow EXCEPT !.cats = merged]
           cats == dRow.cats
<1>3. merged \in Seq(Page)
  <2>1. dMerging \in Seq(Page)  BY <1>0, <1>1 DEF RunShapes
  <2> QED  BY <2>1
<1>4. dClobbered' \in BOOLEAN /\ (dClobbered => dClobbered') /\ (~dClobbered' => ~dClobbered /\ D!IsPrefix(cats, merged))
  BY <1>0, <1>2 DEF RunShapes
<1>5. dPublished' = dPublished \cup D!ToSet(merged) /\ dRow' = m2  BY <1>2
<1> HIDE DEF merged
<1>6. m2 \in D!Cursors  BY <1>0, <1>3, ZenonT(20) DEF D!Cursors
<1>7. /\ m2.cats = merged /\ m2.index = dRow.index /\ m2.pub = dRow.pub /\ m2.frontier = dRow.frontier
      /\ m2.seen = dRow.seen /\ m2.offset = dRow.offset
  BY <1>0 DEF D!Cursors
<1> HIDE DEF m2, cats
<1>8. Grown  BY <1>0, <1>1, <1>4, <1>5 DEF Grown, RunShapes
<1>9. GoodCursors(dRow, dPool', dHarvested', dPublished', dMissed', dQuota, dClobbered')
  BY <1>0, <1>8, CursorsGrow DEF Grown
<1>10. ~dClobbered' => m2.index <= Len(merged) /\ WorkedOff(m2, m2.index, dHarvested')
  <2> SUFFICES ASSUME ~dClobbered' PROVE m2.index <= Len(merged) /\ WorkedOff(m2, m2.index, dHarvested')
    OBVIOUS
  <2>1. cats \in Seq(Page) /\ Len(cats) \in Nat /\ Len(merged) \in Nat /\ dRow.index \in Nat
    <3>1. cats \in Seq(Page) /\ dRow.index \in Nat  BY <1>0, CursorFields DEF cats
    <3> QED  BY <1>3, <3>1
  <2>2. Len(cats) <= Len(merged) /\ SubSeq(cats, 1, Len(cats)) = SubSeq(merged, 1, Len(cats))
    BY <1>4 DEF D!IsPrefix
  <2>3. \A k \in 1..Len(cats) : cats[k] = merged[k]
    <3> DEFINE n == Len(cats)
    <3>1. n \in 0..Len(cats) /\ n \in 0..Len(merged)  BY <2>1, <2>2
    <3>2. \A k \in 1..n : SubSeq(cats, 1, n)[k] = cats[k]  BY <2>1, <3>1, HeadOfList
    <3>3. \A k \in 1..n : SubSeq(merged, 1, n)[k] = merged[k]  BY <1>3, <3>1, HeadOfList
    <3> QED  BY <2>2, <3>2, <3>3
  <2>4. dRow.index <= Len(cats) /\ WorkedOff(dRow, dRow.index, dHarvested')
    BY <1>9 DEF GoodCursors, cats
  <2>5. \A k \in 1..dRow.index : D!HarvestUrls(m2)[k] = D!HarvestUrls(dRow)[k]
    <3>1. D!HarvestUrls(m2) = <<Home>> \o merged /\ D!HarvestUrls(dRow) = <<Home>> \o cats
      BY <1>7 DEF D!HarvestUrls, cats
    <3>2. \A k \in 1..dRow.index : k = 1 \/ (k - 1 \in 1..Len(cats) /\ k - 1 \in 1..Len(merged))
      BY <2>1, <2>2, <2>4
    <3>3. (<<Home>> \o merged)[1] = Home /\ (<<Home>> \o cats)[1] = Home  BY <1>3, <2>1, ShopFacts
    <3>4. \A k \in 1..dRow.index : k - 1 \in 1..Len(cats) /\ k - 1 \in 1..Len(merged) =>
             (<<Home>> \o merged)[k] = merged[k - 1] /\ (<<Home>> \o cats)[k] = cats[k - 1]
      BY <1>3, <2>1, ShopFacts
    <3> QED  BY <2>3, <3>1, <3>2, <3>3, <3>4
  <2> QED  BY <1>7, <2>1, <2>2, <2>4, <2>5 DEF WorkedOff, cats
<1>11. Categories(m2.seen) \subseteq dPublished' \cup dMissed' \cup D!ToSet(m2.cats) \cup InFrontier(m2.frontier)
  <2>1. Categories(dRow.seen) \subseteq dPublished' \cup dMissed' \cup D!ToSet(dRow.cats) \cup InFrontier(dRow.frontier)
    BY <1>9 DEF GoodCursors
  <2>2. D!ToSet(dRow.cats) \subseteq dPublished'  BY <1>0, <1>5
  <2> QED  BY <1>7, <2>1, <2>2
<1>12. GoodCursors(m2, dPool', dHarvested', dPublished', dMissed', dQuota, dClobbered')
  <2>1. D!FrontierOK(m2)  BY <1>7, <1>9 DEF GoodCursors, D!FrontierOK
  <2> QED  BY <1>6, <1>7, <1>9, <1>10, <1>11, <2>1 DEF GoodCursors
<1>13. D!ToSet(m2.cats) \subseteq dPublished'  BY <1>5, <1>7
<1>14. GoodRow'  BY <1>5, <1>8, <1>12, <1>13 DEF GoodRow, Grown
<1> QED  BY <1>1, <1>8, <1>14, RowMoves

LEMMA RunInit == ASSUME D!Init PROVE RunInv
<1> DEFINE m1 == [D!Row EXCEPT !.sitemapAge = "stale"]
           m2 == [D!Row EXCEPT !.sitemapAge = "fresh"]
<1>1. /\ dRow = m1 \/ dRow = m2
      /\ dQuota \in Quotas /\ dPool = {} /\ dMerging = NoList /\ dRuns = 0
      /\ dPc = [o \in Run |-> "idle"] /\ dMem = [o \in Run |-> D!Row] /\ dLoc = [o \in Run |-> D!NoLocals]
      /\ dPublished = {} /\ dHarvested = {} /\ dMissed = {} /\ dClobbered = FALSE
  BY Zenon DEF D!Init
<1>2. GoodCursors(D!Row, dPool, dHarvested, dPublished, dMissed, dQuota, dClobbered)  BY NoCopy
<1>3. D!Row \in D!Cursors /\ D!Row.cats = <<>>  BY <1>2 DEF GoodCursors, D!Row
<1>4. m1 \in D!Cursors /\ m2 \in D!Cursors
  <2>1. m1 \in D!Cursors  BY <1>3, ZenonT(20) DEF D!Cursors
  <2>2. m2 \in D!Cursors  BY <1>3, ZenonT(20) DEF D!Cursors
  <2> QED  BY <2>1, <2>2
<1>5. /\ m1.cats = D!Row.cats /\ m1.index = D!Row.index /\ m1.pub = D!Row.pub /\ m1.frontier = D!Row.frontier
      /\ m1.seen = D!Row.seen /\ m1.offset = D!Row.offset
  BY <1>3 DEF D!Cursors
<1>6. /\ m2.cats = D!Row.cats /\ m2.index = D!Row.index /\ m2.pub = D!Row.pub /\ m2.frontier = D!Row.frontier
      /\ m2.seen = D!Row.seen /\ m2.offset = D!Row.offset
  BY <1>3 DEF D!Cursors
<1> HIDE DEF m1, m2
<1>7. GoodCursors(m1, dPool, dHarvested, dPublished, dMissed, dQuota, dClobbered)
      /\ GoodCursors(m2, dPool, dHarvested, dPublished, dMissed, dQuota, dClobbered)
  BY <1>2, <1>4, <1>5, <1>6, SameCursors
<1>8. D!ToSet(dRow.cats) = {}
  <2>1. dRow.cats = <<>>  BY <1>1, <1>3, <1>5, <1>6
  <2> QED  BY <2>1, SameElements DEF Elements
<1>9. GoodRow  BY <1>1, <1>7, <1>8 DEF GoodRow
<1>10. GoodRun("idle", D!Row, D!NoLocals, dPool, dHarvested, dPublished, dMissed, dQuota, dClobbered)
  BY EmptyLocals DEF GoodRun, RunPlaces
<1>11. GoodRuns
  <2> SUFFICES ASSUME NEW o \in Run
               PROVE  /\ GoodCursors(dMem[o], dPool, dHarvested, dPublished, dMissed, dQuota, dClobbered)
                      /\ GoodRun(dPc[o], dMem[o], dLoc[o], dPool, dHarvested, dPublished, dMissed, dQuota, dClobbered)
    BY DEF GoodRuns
  <2>1. dPc[o] = "idle" /\ dMem[o] = D!Row /\ dLoc[o] = D!NoLocals  BY <1>1
  <2> QED  BY <1>2, <1>10, <2>1
<1>12. RunShapes
  <2>1. dPc \in [Run -> RunPlaces]  BY <1>1 DEF RunPlaces
  <2>2. dMem \in [Run -> D!Cursors] /\ dLoc \in [Run -> RunLocals]  BY <1>1, <1>3, EmptyLocals
  <2>3. dQuota \in Nat /\ dRuns \in 0..MaxRuns  BY <1>1, ShopFacts
  <2>4. IsFiniteSet(dPool) /\ dPool \subseteq Goods  BY <1>1, FS_EmptySet
  <2> QED  BY <1>1, <2>1, <2>2, <2>3, <2>4 DEF RunShapes
<1> QED  BY <1>9, <1>11, <1>12 DEF RunInv

LEMMA RunStep == ASSUME RunInv, [D!Next]_dVars PROVE RunInv'
<1>1. CASE UNCHANGED dVars
  <2> USE <1>1 DEF dVars
  <2>1. RunShapes /\ GoodRow /\ GoodRuns  BY DEF RunInv
  <2>2. Grown  BY <2>1 DEF Grown, RunShapes
  <2>3. GoodRow'  BY <2>1, <2>2, RowStays
  <2> QED  BY <2>1, <2>2, <2>3, RowMoves DEF RunShapes
<1>2. ASSUME NEW r1 \in Run, D!Step(r1) PROVE RunInv'
  BY <1>2, StartStep, UsefulStep, UselessStep, DedupStep, SaveStepKeeps, CategoryStep, LateStep, PageStep,
     WalkOverStep, PlanStep, HarvestLateStep, CategoryStepDone, HarvestCutStep, HarvestEndStep, FinishStep,
     FailStep, CrashStep, DeadlineStep, Zenon DEF D!Step
<1>3. CASE D!SitemapStale \/ D!ReconStale \/ D!MergeLoad \/ D!MergeWrite
  BY <1>3, AgesStep, MergeLoadStep, MergeWriteStep
<1> QED  BY <1>1, <1>2, <1>3, Zenon DEF D!Next

LEMMA RunsTyped == ASSUME RunInv PROVE D!TypeOK
<1>0. RunShapes /\ GoodRow /\ GoodRuns  BY DEF RunInv
<1>1. dRow \in D!Cursors /\ D!FrontierOK(dRow)  BY <1>0 DEF GoodRow, GoodCursors
<1>2. \A o \in Run : dMem[o] \in D!Cursors /\ D!FrontierOK(dMem[o])  BY <1>0 DEF GoodRuns, GoodCursors
<1>3. dPool \subseteq D!ToSet(Sitemap) \cup UNION {Products[page] : page \in Page}
  BY <1>0 DEF RunShapes, Goods
<1>4. \A o \in Run : dPc[o] = "save" /\ dQuota = 0 => dLoc[o].at <= Len(dLoc[o].todo)
  <2> SUFFICES ASSUME NEW o \in Run, dPc[o] = "save", dQuota = 0 PROVE dLoc[o].at <= Len(dLoc[o].todo)
    OBVIOUS
  <2>1. GoodRun("save", dMem[o], dLoc[o], dPool, dHarvested, dPublished, dMissed, dQuota, dClobbered)
    BY <1>0 DEF GoodRuns
  <2>2. GoodPass("save", dLoc[o], dPool, dQuota)  BY <2>1 DEF GoodRun
  <2> QED  BY <2>2 DEF GoodPass
<1> QED  BY <1>1, <1>2, <1>3, <1>4, Zenon DEF D!TypeOK

LEMMA RunsHonest == ASSUME RunInv PROVE D!CursorHonest /\ D!NoCategoryLost /\ D!SitemapSaved
<1>0. RunShapes /\ GoodRow /\ GoodRuns  BY DEF RunInv
<1>1. D!CursorHonest  BY <1>0 DEF GoodRow, GoodCursors, WorkedOff, D!CursorHonest
<1>2. D!NoCategoryLost
  <2>1. Categories(dRow.seen) \subseteq dPublished \cup dMissed \cup InFrontier(dRow.frontier)
    BY <1>0 DEF GoodRow, GoodCursors
  <2> SUFFICES ASSUME NEW page \in Categories(dRow.seen), page \notin dPublished \cup dMissed
               PROVE  /\ dRow.frontier # NoFrontier
                      /\ \E k \in DOMAIN dRow.frontier.queue : dRow.frontier.queue[k][1] = page
    BY DEF D!NoCategoryLost, Categories
  <2>2. page \in InFrontier(dRow.frontier)  BY <2>1
  <2> QED  BY <2>2 DEF InFrontier, QueuedIn
<1>3. D!SitemapSaved
  <2> SUFFICES ASSUME NEW o \in Run, dLoc[o].status = "completed", dLoc[o].via = "sitemap", dQuota = 0
               PROVE  D!ToSet(Sitemap) \subseteq dPool
    BY DEF D!SitemapSaved
  <2>1. GoodRun(dPc[o], dMem[o], dLoc[o], dPool, dHarvested, dPublished, dMissed, dQuota, dClobbered)
    BY <1>0 DEF GoodRuns
  <2> QED  BY <2>1 DEF GoodRun
<1> QED  BY <1>1, <1>2, <1>3

\* Whatever discovery runs of a shop overlap, die, are refused or cut off (orchestrator.py with
\* bfs_walker.py, category_processor.py and cursor_store.py): no category before the resume index is
\* left undone unless an enumeration put an older list back, no category a walk has seen is lost, and a
\* run that completed the sitemap without a quota left none of its products out, for any shop, links,
\* depth, batches and windows, and any number of runs.
THEOREM ResumeIsHonest ==
    /\ D!Spec => [](D!TypeOK /\ D!CursorHonest /\ D!NoCategoryLost /\ D!SitemapSaved)
    /\ MCSpec => [](part = "discovery" => D!TypeOK)
<1>1. D!Spec => []RunInv
  <2>1. [D!Next]_D!vars => [D!Next]_dVars  BY DEF D!vars, dVars
  <2>2. RunInv /\ [D!Next]_dVars => RunInv'  BY RunStep
  <2> QED  BY <2>1, <2>2, RunInit, PTL DEF D!Spec
<1>2. RunInv => D!TypeOK /\ D!CursorHonest /\ D!NoCategoryLost /\ D!SitemapSaved  BY RunsTyped, RunsHonest
<1>3. MCSpec => [](part = "discovery" => RunInv)
  <2>1. MCInit => (part = "discovery" => RunInv)  BY RunInit DEF MCInit
  <2>2. (part = "discovery" => RunInv) /\ [MCNext]_allVars => (part = "discovery" => RunInv)'
    BY RunPart, RunStep
  <2> QED  BY <2>1, <2>2, PTL DEF MCSpec, allVars
<1>4. D!Spec => [](D!TypeOK /\ D!CursorHonest /\ D!NoCategoryLost /\ D!SitemapSaved)  BY <1>1, <1>2, PTL
<1>5. MCSpec => [](part = "discovery" => D!TypeOK)  BY <1>2, <1>3, PTL
<1> QED  BY <1>4, <1>5

\* What the runs check of discovery: the cursors a run resumes from say what was done (orchestrator.py,
\* cursor_store.py).
THEOREM RunsAreHonest == MCSpec => []ResumeHonest
<1>1. MCInit => (part = "discovery" => RunInv)  BY RunInit DEF MCInit
<1>2. (part = "discovery" => RunInv) /\ [MCNext]_allVars => (part = "discovery" => RunInv)'  BY RunPart, RunStep
<1>3. (part = "discovery" => RunInv) => ResumeHonest  BY RunsHonest DEF ResumeHonest
<1> QED  BY <1>1, <1>2, <1>3, PTL DEF MCSpec, allVars

-----------------------------------------------------------------------------
(***************************************************************************)
(* All the types: what the proofs above left out of the type invariants.   *)
(***************************************************************************)
WriteTyped == PairInv /\ pFaults \in 0..MaxFaults

LEMMA WriteTypedInit == P!Init => WriteTyped
BY PairInit, BoundsAssumption DEF WriteTyped, P!Init

LEMMA WriteTypedStays == ASSUME WriteTyped, [P!Next]_pVars PROVE WriteTyped'
<1>1. PairInv'  BY PairStays DEF WriteTyped
<1>2. pFaults' = pFaults \/ P!Fault
  <2>1. CASE UNCHANGED pVars  BY <2>1 DEF pVars
  <2>2. ASSUME NEW w \in Writer, P!Step(w) PROVE pFaults' = pFaults \/ P!Fault
    <3> HIDE DEF P!Fault
    <3> QED  BY <2>2 DEF P!Step, P!Evaluate, P!FastProducts, P!FastListing, P!FastRefused, P!SlowProduct, P!SlowListing,
                      P!SlowRefused, P!Commit, P!Abort, P!Fails
  <2> QED  BY <2>1, <2>2 DEF P!Next
<1>3. pFaults' \in 0..MaxFaults  BY <1>2, BoundsAssumption DEF WriteTyped, P!Fault
<1> QED  BY <1>1, <1>3 DEF WriteTyped

LEMMA WritesTyped == WriteTyped => P!TypeOK
BY DEF WriteTyped, PairInv, PTypes, P!TypeOK, RowSets

-----------------------------------------------------------------------------
\* Each tick that read, or died, was counted before it picks.
Ranking == {t \in Ticker : rTick[t] = "ranked"}

RotationTyped ==
    /\ RotationTypes
    /\ rTicks \in Nat /\ rTicks <= MaxTicks /\ rClock + Cardinality(Ranking) <= rTicks

LEMMA RankingCount == IsFiniteSet(Ranking) /\ Cardinality(Ranking) \in Nat
<1>1. IsFiniteSet(Ranking)  BY RotationAssumed, FS_Subset DEF Ranking
<1> QED  BY <1>1, FS_CardinalityType

LEMMA RotationTypedInit == R!Init => RotationTyped
<1> SUFFICES ASSUME R!Init PROVE RotationTyped  OBVIOUS
<1>1. RotationTypes  BY RotationInit DEF RotationInv
<1>2. Ranking = {}  BY DEF R!Init, Ranking
<1>3. Cardinality(Ranking) = 0  BY <1>2, FS_EmptySet
<1> QED  BY <1>1, <1>3, BoundsAssumption DEF R!Init, RotationTyped

LEMMA RotationTypedStays == ASSUME RotationInv, RotationTyped, [R!Next]_rVars PROVE RotationTyped'
<1>0. RotationTypes'  BY RotationStep DEF RotationInv
<1>1. CASE UNCHANGED rVars
  <2>1. Ranking' = Ranking /\ rTicks' = rTicks /\ rClock' = rClock  BY <1>1 DEF rVars, Ranking
  <2> QED  BY <1>0, <2>1 DEF RotationTyped
<1>2. ASSUME NEW t \in Ticker, R!TickRead(t) PROVE RotationTyped'
  <2>1. rTick[t] = "idle" /\ rTick' = [rTick EXCEPT ![t] = "ranked"] /\ rTicks < MaxTicks /\ rTicks' = rTicks + 1
        /\ rClock' = rClock
    BY <1>2 DEF R!TickRead
  <2>2. Ranking' = Ranking \cup {t} /\ t \notin Ranking  BY <2>1 DEF Ranking, RotationTyped, RotationTypes
  <2>3. Cardinality(Ranking') = Cardinality(Ranking) + 1  BY <2>2, RankingCount, FS_AddElement
  <2>4. rClock \in Nat /\ Cardinality(Ranking) \in Nat  BY RankingCount DEF RotationTyped, RotationTypes
  <2> QED  BY <1>0, <2>1, <2>3, <2>4, BoundsAssumption DEF RotationTyped
<1>3. ASSUME NEW t \in Ticker, R!TickPick(t) \/ R!TickDies(t) PROVE RotationTyped'
  <2>1. rTick[t] = "ranked" /\ rTick' = [rTick EXCEPT ![t] = "idle"] /\ rTicks' = rTicks
        /\ rClock' \in {rClock, rClock + 1}
    BY <1>3 DEF R!TickPick, R!TickDies
  <2>2. Ranking' = Ranking \ {t} /\ t \in Ranking  BY <2>1 DEF Ranking, RotationTyped, RotationTypes
  <2>3. Cardinality(Ranking') = Cardinality(Ranking) - 1  BY <2>2, RankingCount, FS_RemoveElement
  <2>4. rClock \in Nat /\ Cardinality(Ranking) \in Nat  BY RankingCount DEF RotationTyped, RotationTypes
  <2> QED  BY <1>0, <2>1, <2>3, <2>4 DEF RotationTyped
<1> QED  BY <1>1, <1>2, <1>3 DEF R!Next

LEMMA RotationsTyped == RotationTyped => R!TypeOK
<1> SUFFICES ASSUME RotationTyped PROVE R!TypeOK  OBVIOUS
<1>1. rClock \in Nat /\ rTicks \in Nat /\ Cardinality(Ranking) \in Nat  BY RankingCount DEF RotationTyped, RotationTypes
<1>2. rClock <= MaxTicks  BY <1>1, BoundsAssumption DEF RotationTyped
<1>3. \A o \in Shop : rScore[o] \in 0..rClock
  BY <1>1 DEF RotationTyped, RotationTypes
<1>4. \A t \in Ticker : \A o \in Shop : rRanked[t][o] \in 0..rClock
  <2> TAKE t \in Ticker
  <2> TAKE o \in Shop
  <2>1. rRanked[t][o] \in Nat /\ rScore[o] \in Nat /\ rRanked[t][o] <= rScore[o] /\ rScore[o] <= rClock
    BY DEF RotationTyped, RotationTypes
  <2> QED  BY <1>1, <2>1
<1> QED  BY <1>2, <1>3, <1>4 DEF RotationTyped, RotationTypes, R!TypeOK

-----------------------------------------------------------------------------
HarvestTyped ==
    /\ CursorInv
    /\ cPages \in [Walker -> 0..Limit] /\ cMode \in {"unknown", "js", "nojs"}

LEMMA HarvestTypedInit == C!Init => HarvestTyped
BY CursorInit, BoundsAssumption DEF HarvestTyped, C!Init

LEMMA HarvestTypedStays == ASSUME HarvestTyped, [C!Next]_cVars PROVE HarvestTyped'
<1>1. CursorInv'  BY CursorStep DEF HarvestTyped
<1>2. CASE UNCHANGED cVars  BY <1>1, <1>2 DEF HarvestTyped, cVars
<1>3. CASE C!ReplaceList \/ C!ModeExpires
  BY <1>1, <1>3 DEF HarvestTyped, C!ReplaceList, C!ModeExpires
<1>4. ASSUME NEW w \in Walker,
             C!Begin(w) \/ C!LoadCursor(w) \/ C!Probe(w) \/ C!BudgetStop(w)
             \/ C!QuotaReached(w) \/ C!SaveCursor(w) \/ C!Dies(w)
      PROVE  HarvestTyped'
  <2>1. cPages' = cPages \/ cPages' = [cPages EXCEPT ![w] = 0]
    BY <1>4 DEF C!Begin, C!LoadCursor, C!Probe, C!BudgetStop, C!QuotaReached, C!SaveCursor, C!Dies
  <2>2. cMode' = cMode \/ cMode' \in {"js", "nojs"}
    BY <1>4 DEF C!Begin, C!LoadCursor, C!Probe, C!BudgetStop, C!QuotaReached, C!SaveCursor, C!Dies
  <2> QED  BY <1>1, <2>1, <2>2, BoundsAssumption DEF HarvestTyped
<1>5. ASSUME NEW w \in Walker, C!PageHarvested(w) \/ C!PageEmpty(w) PROVE HarvestTyped'
  <2>1. cPages[w] < Limit /\ cPages' = [cPages EXCEPT ![w] = @ + 1] /\ cMode' = cMode
    BY <1>5 DEF C!PageHarvested, C!PageEmpty
  <2>2. cPages[w] + 1 \in 0..Limit  BY <2>1, BoundsAssumption DEF HarvestTyped
  <2> QED  BY <1>1, <2>1, <2>2 DEF HarvestTyped
<1> QED  BY <1>2, <1>3, <1>4, <1>5 DEF C!Next

LEMMA HarvestsTyped == HarvestTyped => C!TypeOK
<1> SUFFICES ASSUME HarvestTyped PROVE C!TypeOK  OBVIOUS
<1>1. CursorTypes  BY DEF HarvestTyped, CursorInv
<1>2. \A w \in Walker : cPages[w] <= Limit  BY BoundsAssumption DEF HarvestTyped
<1>3. \A w \in Walker : cVisited[w] \subseteq C!ListPage  BY <1>1 DEF CursorTypes
<1> QED  BY <1>1, <1>2, <1>3 DEF CursorTypes, HarvestTyped, C!TypeOK

-----------------------------------------------------------------------------
\* An account is none, or has its flags; no preference is newer than the writes there were.
Accounts == {account \in U!Row : account.is \/ account = U!NoUser}
Confirmed == [Namespace -> 0..MaxPrefs]

AccountTyped ==
    /\ UserTypes
    /\ \A u \in User : users[u] \in Accounts
    /\ prefs \in Confirmed /\ acked \in Confirmed /\ puts \in 0..MaxPrefs
    /\ \A k \in Request : upc[k] = "merging" => req[k].copy \in Confirmed /\ req[k].value \in 0..MaxPrefs
    /\ atOdds \in BOOLEAN /\ patched \in BOOLEAN /\ devices \in BOOLEAN

\* The gate leaves an account of that kind.
LEMMA WrittenAccount ==
    ASSUME NEW op, NEW old \in Accounts, NEW after \in U!Row, U!Written(op, old, after)
    PROVE  after \in Accounts
<1>1. CASE after = old  BY <1>1
<1>2. CASE after = U!NoUser  BY <1>2 DEF Accounts
<1>3. CASE \E super \in BOOLEAN : after = U!Account(TRUE, super)  BY <1>3 DEF Accounts, U!Account
<1>4. CASE after.is  BY <1>4 DEF Accounts
<1>5. CASE old.is /\ (after = [old EXCEPT !.super = FALSE] \/ after = [old EXCEPT !.super = TRUE]
                      \/ after = [old EXCEPT !.active = FALSE])
  BY <1>5 DEF Accounts, U!Row
<1> QED  BY <1>1, <1>2, <1>3, <1>4, <1>5 DEF U!Written

\* An account that is there has its two flags.
LEMMA AccountFlags ==
    ASSUME NEW account \in Accounts
    PROVE  account = U!NoUser \/ \E active, super \in BOOLEAN : account = U!Account(active, super)
<1>1. CASE account.is
  <2>1. account \in U!Row /\ account.active \in BOOLEAN /\ account.super \in BOOLEAN  BY DEF Accounts, U!Row
  <2>2. account = [active |-> account.active, super |-> account.super, is |-> TRUE]  BY <1>1, <2>1 DEF U!Row
  <2>3. account = U!Account(account.active, account.super)  BY <2>2 DEF U!Account
  <2> QED  BY <2>1, <2>3
<1> QED  BY <1>1 DEF Accounts

LEMMA AccountTypedInit == U!Init => AccountTyped
<1> SUFFICES ASSUME U!Init PROVE AccountTyped  OBVIOUS
<1>1. UserTypes  BY UserTypesInit
<1>2. U!NoUser \in Accounts /\ U!Account(TRUE, TRUE) \in Accounts
  BY DEF Accounts, U!Row, U!NoUser, U!Account
<1>3. \A u \in User : users[u] \in Accounts  BY <1>2 DEF U!Init
<1>4. prefs \in Confirmed /\ acked \in Confirmed /\ puts \in 0..MaxPrefs  BY BoundsAssumption DEF U!Init, Confirmed
<1>5. \A k \in Request : upc[k] = "idle"  BY DEF U!Init
<1>6. atOdds \in BOOLEAN /\ patched \in BOOLEAN /\ devices \in BOOLEAN  BY DEF U!Init
<1> QED  BY <1>1, <1>3, <1>4, <1>5, <1>6 DEF AccountTyped

LEMMA AccountTypedStep == ASSUME AccountTyped, U!Next PROVE AccountTyped'
<1> USE DEF U!roleVars, U!prefVars
<1>0. UserTypes /\ UserTypes'  BY UserTypesStep DEF AccountTyped
<1>1. PICK k \in Request :
        \/ U!Authorize(k) \/ U!Load(k) \/ U!CountSuperusers(k) \/ U!WriteAccount(k) \/ U!Fail(k)
        \/ U!LookForSuperuser(k) \/ U!CreateSuperuser(k)
        \/ U!ReadPreferences(k) \/ U!WritePreferences(k)
  BY DEF U!Next
<1>2. atOdds' \in BOOLEAN /\ patched' \in BOOLEAN /\ devices' \in BOOLEAN
  BY <1>1, Zenon DEF AccountTyped, U!Authorize, U!Load, U!CountSuperusers, U!WriteAccount, U!Fail, U!LookForSuperuser,
        U!CreateSuperuser, U!ReadPreferences, U!WritePreferences
\* A request that comes to none of the preferences.
<1>a. ASSUME prefs' = prefs, acked' = acked, puts' = puts, upc'[k] # "merging",
             \A j \in Request : j # k => upc'[j] = upc[j] /\ req'[j] = req[j],
             \A u \in User : users'[u] \in Accounts
      PROVE  AccountTyped'
  BY <1>0, <1>2, <1>a DEF AccountTyped, Confirmed
<1>b. ASSUME NEW place \in {"idle", "loading", "counting", "writing", "booting"}, U!Goto(k, place),
             \A j \in Request : j # k => req'[j] = req[j],
             prefs' = prefs, acked' = acked, puts' = puts, \A u \in User : users'[u] \in Accounts
      PROVE  AccountTyped'
  <2>1. upc'[k] # "merging" /\ \A j \in Request : j # k => upc'[j] = upc[j]
    BY <1>0, <1>b DEF UserTypes, U!Goto
  <2> QED  BY <1>a, <1>b, <2>1
<1>c. ASSUME U!Done(k), prefs' = prefs, acked' = acked, puts' = puts, \A u \in User : users'[u] \in Accounts
      PROVE  AccountTyped'
  <2>1. U!Goto(k, "idle") /\ \A j \in Request : j # k => req'[j] = req[j]
    BY <1>0, <1>c DEF UserTypes, U!Goto, U!Done
  <2> QED  BY <1>b, <1>c, <2>1
<1>3. CASE U!Authorize(k)
  <2>1. /\ U!Goto(k, "loading") /\ users' = users /\ prefs' = prefs /\ acked' = acked /\ puts' = puts
        /\ \E local : req' = [req EXCEPT ![k] = local]
    BY <1>3 DEF U!Authorize
  <2>2. \A j \in Request : j # k => req'[j] = req[j]  BY <1>0, <2>1 DEF UserTypes
  <2> QED  BY <1>b, <2>1, <2>2 DEF AccountTyped
<1>4. CASE U!Load(k) \/ U!CountSuperusers(k)
  <2>1. /\ users' = users /\ prefs' = prefs /\ acked' = acked /\ puts' = puts
        /\ \/ U!Done(k)
           \/ req' = req /\ (U!Goto(k, "counting") \/ U!Goto(k, "writing"))
    BY <1>4 DEF U!Load, U!CountSuperusers
  <2> QED  BY <1>b, <1>c, <2>1 DEF AccountTyped
<1>5. CASE U!Fail(k)  BY <1>5, <1>c DEF U!Fail, AccountTyped
<1>6. CASE U!LookForSuperuser(k)
  <2>1. \A j \in Request : j # k => req'[j] = req[j]  BY <1>0, <1>6 DEF UserTypes, U!LookForSuperuser
  <2> QED  BY <1>b, <1>6, <2>1 DEF U!LookForSuperuser, AccountTyped
<1>7. CASE U!WriteAccount(k)
  <2>1. PICK after \in U!Row : /\ U!Written(req[k].op, users[req[k].target], after)
                               /\ users' = [users EXCEPT ![req[k].target] = after]
    BY <1>7 DEF U!WriteAccount
  <2>2. req[k].target \in User /\ users \in [User -> U!Row]  BY <1>0, <1>7 DEF U!WriteAccount, UserTypes
  <2>3. after \in Accounts  BY <2>1, <2>2, WrittenAccount DEF AccountTyped
  <2>4. \A u \in User : users'[u] \in Accounts  BY <2>1, <2>2, <2>3 DEF AccountTyped
  <2>5. prefs' = prefs /\ acked' = acked /\ puts' = puts  BY <1>7 DEF U!WriteAccount
  <2>6. CASE U!Done(k)  BY <1>c, <2>4, <2>5, <2>6
  <2>7. CASE U!Goto(k, "writing") /\ req' = [req EXCEPT ![k].op = "deactivate"]
    <3>1. \A j \in Request : j # k => req'[j] = req[j]  BY <1>0, <2>7 DEF UserTypes
    <3> QED  BY <1>b, <2>4, <2>5, <2>7, <3>1
  <2> QED  BY <1>7, <2>6, <2>7 DEF U!WriteAccount
<1>8. CASE U!CreateSuperuser(k)
  <2>1. U!Account(TRUE, TRUE) \in Accounts  BY DEF Accounts, U!Row, U!Account
  <2>2. users \in [User -> U!Row]  BY <1>0 DEF UserTypes
  <2>3. \A u \in User : users'[u] \in Accounts  BY <1>8, <2>1, <2>2 DEF AccountTyped, U!CreateSuperuser
  <2> QED  BY <1>8, <1>c, <2>3 DEF U!CreateSuperuser
<1>9. CASE U!ReadPreferences(k)
  <2>1. /\ puts < MaxPrefs /\ puts' = puts + 1 /\ U!Goto(k, "merging") /\ prefs' = prefs /\ acked' = acked /\ users' = users
    BY <1>9 DEF U!ReadPreferences
  <2>2. puts' \in 0..MaxPrefs  BY <2>1, BoundsAssumption DEF AccountTyped
  <2>3. PICK op \in {"put", "replace"}, key \in Namespace :
           req' = [req EXCEPT ![k] = [U!Nobody EXCEPT !.op = op, !.key = key, !.copy = prefs, !.value = puts']]
    BY <1>9 DEF U!ReadPreferences
  <2> DEFINE local == [U!Nobody EXCEPT !.op = op, !.key = key, !.copy = prefs, !.value = puts']
  <2>4. local.copy = prefs /\ local.value = puts'  BY DEF U!Nobody
  <2> HIDE DEF local
  <2>5. req'[k] = local /\ \A j \in Request : j # k => req'[j] = req[j] /\ upc'[j] = upc[j]
    BY <1>0, <2>1, <2>3 DEF local, UserTypes, U!Goto
  <2> QED  BY <1>0, <1>2, <2>1, <2>2, <2>4, <2>5 DEF AccountTyped, Confirmed
<1>10. CASE U!WritePreferences(k)
  <2>1. U!Done(k) /\ users' = users /\ puts' = puts /\ upc[k] = "merging" /\ prefs' = U!Merged(k)
        /\ acked' = [n \in Namespace |-> IF n = req[k].key \/ req[k].op = "replace" THEN req[k].value ELSE acked[n]]
    BY <1>10 DEF U!WritePreferences
  <2>2. req[k].value \in 0..MaxPrefs /\ req[k].copy \in Confirmed /\ acked \in Confirmed
    BY <2>1 DEF AccountTyped
  <2>3. prefs' \in Confirmed /\ acked' \in Confirmed
    BY <2>1, <2>2 DEF U!Merged, Confirmed
  <2>4. upc'[k] = "idle" /\ \A j \in Request : j # k => req'[j] = req[j] /\ upc'[j] = upc[j]
    BY <1>0, <2>1 DEF UserTypes, U!Done
  <2> QED  BY <1>0, <1>2, <2>1, <2>3, <2>4 DEF AccountTyped
<1> QED  BY <1>1, <1>3, <1>4, <1>5, <1>6, <1>7, <1>8, <1>9, <1>10

LEMMA AccountTypedStays == ASSUME AccountTyped, [U!Next]_uVars PROVE AccountTyped'
<1>1. CASE UNCHANGED uVars
  <2>1. UserTypes'  BY <1>1 DEF AccountTyped, UserTypes, uVars
  <2> QED  BY <1>1, <2>1 DEF uVars, AccountTyped, Confirmed
<1> QED  BY <1>1, AccountTypedStep

LEMMA AccountsTyped == AccountTyped => U!TypeOK
<1> SUFFICES ASSUME AccountTyped PROVE U!TypeOK  OBVIOUS
<1>1. \A u \in User : users[u] = U!NoUser \/ \E active, super \in BOOLEAN : users[u] = U!Account(active, super)
  BY AccountFlags DEF AccountTyped
<1>2. upc \in [Request -> Places]  BY DEF AccountTyped, UserTypes
<1> QED  BY <1>1, <1>2 DEF AccountTyped, Confirmed, Places, U!TypeOK

-----------------------------------------------------------------------------
(***************************************************************************)
(* The quotes.  A row of facts is of a day that has its row in dim_date    *)
(* because an ingest that found none inserts it in the transaction of its  *)
(* quotes; and keys are unique because what a transaction writes replaces  *)
(* the rows of its keys, of which it holds each once.                      *)
(***************************************************************************)
Items == UNION {M!ToSet(Instruments[rail]) : rail \in M!Rail}

\* The quotes an ingest carries, and the day it writes them for.
Carried(local) ==
    /\ local.at \in 1..MaxQuotes /\ local.usd \in BOOLEAN
    /\ \A item \in DOMAIN local.quotes : local.quotes[item] \in M!Source
    /\ local.written \subseteq Items \X M!Source

Dated(local, dates) == local.day \in 1..MaxDay /\ (local.dated \/ local.day \in dates)

Loaded(step, local, dates) ==
    /\ step \in {"dating", "writing"} => Carried(local)
    /\ step = "writing" => Dated(local, dates)

FactRow(dates) ==
    [rail : M!Rail, day : dates, item : Items, source : M!Source, at : 1..MaxQuotes, usd : BOOLEAN]

TablesTyped ==
    /\ today \in 1..MaxDay /\ quoted \in [M!Rail -> 0..MaxQuotes]
    /\ dim_date \subseteq 1..MaxDay
    /\ facts \subseteq FactRow(dim_date)
    /\ \A e, f \in facts : M!KeyOf(e) = M!KeyOf(f) => e = f
    /\ rotated \in BOOLEAN /\ met \subseteq M!Rail

MarketTyped ==
    /\ OrderInv /\ TablesTyped
    /\ \A k \in Ingestor : Loaded(mpc[k], run[k], dim_date)

LEMMA MarketTypedInit == M!Init => MarketTyped
<1> SUFFICES ASSUME M!Init PROVE MarketTyped  OBVIOUS
<1>1. 1 \in 1..MaxDay /\ 0 \in 0..MaxQuotes  BY BoundsAssumption
<1>2. today = 1 /\ quoted = [rail \in M!Rail |-> 0] /\ dim_date \in {{}, {1}} /\ facts = {} /\ rotated = FALSE /\ met = {}
      /\ \A k \in Ingestor : mpc[k] = "idle"
  BY DEF M!Init
<1>3. TablesTyped  BY <1>1, <1>2 DEF TablesTyped
<1> QED  BY <1>2, <1>3, OrderInit DEF MarketTyped, Loaded

\* An ingest that goes on and leaves the tables alone.
LEMMA GotoLoaded ==
    ASSUME MarketTyped, NEW k \in Ingestor, NEW step, NEW local, M!Goto(k, step, local),
           Loaded(step, local, dim_date), OrderInv', TablesTyped', dim_date' = dim_date
    PROVE  MarketTyped'
<1>1. \A j \in Ingestor : IF j = k THEN mpc'[j] = step /\ run'[j] = local ELSE mpc'[j] = mpc[j] /\ run'[j] = run[j]
  BY AllProper DEF MarketTyped, M!Goto
<1>2. \A j \in Ingestor : Loaded(mpc[j], run[j], dim_date)  BY DEF MarketTyped
<1>3. \A j \in Ingestor : Loaded(mpc'[j], run'[j], dim_date')
  <2> TAKE j \in Ingestor
  <2>1. CASE j = k  BY <1>1, <2>1
  <2>2. CASE j # k
    <3>1. mpc'[j] = mpc[j] /\ run'[j] = run[j]  BY <1>1, <2>2
    <3> QED  BY <1>2, <3>1
  <2> QED  BY <2>1, <2>2
<1> QED  BY <1>3 DEF MarketTyped

LEMMA TablesStay ==
    ASSUME TablesTyped, UNCHANGED <<today, quoted, dim_date, facts, rotated, met>>
    PROVE  TablesTyped'
BY DEF TablesTyped, FactRow

LEMMA NextRailLoaded ==
    ASSUME MarketTyped, NEW k \in Ingestor, NEW rail, NEW only, M!NextRail(k, rail, only),
           OrderInv', TablesTyped', dim_date' = dim_date
    PROVE  MarketTyped'
<1>1. PICK step \in {"idle", "fetching"} : \E local : M!Goto(k, step, local)
  BY DEF M!NextRail
<1>3. PICK local : M!Goto(k, step, local)  BY <1>1
<1>2. Loaded(step, local, dim_date)  BY DEF Loaded
<1> QED  BY <1>2, <1>3, GotoLoaded

\* The quotes of an answer name providers of the rail.
LEMMA QuotesNamed ==
    ASSUME NEW rail \in M!Rail, NEW requested, NEW answers, NEW item \in DOMAIN M!GapFill(rail, requested, answers)
    PROVE  M!GapFill(rail, requested, answers)[item] \in M!Source
<1> DEFINE supplies == {n \in DOMAIN M!Queue[rail] : item \in answers[M!Queue[rail][n]]}
           first == CHOOSE n \in supplies : \A m \in supplies : n <= m
<1>1. DOMAIN M!Queue[rail] \subseteq Nat  BY RailIs DEF M!Queue
<1>2. supplies # {} /\ supplies \in SUBSET Nat  BY <1>1 DEF M!GapFill
<1>3. \E n \in supplies : \A m \in supplies : n <= m
  <2> HIDE DEF supplies
  <2> QED  BY <1>2, LeastOf
<1>4. first \in supplies
  <2> HIDE DEF supplies
  <2> QED  BY <1>3
<1>5. M!GapFill(rail, requested, answers)[item] = M!Queue[rail][first]  BY DEF M!GapFill
<1>6. M!Queue[rail][first] \in M!ToSet(M!Queue[rail])  BY <1>4 DEF M!ToSet
<1> QED  BY <1>5, <1>6 DEF M!Source

\* The rows of a transaction: one of each key, of the day it inserted or found.
LEMMA CommitTyped ==
    ASSUME MarketTyped, NEW k \in Ingestor, mpc[k] = "writing", M!CommitRows(k),
           UNCHANGED <<today, quoted, rotated, met>>
    PROVE  TablesTyped' /\ dim_date \subseteq dim_date'
<1>1. Carried(run[k]) /\ Dated(run[k], dim_date) /\ run[k].rail \in M!Rail
  BY AllProper DEF MarketTyped, Loaded, Proper
<1>2. dim_date' \subseteq 1..MaxDay /\ dim_date \subseteq dim_date' /\ run[k].day \in dim_date'
  BY <1>1 DEF MarketTyped, TablesTyped, M!CommitRows, Dated
<1>3. \A w \in run[k].written : M!Row(k, w) \in FactRow(dim_date)'
  <2> SUFFICES ASSUME NEW w \in run[k].written PROVE M!Row(k, w) \in FactRow(dim_date)'  OBVIOUS
  <2>1. w[1] \in Items /\ w[2] \in M!Source  BY <1>1 DEF Carried
  <2>2. run[k].at \in 1..MaxQuotes /\ run[k].usd \in BOOLEAN  BY <1>1 DEF Carried
  <2> QED  BY <1>1, <1>2, <2>1, <2>2 DEF M!Row, FactRow
<1>4. facts \subseteq FactRow(dim_date)'
  <2>1. facts \subseteq FactRow(dim_date)  BY DEF MarketTyped, TablesTyped
  <2>2. FactRow(dim_date) \subseteq FactRow(dim_date)'  BY <1>2 DEF FactRow
  <2> QED  BY <2>1, <2>2
<1>5. facts' = {f \in facts : M!KeyOf(f) \notin M!Held(k)} \cup {M!Row(k, w) : w \in run[k].written}
  BY DEF M!CommitRows
<1>6. \A w \in run[k].written : M!KeyOf(M!Row(k, w)) = M!Key(k, w[1], w[2]) /\ M!Key(k, w[1], w[2]) \in M!Held(k)
  BY DEF M!KeyOf, M!Row, M!Key, M!Held
<1>7. \A v, w \in run[k].written : M!Key(k, v[1], v[2]) = M!Key(k, w[1], w[2]) => v = w
  <2>1. \A v, w \in Items \X M!Source : v[1] = w[1] /\ v[2] = w[2] => v = w  OBVIOUS
  <2> QED  BY <1>1, <2>1 DEF Carried, M!Key
<1>8. \A e, f \in facts' : M!KeyOf(e) = M!KeyOf(f) => e = f
  <2> SUFFICES ASSUME NEW e \in facts', NEW f \in facts', M!KeyOf(e) = M!KeyOf(f) PROVE e = f  OBVIOUS
  <2>1. CASE e \in facts /\ f \in facts  BY <2>1 DEF MarketTyped, TablesTyped
  <2>2. CASE M!KeyOf(e) \notin M!Held(k)
    <3>1. e \in facts /\ f \in facts  BY <1>5, <1>6, <2>2
    <3> QED  BY <2>1, <3>1
  <2>3. CASE M!KeyOf(e) \in M!Held(k)
    <3>1. PICK v \in run[k].written : e = M!Row(k, v)  BY <1>5, <2>3
    <3>2. PICK w \in run[k].written : f = M!Row(k, w)  BY <1>5, <2>3
    <3> QED  BY <1>6, <1>7, <3>1, <3>2
  <2> QED  BY <2>2, <2>3
<1>9. facts' \subseteq FactRow(dim_date)'  BY <1>3, <1>4, <1>5
<1>10. today' \in 1..MaxDay /\ quoted' \in [M!Rail -> 0..MaxQuotes] /\ rotated' \in BOOLEAN /\ met' \subseteq M!Rail
  BY DEF MarketTyped, TablesTyped
<1> QED  BY <1>2, <1>8, <1>9, <1>10 DEF TablesTyped

LEMMA MorePlaces ==
    ASSUME NEW step, NEW local, NEW dates, NEW more, dates \subseteq more, Loaded(step, local, dates)
    PROVE  Loaded(step, local, more)
BY DEF Loaded, Dated

\* The places of all after a rail is over or a transaction is committed.
LEMMA SettleLoaded ==
    ASSUME MarketTyped, dim_date \subseteq dim_date', OrderInv', TablesTyped', NEW k \in Ingestor,
           mpc'[k] \in {"idle", "fetching", "logging"},
           \A j \in Ingestor \ {k} : \/ mpc'[j] = "raised"
                                     \/ mpc'[j] = mpc[j] /\ run'[j] = run[j]
    PROVE  MarketTyped'
<1>1. \A j \in Ingestor : Loaded(mpc[j], run[j], dim_date)  BY DEF MarketTyped
<1>2. \A j \in Ingestor : Loaded(mpc'[j], run'[j], dim_date')
  <2> TAKE j \in Ingestor
  <2>1. CASE mpc'[j] \in {"idle", "fetching", "logging", "raised"}  BY <2>1 DEF Loaded
  <2>2. CASE mpc'[j] = mpc[j] /\ run'[j] = run[j]
    <3>1. Loaded(mpc[j], run[j], dim_date')  BY <1>1, MorePlaces
    <3> QED  BY <2>2, <3>1
  <2> QED  BY <2>1, <2>2
<1> QED  BY <1>2 DEF MarketTyped

LEMMA CarriedStays ==
    ASSUME NEW k \in Ingestor, MarketTyped, mpc[k] = "writing", DOMAIN run[k].quotes # {}
    PROVE  /\ M!NextItem(k) \in DOMAIN run[k].quotes /\ M!NextItem(k) \in Items
           /\ run[k].quotes[M!NextItem(k)] \in M!Source
<1>1. run[k].rail \in M!Rail /\ InOrder(run[k]) /\ QuoteTypes  BY AllProper DEF MarketTyped, Proper, OrderInv
<1>2. M!NextItem(k) \in DOMAIN run[k].quotes  BY <1>1, NextIsFirst
<1>3. M!NextItem(k) \in M!ToSet(Instruments[run[k].rail])  BY <1>1, <1>2 DEF InOrder, M!ToSet
<1>4. Carried(run[k])  BY DEF MarketTyped, Loaded
<1> QED  BY <1>1, <1>2, <1>3, <1>4 DEF Items, Carried

LEMMA MarketFetch == ASSUME MarketTyped, NEW k \in Ingestor, M!Fetch(k), OrderInv' PROVE MarketTyped'
<1> DEFINE rail == run[k].rail
           quotes(requested, answers) == M!GapFill(rail, requested, answers)
<1>1. rail \in M!Rail /\ quoted[rail] < MaxQuotes /\ quoted' = [quoted EXCEPT ![rail] = @ + 1] /\ mpc[k] = "fetching"
  BY AllProper DEF MarketTyped, M!Fetch, Proper
<1>2. quoted' \in [M!Rail -> 0..MaxQuotes] /\ quoted'[rail] \in 1..MaxQuotes
  BY <1>1, BoundsAssumption DEF MarketTyped, TablesTyped
<1>3. UNCHANGED <<today, dim_date, facts, rotated>>  BY DEF M!Fetch, M!dbVars
<1>4. met' \subseteq M!Rail  BY <1>1 DEF MarketTyped, TablesTyped, M!Fetch, M!NextRail
<1>5. TablesTyped'  BY <1>2, <1>3, <1>4 DEF MarketTyped, TablesTyped, FactRow
<1>6. PICK requested \in M!Requests(rail), answers \in M!Answers(rail) :
         \/ M!NextRail(k, rail, run[k].only)
         \/ M!Goto(k, "dating", [run[k] EXCEPT !.quotes = quotes(requested, answers), !.at = quoted'[rail],
                                               !.usd = M!USD \in DOMAIN quotes(requested, answers)])
  BY DEF M!Fetch
<1>7. CASE M!NextRail(k, rail, run[k].only)  BY <1>3, <1>5, <1>7, NextRailLoaded
<1> DEFINE got == quotes(requested, answers)
           at == quoted'[rail]
           usd == M!USD \in DOMAIN got
           local == [run[k] EXCEPT !.quotes = got, !.at = at, !.usd = usd]
<1>8. CASE M!Goto(k, "dating", local)
  <2>1. \A item \in DOMAIN got : got[item] \in M!Source  BY <1>1, QuotesNamed
  <2>2. usd \in BOOLEAN /\ at \in 1..MaxQuotes  BY <1>2
  <2>3. Shaped(run[k]) /\ run[k].written = {}  BY <1>1, AllProper DEF MarketTyped, Proper
  <2> HIDE DEF got, at, usd
  <2>4. local.quotes = got /\ local.at = at /\ local.usd = usd /\ local.written = {}
    BY <2>3 DEF Shaped
  <2> HIDE DEF local
  <2>5. Loaded("dating", local, dim_date)  BY <2>1, <2>2, <2>4 DEF Loaded, Carried
  <2> QED  BY <1>3, <1>5, <1>8, <2>5, GotoLoaded
<1> QED  BY <1>6, <1>7, <1>8

LEMMA MarketWrite ==
    ASSUME MarketTyped, NEW k \in Ingestor, M!EnsureDimDate(k) \/ M!WriteItem(k) \/ M!RefuseItem(k), OrderInv'
    PROVE  MarketTyped'
<1>0. UNCHANGED <<today, quoted, dim_date, facts, rotated, met>>
  BY DEF M!EnsureDimDate, M!WriteItem, M!RefuseItem, M!dbVars
<1>1. TablesTyped' /\ Shaped(run[k])  BY <1>0, TablesStay, AllProper DEF MarketTyped, Proper
<1>2. CASE M!EnsureDimDate(k)
  <2> DEFINE dated == today \notin dim_date
             local == [run[k] EXCEPT !.day = today, !.dated = dated]
  <2>1. mpc[k] = "dating" /\ M!Goto(k, "writing", local)  BY <1>2 DEF M!EnsureDimDate
  <2>2. dated \in BOOLEAN /\ (dated \/ today \in dim_date)  OBVIOUS
  <2> HIDE DEF dated
  <2>3. /\ local.day = today /\ local.dated = dated /\ local.at = run[k].at /\ local.usd = run[k].usd
        /\ local.quotes = run[k].quotes /\ local.written = run[k].written
    BY <1>1 DEF Shaped
  <2> HIDE DEF local
  <2>4. Carried(run[k]) /\ today \in 1..MaxDay  BY <2>1 DEF MarketTyped, Loaded, TablesTyped
  <2>5. Loaded("writing", local, dim_date)  BY <2>2, <2>3, <2>4 DEF Loaded, Carried, Dated
  <2> QED  BY <1>0, <1>1, <2>1, <2>5, GotoLoaded
<1>3. CASE M!WriteItem(k)
  <2> DEFINE item == M!NextItem(k)
             rest == DOMAIN run[k].quotes \ {item}
             w == <<item, run[k].quotes[item]>>
             quotes == [j \in rest |-> run[k].quotes[j]]
             local == [run[k] EXCEPT !.written = @ \cup {w}, !.quotes = quotes]
  <2>1. mpc[k] = "writing" /\ DOMAIN run[k].quotes # {} /\ M!Goto(k, "writing", local)
    BY <1>3 DEF M!WriteItem
  <2>2. Carried(run[k]) /\ Dated(run[k], dim_date)  BY <2>1 DEF MarketTyped, Loaded
  <2>3. w \in Items \X M!Source  BY <2>1, CarriedStays
  <2>4. \A j \in DOMAIN quotes : quotes[j] \in M!Source  BY <2>2 DEF Carried
  <2> HIDE DEF w, quotes
  <2>5. /\ local.day = run[k].day /\ local.dated = run[k].dated /\ local.at = run[k].at /\ local.usd = run[k].usd
        /\ local.quotes = quotes /\ local.written = run[k].written \cup {w}
    BY <1>1 DEF Shaped
  <2> HIDE DEF local
  <2>6. Loaded("writing", local, dim_date)  BY <2>2, <2>3, <2>4, <2>5 DEF Loaded, Carried, Dated
  <2> QED  BY <1>0, <1>1, <2>1, <2>6, GotoLoaded
<1>4. CASE M!RefuseItem(k)
  <2> DEFINE rest == DOMAIN run[k].quotes \ {M!NextItem(k)}
             quotes == [j \in rest |-> run[k].quotes[j]]
             local == [run[k] EXCEPT !.quotes = quotes]
  <2>1. mpc[k] = "writing" /\ M!Goto(k, "writing", local)
    BY <1>4 DEF M!RefuseItem
  <2>2. Carried(run[k]) /\ Dated(run[k], dim_date)  BY <2>1 DEF MarketTyped, Loaded
  <2>4. \A j \in DOMAIN quotes : quotes[j] \in M!Source  BY <2>2 DEF Carried
  <2> HIDE DEF quotes
  <2>5. /\ local.day = run[k].day /\ local.dated = run[k].dated /\ local.at = run[k].at /\ local.usd = run[k].usd
        /\ local.quotes = quotes /\ local.written = run[k].written
    BY <1>1 DEF Shaped
  <2> HIDE DEF local
  <2>6. Loaded("writing", local, dim_date)  BY <2>2, <2>4, <2>5 DEF Loaded, Carried, Dated
  <2> QED  BY <1>0, <1>1, <2>1, <2>6, GotoLoaded
<1> QED  BY <1>2, <1>3, <1>4

LEMMA MarketCommit ==
    ASSUME MarketTyped, NEW k \in Ingestor,
           M!CommitWithLog(k) \/ M!LogRollsBack(k) \/ M!CommitCrypto(k) \/ M!LogCrypto(k), OrderInv'
    PROVE  MarketTyped'
<1>1. TablesTyped' /\ dim_date \subseteq dim_date'
  <2>1. CASE M!CommitRows(k) /\ mpc[k] = "writing" /\ UNCHANGED <<today, quoted, rotated, met>>
    BY <2>1, CommitTyped
  <2>2. CASE UNCHANGED <<today, quoted, dim_date, facts, rotated, met>>
    BY <2>2, TablesStay DEF MarketTyped
  <2> QED  BY <2>1, <2>2 DEF M!CommitWithLog, M!LogRollsBack, M!CommitCrypto, M!LogCrypto, M!Written, M!dbVars
<1>2. CASE M!CommitCrypto(k)
  <2>1. PICK losers \in SUBSET M!Losers(k) :
           /\ mpc' = [j \in Ingestor |-> IF j = k THEN "logging" ELSE IF j \in losers THEN "raised" ELSE mpc[j]]
           /\ run' = [j \in Ingestor |-> IF j \in losers THEN M!Undone(j) ELSE run[j]]
    BY <1>2 DEF M!CommitCrypto
  <2>2. mpc'[k] = "logging"  BY <2>1
  <2>3. \A j \in Ingestor \ {k} : mpc'[j] = "raised" \/ (mpc'[j] = mpc[j] /\ run'[j] = run[j])  BY <2>1
  <2> QED  BY <1>1, <2>2, <2>3, SettleLoaded
<1>3. CASE \E losers, refused : M!Settle(k, losers, refused)
  <2>1. PICK losers, refused : M!Settle(k, losers, refused)  BY <1>3
  <2>2. PICK next, local :
           /\ next \in {"idle", "fetching"}
           /\ mpc' = [j \in Ingestor |-> IF j = k THEN next ELSE IF j \in losers THEN "raised" ELSE mpc[j]]
           /\ run' = [j \in Ingestor |-> IF j = k THEN local ELSE IF j \in losers THEN M!Undone(j) ELSE run[j]]
    BY <2>1 DEF M!Settle
  <2>3. mpc'[k] \in {"idle", "fetching", "logging"}  BY <2>2
  <2>4. \A j \in Ingestor \ {k} : mpc'[j] = "raised" \/ (mpc'[j] = mpc[j] /\ run'[j] = run[j])  BY <2>2
  <2> QED  BY <1>1, <2>3, <2>4, SettleLoaded
<1> QED  BY <1>2, <1>3 DEF M!CommitWithLog, M!LogRollsBack, M!LogCrypto

LEMMA MarketTypedStays == ASSUME MarketTyped, [M!Next]_mVars PROVE MarketTyped'
<1>0. OrderInv'  BY OrderStays DEF MarketTyped
<1>1. CASE UNCHANGED mVars
  BY <1>0, <1>1 DEF MarketTyped, TablesTyped, FactRow, mVars
<1>2. CASE M!Midnight
  <2>1. /\ today < MaxDay /\ today' = today + 1 /\ UNCHANGED <<quoted, dim_date, facts, rotated, mpc, run, met>>
    BY <1>2 DEF M!Midnight, M!dbVars
  <2>2. today' \in 1..MaxDay  BY <2>1, BoundsAssumption DEF MarketTyped, TablesTyped
  <2> QED  BY <1>0, <2>1, <2>2 DEF MarketTyped, TablesTyped, FactRow
<1>3. CASE M!RotateSecret
  BY <1>0, <1>3 DEF MarketTyped, TablesTyped, FactRow, M!RotateSecret, M!dbVars
<1>4. ASSUME NEW k \in Ingestor,
             M!Begin(k) \/ M!FetchRaises(k) \/ M!StatementRaises(k) \/ M!LogError(k) \/ M!Abort(k)
      PROVE  MarketTyped'
  <2>1. UNCHANGED <<today, quoted, dim_date, facts, rotated, met>>
    BY <1>4 DEF M!Begin, M!FetchRaises, M!StatementRaises, M!LogError, M!Abort, M!dbVars
  <2>2. TablesTyped'  BY <2>1, TablesStay DEF MarketTyped
  <2>3. \/ \E rail, only : M!NextRail(k, rail, only)
        \/ \E step \in {"raised", "idle"} : \E local : M!Goto(k, step, local)
    BY <1>4, Zenon DEF M!Begin, M!FetchRaises, M!StatementRaises, M!LogError, M!Abort
  <2>4. \A step \in {"raised", "idle"} : \A local : Loaded(step, local, dim_date)  BY DEF Loaded
  <2> QED  BY <1>0, <2>1, <2>2, <2>3, <2>4, NextRailLoaded, GotoLoaded
<1>5. ASSUME NEW k \in Ingestor, M!Fetch(k) PROVE MarketTyped'  BY <1>0, <1>5, MarketFetch
<1> QED  BY <1>0, <1>1, <1>2, <1>3, <1>4, <1>5, MarketWrite, MarketCommit DEF M!Next, M!Ingest

LEMMA MarketsTyped == MarketTyped => M!TypeOK
BY DEF MarketTyped, TablesTyped, FactRow, Items, OrderInv, QuoteTypes, Steps, M!TypeOK

\* Each model keeps its types.
LEMMA PartsTyped ==
    /\ P!Spec => []P!TypeOK
    /\ W!Spec => []W!TypeOK
    /\ D!Spec => []D!TypeOK
    /\ C!Spec => []C!TypeOK
    /\ R!Spec => []R!TypeOK
    /\ M!Spec => []M!TypeOK
    /\ U!Spec => []U!TypeOK
<1>1. P!Spec => []P!TypeOK
  <2>1. ASSUME WriteTyped, [P!Next]_(P!vars) PROVE WriteTyped'
    BY <2>1, WriteTypedStays DEF P!vars, pVars
  <2> QED  BY <2>1, WriteTypedInit, WritesTyped, PTL DEF P!Spec
<1>2. W!Spec => []W!TypeOK
  <2>1. ASSUME WalkInv, [W!Next]_(W!vars) PROVE WalkInv'
    BY <2>1, WalkStep DEF W!vars, wVars
  <2> QED  BY <2>1, WalkInit, WalkTyped, PTL DEF W!Spec
<1>3. D!Spec => []D!TypeOK
  <2>1. ASSUME RunInv, [D!Next]_(D!vars) PROVE RunInv'
    BY <2>1, RunStep DEF D!vars, dVars
  <2> QED  BY <2>1, RunInit, RunsTyped, PTL DEF D!Spec
<1>4. C!Spec => []C!TypeOK
  <2>1. ASSUME HarvestTyped, [C!Next]_(C!vars) PROVE HarvestTyped'
    BY <2>1, HarvestTypedStays DEF C!vars, cVars
  <2> QED  BY <2>1, HarvestTypedInit, HarvestsTyped, PTL DEF C!Spec
<1>5. R!Spec => []R!TypeOK
  <2>1. ASSUME RotationInv, RotationTyped, [R!Next]_(R!vars) PROVE RotationInv' /\ RotationTyped'
    BY <2>1, RotationStep, RotationTypedStays DEF R!vars, rVars
  <2> QED  BY <2>1, RotationInit, RotationTypedInit, RotationsTyped, PTL DEF R!Spec
<1>6. M!Spec => []M!TypeOK
  <2>1. ASSUME MarketTyped, [M!Next]_(M!vars) PROVE MarketTyped'
    BY <2>1, MarketTypedStays DEF M!vars, M!dbVars, mVars
  <2> QED  BY <2>1, MarketTypedInit, MarketsTyped, PTL DEF M!Spec
<1>7. U!Spec => []U!TypeOK
  <2>1. ASSUME AccountTyped, [U!Next]_(U!vars) PROVE AccountTyped'
    BY <2>1, AccountTypedStays DEF U!vars, uVars
  <2> QED  BY <2>1, AccountTypedInit, AccountsTyped, PTL DEF U!Spec
<1> QED  BY <1>1, <1>2, <1>3, <1>4, <1>5, <1>6, <1>7

AllTyped ==
    /\ part = "write" => WriteTyped
    /\ part = "walk" => WalkInv
    /\ part = "discovery" => RunInv
    /\ part = "harvest" => HarvestTyped
    /\ part = "rotation" => RotationInv /\ RotationTyped
    /\ part \in MarketParts => MarketTyped
    /\ part \in UserParts => AccountTyped

\* Whatever overlaps, is refused or dies in them, the seven models keep their types, for all values of
\* the constants; among them that a quote of a day is stored once per provider and only for a day that has its
\* row (persist_forex, persist_crypto, persist_commodities and _ensure_dim_date write in transactions
\* that wait for each other's keys), and that a run harvests no more pages than its quota.
THEOREM StoreIsTyped ==
    /\ P!Spec => []P!TypeOK
    /\ W!Spec => []W!TypeOK
    /\ D!Spec => []D!TypeOK
    /\ C!Spec => []C!TypeOK
    /\ R!Spec => []R!TypeOK
    /\ M!Spec => []M!TypeOK
    /\ U!Spec => []U!TypeOK
    /\ MCSpec => []TypesOK
<1>1. MCInit => AllTyped
  BY WriteTypedInit, WalkInit, RunInit, HarvestTypedInit, RotationInit, RotationTypedInit, MarketTypedInit, AccountTypedInit
  DEF MCInit, AllTyped
<1>2. ASSUME AllTyped, [MCNext]_allVars PROVE AllTyped'
  <2>1. part' = part  BY <1>2, UserPart
  <2>2. part = "write" => WriteTyped'  BY <1>2, WritePart, WriteTypedStays DEF AllTyped
  <2>3. part = "walk" => WalkInv'  BY <1>2, WalkPart, WalkStep DEF AllTyped
  <2>4. part = "discovery" => RunInv'  BY <1>2, RunPart, RunStep DEF AllTyped
  <2>5. part = "harvest" => HarvestTyped'  BY <1>2, CursorPart, HarvestTypedStays DEF AllTyped
  <2>6. part = "rotation" => RotationInv' /\ RotationTyped'
    BY <1>2, RotationPart, RotationStep, RotationTypedStays DEF AllTyped
  <2>7. part \in MarketParts => MarketTyped'  BY <1>2, MarketPart, MarketTypedStays DEF AllTyped
  <2>8. part \in UserParts => AccountTyped'  BY <1>2, UserPart, AccountTypedStays DEF AllTyped
  <2> QED  BY <2>1, <2>2, <2>3, <2>4, <2>5, <2>6, <2>7, <2>8 DEF AllTyped
<1>3. AllTyped => TypesOK
  BY WritesTyped, WalkTyped, RunsTyped, HarvestsTyped, RotationsTyped, MarketsTyped, AccountsTyped DEF AllTyped, TypesOK
<1>4. MCSpec => []TypesOK  BY <1>1, <1>2, <1>3, PTL DEF MCSpec, allVars
<1> QED  BY <1>4, PartsTyped
=============================================================================
