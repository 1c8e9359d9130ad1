-------------------------- MODULE BoundedReviewProofs --------------------------
(***************************************************************************)
(* Theorems about the two ends of a bounded review.                        *)
(*                                                                         *)
(* ReviewPartition, for any diff, records, hunks, groups and limits:       *)
(* FitsIffCoverable, ScanNeverRefuses, PlanCovers, NeverRefusesTheFeasible.*)
(* The farthest legal end is the last one within reach (FarthestIs), who   *)
(* starts farther reaches farther (FartherMonotone), so the walk of fits() *)
(* stays ahead of every choice of ends.  IInv says of the ranges that are  *)
(* merged one by one that they ascend, fit a unit and lose no group, and   *)
(* of the scan that the units left can still cover the tail.               *)
(*                                                                         *)
(* RevisionGateway, for any set of revisions: GatewayTypes,                *)
(* SuccessIsProviders, FailedNeverPublished, ReportAboutLive.  Its three   *)
(* safety properties are not inductive: what the check and the public      *)
(* directory say was decided many steps earlier, by the ending of the one  *)
(* request.  Inv follows that ending from the request to the report: a     *)
(* review ends once (Ending), its packet is the only answer of the         *)
(* provider (OneAnswer), and a collector that was released, a collected    *)
(* result and a verdict under verification each stand for a review that    *)
(* is done and did not fail (Passed).                                      *)
(***************************************************************************)
EXTENDS ReviewPartition, RevisionGateway, WellFoundedInduction, TLAPS


-----------------------------------------------------------------------------
(* Naturals and walks *)

\* The order of the naturals as a relation that is well founded.
LEMMA NatOrder ==
    \E R : IsWellFoundedOn(R, Nat) /\ \A x, y \in Nat : <<x, y>> \in R <=> x < y
<1> DEFINE R == OpToRel(<, Nat)
<1>1. IsWellFoundedOn(R, Nat)
    BY NatLessThanWellFounded
<1>2. \A x \in Nat, y \in Nat : <<x, y>> \in R <=> x < y
    BY DEF OpToRel
<1> HIDE DEF R
<1> QED
    BY <1>1, <1>2, Zenon

\* A set of naturals that is not empty has a least member.
LEMMA Least ==
    ASSUME NEW T, T \subseteq Nat, T # {}
    PROVE  \E m \in T : \A k \in T : m <= k
<1>1. PICK R : IsWellFoundedOn(R, Nat) /\ \A x, y \in Nat : <<x, y>> \in R <=> x < y
    BY NatOrder
<1>2. IsWellFoundedOn(R, Nat)
    BY <1>1
<1>3. PICK m \in T : \A y \in T : ~(<<y, m>> \in R)
    BY <1>2, WFMin, Zenon
<1>4. \A y \in T : ~(y < m)
    BY <1>1, <1>3
<1> QED
    BY <1>3, <1>4

\* Induction over a set of naturals.
LEMMA Induct ==
    ASSUME NEW S, 0 \in S, \A n \in Nat : n \in S => n + 1 \in S
    PROVE  Nat \subseteq S
<1> DEFINE T == {n \in Nat : n \notin S}
<1> SUFFICES ASSUME T # {} PROVE FALSE
    OBVIOUS
<1>1. PICK m \in T : \A k \in T : m <= k
    BY Least
<1>2. m - 1 \in Nat /\ m - 1 \notin T
    BY <1>1
<1> QED
    BY <1>1, <1>2

\* Min() and Max() of sets that have one.
LEMMA MinOf ==
    ASSUME NEW S, S \subseteq Nat, S # {}
    PROVE  Min(S) \in S /\ \A k \in S : Min(S) <= k
    BY Least DEF Min

LEMMA MaxOf ==
    ASSUME NEW S, S # {}, NEW top \in Nat, S \subseteq 0 .. top
    PROVE  Max(S) \in S /\ \A k \in S : k <= Max(S)
<1> DEFINE T == {top - k : k \in S}
<1>1. \A k \in S : k \in Nat /\ top - k \in Nat
    OBVIOUS
<1>2. T \subseteq Nat /\ T # {}
    BY <1>1
<1>3. PICK m \in T : \A k \in T : m <= k
    BY <1>2, Least
<1>4. PICK j \in S : m = top - j
    OBVIOUS
<1>5. \A k \in S : top - j <= top - k
    BY <1>3, <1>4
<1>6. \A k \in S : j >= k
    BY <1>1, <1>5
<1> QED
    BY <1>6 DEF Max

\* The recursive function of fits() exists: every turn has its value, and two
\* chains of turns agree.
LEMMA WalkRecursion ==
    ASSUME NEW p \in 0 .. Size, Size \in Nat,
           \A q \in 0 .. Size : Farther(q) \in 0 .. Size
    PROVE  /\ Walk(p) \in [Nat -> 0 .. Size]
           /\ Walk(p)[0] = p
           /\ \A k \in Nat : Walk(p)[k + 1] = Farther(Walk(p)[k])
<1> DEFINE Chain(n) == {f \in [0 .. n -> 0 .. Size] :
                            f[0] = p /\ \A k \in 1 .. n : f[k] = Farther(f[k - 1])}
           S == {n \in Nat : Chain(n) # {}}
<1>1. 0 \in S
  <2>1. [k \in 0 .. 0 |-> p] \in Chain(0)
    OBVIOUS
  <2> QED
    BY <2>1
<1>2. ASSUME NEW n \in S PROVE n + 1 \in S
  <2>1. n \in Nat /\ \E f \in Chain(n) : TRUE
    BY <1>2
  <2> PICK f \in Chain(n) : TRUE
    BY <2>1
  <2> DEFINE g == [k \in 0 .. (n + 1) |-> IF k = n + 1 THEN Farther(f[n]) ELSE f[k]]
  <2>2. f \in [0 .. n -> 0 .. Size] /\ f[0] = p /\ \A k \in 1 .. n : f[k] = Farther(f[k - 1])
    BY <2>1
  <2>3. g \in [0 .. (n + 1) -> 0 .. Size]
    <3>1. Farther(f[n]) \in 0 .. Size
        BY <2>1, <2>2
    <3>2. \A k \in 0 .. (n + 1) : k # n + 1 => f[k] \in 0 .. Size
        <4>1. \A k \in 0 .. (n + 1) : k # n + 1 => k \in 0 .. n
            BY <2>1
        <4> QED
            BY <4>1, <2>2
    <3> QED
        BY <3>1, <3>2
  <2>4. g[0] = p
    BY <2>1, <2>2
  <2>5. \A k \in 1 .. (n + 1) : g[k] = Farther(g[k - 1])
    <3> TAKE k \in 1 .. (n + 1)
    <3>1. CASE k = n + 1
        <4>1. g[k] = Farther(f[n]) /\ g[k - 1] = f[n]
            BY <2>1, <3>1
        <4> QED
            BY <4>1
    <3>2. CASE k # n + 1
        <4>1. k \in 1 .. n /\ g[k] = f[k] /\ g[k - 1] = f[k - 1]
            BY <2>1, <3>2
        <4> QED
            BY <4>1, <2>2
    <3> QED
        BY <3>1, <3>2
  <2>6. g \in Chain(n + 1)
    BY <2>3, <2>4, <2>5
  <2> HIDE DEF Chain, g
  <2>7. n + 1 \in Nat /\ Chain(n + 1) # {}
    BY <2>1, <2>6
  <2> QED
    BY <2>7
<1>3. \A n \in Nat : Chain(n) # {}
  <2> HIDE DEF Chain
  <2>1. \A n \in Nat : n \in S => n + 1 \in S
    BY <1>2
  <2>2. Nat \subseteq S
    BY <1>1, <2>1, Induct
  <2> QED
    BY <2>2
<1> DEFINE F(n) == CHOOSE f \in Chain(n) : TRUE
           walk == [n \in Nat |-> F(n)[n]]
<1>4. \A n \in Nat : /\ F(n) \in [0 .. n -> 0 .. Size]
                     /\ F(n)[0] = p /\ \A k \in 1 .. n : F(n)[k] = Farther(F(n)[k - 1])
  <2>1. \A n \in Nat : F(n) \in Chain(n)
    BY <1>3
  <2> QED
    BY <2>1
<1>5. \A n \in Nat : \A k \in 0 .. n : F(n + 1)[k] = F(n)[k]
  <2> TAKE n \in Nat
  <2> DEFINE A == {k \in Nat : k <= n => F(n + 1)[k] = F(n)[k]}
  <2> HIDE DEF F
  <2>1. 0 \in A
    <3>1. n + 1 \in Nat
        OBVIOUS
    <3> QED
        BY <3>1, <1>4
  <2>2. \A k \in Nat : k \in A => k + 1 \in A
    <3> TAKE k \in Nat
    <3> SUFFICES ASSUME k \in A, k + 1 <= n PROVE F(n + 1)[k + 1] = F(n)[k + 1]
        OBVIOUS
    <3>1. F(n + 1)[k] = F(n)[k]
        OBVIOUS
    <3>2. k + 1 \in 1 .. n /\ k + 1 \in 1 .. (n + 1) /\ (k + 1) - 1 = k /\ n + 1 \in Nat
        OBVIOUS
    <3> QED
        BY <1>4, <3>1, <3>2
  <2> HIDE DEF A
  <2>3. Nat \subseteq A
    BY <2>1, <2>2, Induct
  <2> QED
    BY <2>3 DEF A
<1>6. /\ walk \in [Nat -> 0 .. Size] /\ walk[0] = p
      /\ \A k \in Nat : walk[k + 1] = Farther(walk[k])
  <2> HIDE DEF F
  <2>1. \A n \in Nat : F(n)[n] \in 0 .. Size
    BY <1>4
  <2>2. \A k \in Nat : F(k + 1)[k + 1] = Farther(F(k + 1)[k]) /\ F(k + 1)[k] = F(k)[k]
    <3> TAKE k \in Nat
    <3>1. k + 1 \in Nat /\ k + 1 \in 1 .. (k + 1) /\ (k + 1) - 1 = k /\ k \in 0 .. k
        OBVIOUS
    <3> QED
        BY <3>1, <1>4, <1>5
  <2>3. walk[0] = p
    BY <1>4
  <2> QED
    BY <2>1, <2>2, <2>3
<1>7. walk = [k \in Nat |-> IF k = 0 THEN p ELSE Farther(walk[k - 1])]
  <2> HIDE DEF walk
  <2>1. \A k \in Nat : walk[k] = IF k = 0 THEN p ELSE Farther(walk[k - 1])
    <3> TAKE k \in Nat
    <3>1. CASE k = 0
        BY <3>1, <1>6
    <3>2. CASE k # 0
      <4>1. k - 1 \in Nat /\ (k - 1) + 1 = k
        BY <3>2
      <4> QED
        BY <3>2, <4>1, <1>6
    <3> QED
        BY <3>1, <3>2
  <2> QED
    BY <2>1, <1>6
<1> HIDE DEF walk
<1>8. Walk(p) = [k \in Nat |-> IF k = 0 THEN p ELSE Farther(Walk(p)[k - 1])]
    BY <1>7, Zenon DEF Walk
<1>9. Walk(p)[0] = p /\ \A k \in Nat : Walk(p)[k + 1] = Farther(Walk(p)[k])
  <2> DEFINE w == Walk(p)
  <2> HIDE DEF w
  <2>1. w = [k \in Nat |-> IF k = 0 THEN p ELSE Farther(w[k - 1])]
    BY <1>8 DEF w
  <2>2. \A k \in Nat : k + 1 \in Nat /\ k + 1 # 0 /\ (k + 1) - 1 = k
    OBVIOUS
  <2> QED
    BY <2>1, <2>2 DEF w
<1> QED
  <2> DEFINE S2 == {n \in Nat : Walk(p)[n] \in 0 .. Size}
  <2>1. 0 \in S2 /\ \A n \in Nat : n \in S2 => n + 1 \in S2
    BY <1>9
  <2> HIDE DEF S2
  <2>2. Nat \subseteq S2
    BY <2>1, Induct
  <2>3. \A n \in Nat : Walk(p)[n] \in 0 .. Size
    BY <2>2 DEF S2
  <2>4. Walk(p) \in [Nat -> 0 .. Size]
    BY <1>8, <2>3, Zenon
  <2> QED
    BY <1>9, <2>4

-----------------------------------------------------------------------------
(* farthest() and fits() *)

\* An end or a start that splits neither a character nor an indivisible range.
Legal(p) == p \in 0 .. Size /\ ~Continues(p) /\ ~Inside(p)

\* What inventory() and text() promise of the diff.
DiffOK == payload \in Seq(Byte) /\ Size \in Nat \ {0} /\ ~Continues(0)

\* A range of groups begins and ends between characters, inside the diff.
Sound(r) ==
    /\ r \in Range0 /\ r.start < r.end /\ r.end <= Size
    /\ ~Continues(r.start) /\ ~Continues(r.end)

\* merged_ranges ascend, do not overlap and fit a unit.
MergedOK ==
    /\ merged \in Seq(Range0)
    /\ \A i \in DOMAIN merged : Sound(merged[i]) /\ merged[i].end - merged[i].start <= MaxUnitBytes
    /\ \A i, j \in DOMAIN merged : i < j => merged[i].end <= merged[j].start

Limit(p) == Min({p + MaxUnitBytes, Size})
Outside(p) ==
    IF Inside(Limit(p))
    THEN merged[CHOOSE i \in DOMAIN merged : Splits(merged[i], Limit(p))].start
    ELSE Limit(p)
Ends(p) == {0} \union {e \in 0 .. Outside(p) : ~Continues(e)}

\* farthest() in the terms of its three steps.
LEMMA FarthestDef ==
    ASSUME NEW p
    PROVE  Farthest(p) = Max(Ends(p))
    BY DEF Farthest, Limit, Outside, Ends

\* min(start + MAX_UNIT_BYTES, len(payload)).
LEMMA LimitIs ==
    ASSUME Size \in Nat, NEW p \in 0 .. Size
    PROVE  /\ Limit(p) \in p .. Size /\ Limit(p) <= p + MaxUnitBytes
           /\ \A q \in 0 .. Size : q <= p + MaxUnitBytes => q <= Limit(p)
<1>1. p + MaxUnitBytes \in Nat /\ p + MaxUnitBytes >= p /\ p <= Size
    BY PartitionAssumption
<1>2. {p + MaxUnitBytes, Size} \subseteq Nat /\ {p + MaxUnitBytes, Size} # {}
    BY <1>1
<1>3. /\ Limit(p) \in {p + MaxUnitBytes, Size}
      /\ Limit(p) <= p + MaxUnitBytes /\ Limit(p) <= Size
    BY <1>2, MinOf DEF Limit
<1> QED
    BY <1>1, <1>3

\* Where the loop over the groups leaves the limit.
LEMMA OutsideIs ==
    ASSUME DiffOK, MergedOK, NEW p \in 0 .. Size
    PROVE  /\ Outside(p) \in 0 .. Limit(p)
           /\ \/ Outside(p) = Limit(p) /\ ~Inside(Limit(p))
              \/ \E i \in DOMAIN merged : Splits(merged[i], Limit(p)) /\ Outside(p) = merged[i].start
<1>1. Limit(p) \in Nat /\ Size \in Nat
    BY LimitIs DEF DiffOK
<1>2. CASE Inside(Limit(p))
  <2>1. PICK i \in DOMAIN merged : Splits(merged[i], Limit(p)) /\ Outside(p) = merged[i].start
    BY <1>2 DEF Outside, Inside
  <2>2. merged[i].start \in Nat /\ merged[i].start < Limit(p)
    BY <2>1 DEF MergedOK, Sound, Splits, Range0
  <2> QED
    BY <1>1, <2>1, <2>2
<1>3. CASE ~Inside(Limit(p))
    BY <1>1, <1>3 DEF Outside
<1> QED
    BY <1>2, <1>3

\* Where the loop over continuation bytes stops.
LEMMA FarthestInEnds ==
    ASSUME DiffOK, MergedOK, NEW p \in 0 .. Size
    PROVE  /\ Farthest(p) \in 0 .. Outside(p) /\ ~Continues(Farthest(p))
           /\ \A e \in 0 .. Outside(p) : ~Continues(e) => e <= Farthest(p)
<1>1. Outside(p) \in Nat
    BY OutsideIs, LimitIs DEF DiffOK
<1>2. Ends(p) \subseteq 0 .. Outside(p) /\ Ends(p) # {}
    BY <1>1 DEF Ends
<1>3. Farthest(p) \in Ends(p) /\ \A e \in Ends(p) : e <= Farthest(p)
    BY <1>1, <1>2, MaxOf, FarthestDef
<1> QED
    BY <1>1, <1>2, <1>3 DEF Ends, DiffOK

\* farthest() stops at the last end that is legal within MAX_UNIT_BYTES.
LEMMA FarthestIs ==
    ASSUME DiffOK, MergedOK, NEW p, Legal(p)
    PROVE  /\ Farthest(p) \in p .. Size /\ Farthest(p) <= p + MaxUnitBytes
           /\ Legal(Farthest(p))
           /\ \A q : Legal(q) /\ q <= p + MaxUnitBytes => q <= Farthest(p)
<1> DEFINE end == Farthest(p)
<1>0. p \in 0 .. Size /\ Size \in Nat
    BY DEF Legal, DiffOK
<1>1. Limit(p) \in p .. Size /\ Limit(p) <= p + MaxUnitBytes
    BY <1>0, LimitIs
<1>2. Outside(p) \in p .. Limit(p)
  <2>1. ASSUME NEW i \in DOMAIN merged, Splits(merged[i], Limit(p))
        PROVE  p <= merged[i].start
    <3>1. ~(merged[i].start < p /\ p < merged[i].end)
        BY DEF Legal, Inside, Splits
    <3>2. merged[i].start \in Nat /\ merged[i].end \in Nat /\ Limit(p) < merged[i].end
        BY <2>1 DEF MergedOK, Sound, Range0, Splits
    <3> QED
        BY <1>0, <1>1, <3>1, <3>2
  <2> QED
    BY <1>0, <1>1, <2>1, OutsideIs
<1>3. end \in 0 .. Outside(p) /\ ~Continues(end) /\ \A e \in 0 .. Outside(p) : ~Continues(e) => e <= end
    BY <1>0, FarthestInEnds
<1> HIDE DEF end
<1>4. end \in p .. Size /\ end <= p + MaxUnitBytes
  <2>1. ~Continues(p)
    BY DEF Legal
  <2>2. p <= end
    BY <1>0, <1>2, <1>3, <2>1
  <2> QED
    BY <1>0, <1>1, <1>2, <1>3, <2>2, PartitionAssumption
<1>5. \A i \in DOMAIN merged : /\ merged[i].start \in Nat /\ merged[i].end \in Nat
                               /\ merged[i].start < merged[i].end
                               /\ ~Continues(merged[i].start) /\ ~Continues(merged[i].end)
    BY DEF MergedOK, Sound, Range0
<1>6. ~Inside(end)
  <2> SUFFICES ASSUME NEW j \in DOMAIN merged, merged[j].start < end, end < merged[j].end
               PROVE  FALSE
    BY DEF Inside, Splits
  <2>1. CASE Outside(p) = Limit(p) /\ ~Inside(Limit(p))
    <3>1. ~(merged[j].start < Limit(p) /\ Limit(p) < merged[j].end)
        BY <2>1 DEF Inside, Splits
    <3>2. merged[j].end \in 0 .. Outside(p)
        BY <3>1, <1>0, <1>1, <1>3, <1>5, <2>1
    <3> QED
        BY <3>2, <1>3, <1>4, <1>5
  <2>2. ASSUME NEW i \in DOMAIN merged, Splits(merged[i], Limit(p)), Outside(p) = merged[i].start
        PROVE  FALSE
    <3>1. end = merged[i].start
        BY <1>3, <1>4, <1>5, <1>2, <2>2
    <3>2. i = j \/ merged[i].end <= merged[j].start \/ merged[j].end <= merged[i].start
        <4>1. i \in Nat /\ j \in Nat
            BY DEF MergedOK
        <4>2. i < j \/ j < i \/ i = j
            BY <4>1
        <4> QED
            BY <4>2 DEF MergedOK
    <3> QED
        BY <3>1, <3>2, <1>5
  <2> QED
    BY <1>0, <2>1, <2>2, OutsideIs
<1>7. ASSUME NEW q, Legal(q), q <= p + MaxUnitBytes PROVE q <= end
  <2>1. q \in 0 .. Size /\ ~Continues(q) /\ ~Inside(q)
    BY <1>7 DEF Legal
  <2>2. q <= Limit(p)
    BY <2>1, <1>0, <1>7, LimitIs
  <2>3. CASE q <= Outside(p)
    BY <2>1, <2>3, <1>3, <1>2, <1>0
  <2>4. CASE ~(q <= Outside(p))
    <3>1. PICK i \in DOMAIN merged : Splits(merged[i], Limit(p)) /\ Outside(p) = merged[i].start
        BY <2>2, <2>4, <1>0, OutsideIs
    <3>2. merged[i].start < q /\ q < merged[i].end
        BY <3>1, <2>1, <2>2, <2>4, <1>0, <1>1, <1>5 DEF Splits
    <3> QED
        BY <3>2, <2>1 DEF Inside, Splits
  <2> QED
    BY <2>3, <2>4
<1> QED
    BY <1>0, <1>3, <1>4, <1>6, <1>7 DEF Legal, end

\* Any offset of the walk is an offset of the diff.
LEMMA FartherInDiff ==
    ASSUME DiffOK, MergedOK, NEW q \in 0 .. Size
    PROVE  Farther(q) \in 0 .. Size
<1>1. Size \in Nat /\ Farthest(q) \in 0 .. Size
  <2>1. Size \in Nat
    BY DEF DiffOK
  <2>2. Limit(q) \in q .. Size /\ Outside(q) \in 0 .. Limit(q) /\ Farthest(q) \in 0 .. Outside(q)
    BY <2>1, LimitIs, OutsideIs, FarthestInEnds
  <2> QED
    BY <2>1, <2>2
<1>2. {q, Farthest(q)} \subseteq 0 .. Size /\ {q, Farthest(q)} # {}
    BY <1>1
<1>3. Max({q, Farthest(q)}) \in 0 .. Size
    BY <1>1, <1>2, MaxOf
<1> QED
    BY <1>3 DEF Farther

\* On a legal offset one turn of fits() is farthest().
LEMMA FartherIs ==
    ASSUME DiffOK, MergedOK, NEW p, Legal(p)
    PROVE  /\ Farther(p) = Farthest(p)
           /\ Farther(p) \in p .. Size /\ Farther(p) <= p + MaxUnitBytes
           /\ Legal(Farther(p))
           /\ \A q : Legal(q) /\ q <= p + MaxUnitBytes => q <= Farther(p)
<1>1. p \in 0 .. Size /\ Size \in Nat
    BY DEF Legal, DiffOK
<1>2. Farthest(p) \in p .. Size
    BY FarthestIs
<1>3. Farther(p) = Farthest(p)
  <2>1. CASE p = Size
    BY <1>1, <1>2, <2>1 DEF Farther
  <2>2. CASE p # Size
    <3>1. {p, Farthest(p)} \subseteq 0 .. Size /\ {p, Farthest(p)} # {}
        BY <1>1, <1>2
    <3>2. Max({p, Farthest(p)}) \in {p, Farthest(p)} /\ Max({p, Farthest(p)}) >= Farthest(p)
        BY <1>1, <1>2, <3>1, MaxOf
    <3>3. Max({p, Farthest(p)}) = Farthest(p)
        BY <1>1, <1>2, <3>2
    <3> QED
        BY <2>2, <3>3 DEF Farther
  <2> QED
    BY <2>1, <2>2
<1> QED
    BY <1>3, FarthestIs

\* Who starts farther reaches farther.
LEMMA FartherMonotone ==
    ASSUME DiffOK, MergedOK, NEW p, Legal(p), NEW q, Legal(q), p <= q
    PROVE  Farther(p) <= Farther(q)
<1>1. p \in 0 .. Size /\ q \in 0 .. Size /\ Size \in Nat
    BY DEF Legal, DiffOK
<1>2. /\ Farther(p) \in p .. Size /\ Farther(p) <= p + MaxUnitBytes /\ Legal(Farther(p))
      /\ Farther(q) \in q .. Size
    BY FartherIs
<1>3. Farther(p) <= q + MaxUnitBytes
    BY <1>1, <1>2, PartitionAssumption
<1> QED
    BY <1>2, <1>3, FartherIs

\* The turns of fits().
LEMMA WalkIs ==
    ASSUME DiffOK, MergedOK, NEW p, Legal(p)
    PROVE  /\ Walk(p)[0] = p
           /\ \A k \in Nat : Walk(p)[k + 1] = Farther(Walk(p)[k])
           /\ \A k \in Nat : Legal(Walk(p)[k])
<1>1. Size \in Nat /\ p \in 0 .. Size
    BY DEF DiffOK, Legal
<1>2. \A q \in 0 .. Size : Farther(q) \in 0 .. Size
    BY FartherInDiff
<1>3. Walk(p)[0] = p /\ \A k \in Nat : Walk(p)[k + 1] = Farther(Walk(p)[k])
    BY <1>1, <1>2, WalkRecursion
<1> DEFINE S == {k \in Nat : Legal(Walk(p)[k])}
<1>4. 0 \in S /\ \A k \in Nat : k \in S => k + 1 \in S
    BY <1>3, FartherIs
<1> HIDE DEF S
<1>5. Nat \subseteq S
    BY <1>4, Induct
<1> QED
    BY <1>3, <1>5 DEF S

\* The walk after its first turn is the walk from there.
LEMMA WalkShift ==
    ASSUME DiffOK, MergedOK, NEW p, Legal(p)
    PROVE  \A k \in Nat : Walk(p)[k + 1] = Walk(Farther(p))[k]
<1> DEFINE S == {k \in Nat : Walk(p)[k + 1] = Walk(Farther(p))[k]}
<1>1. Legal(Farther(p))
    BY FartherIs
<1>2. /\ Walk(p)[0] = p /\ \A k \in Nat : Walk(p)[k + 1] = Farther(Walk(p)[k])
      /\ Walk(Farther(p))[0] = Farther(p)
      /\ \A k \in Nat : Walk(Farther(p))[k + 1] = Farther(Walk(Farther(p))[k])
    BY <1>1, WalkIs
<1>3. 0 \in S
  <2>1. Walk(p)[0 + 1] = Farther(Walk(p)[0])
    BY <1>2
  <2> QED
    BY <1>2, <2>1
<1>4. ASSUME NEW k \in Nat, k \in S PROVE k + 1 \in S
  <2>1. k + 1 \in Nat
    OBVIOUS
  <2>2. Walk(p)[(k + 1) + 1] = Farther(Walk(p)[k + 1])
    BY <1>2, <2>1
  <2> QED
    BY <1>2, <1>4, <2>1, <2>2
<1> HIDE DEF S
<1>5. Nat \subseteq S
    BY <1>3, <1>4, Induct
<1> QED
    BY <1>5 DEF S

\* A walk that does not move never moves again.
LEMMA WalkStays ==
    ASSUME DiffOK, MergedOK, NEW p, Legal(p), NEW j \in Nat, Walk(p)[j + 1] = Walk(p)[j]
    PROVE  \A k \in Nat : k >= j => Walk(p)[k] = Walk(p)[j]
<1> DEFINE S == {k \in Nat : Walk(p)[j + k] = Walk(p)[j]}
<1>1. \A k \in Nat : Walk(p)[k + 1] = Farther(Walk(p)[k])
    BY WalkIs
<1>2. 0 \in S
    OBVIOUS
<1>3. ASSUME NEW k \in Nat, k \in S PROVE k + 1 \in S
  <2>1. j + k \in Nat /\ (j + k) + 1 = j + (k + 1)
    OBVIOUS
  <2>2. Walk(p)[j + (k + 1)] = Farther(Walk(p)[j])
    BY <1>1, <1>3, <2>1
  <2>3. Walk(p)[j + 1] = Farther(Walk(p)[j])
    BY <1>1
  <2> QED
    BY <2>2, <2>3
<1> HIDE DEF S
<1>4. Nat \subseteq S
    BY <1>2, <1>3, Induct
<1>5. ASSUME NEW k \in Nat, k >= j PROVE Walk(p)[k] = Walk(p)[j]
  <2>1. k - j \in Nat /\ j + (k - j) = k
    BY <1>5
  <2>2. k - j \in S
    BY <1>4, <2>1
  <2> QED
    BY <2>1, <2>2 DEF S
<1> QED
    BY <1>5

\* Once at the end of the diff the walk stays there.
LEMMA WalkEnds ==
    ASSUME DiffOK, MergedOK, NEW p, Legal(p), NEW j \in Nat, Walk(p)[j] = Size
    PROVE  \A k \in Nat : k >= j => Walk(p)[k] = Size
<1>1. Walk(p)[j + 1] = Walk(p)[j]
    BY WalkIs DEF Farther
<1> QED
    BY <1>1, WalkStays

\* The reference's ends are the legal offsets after the first byte.
LEMMA LegalEndIs ==
    ASSUME DiffOK, MergedOK, NEW q
    PROVE  /\ LegalEnd(q) <=> Legal(q) /\ q >= 1
           /\ Legal(0) /\ Legal(Size)
<1>1. Size \in Nat /\ Size >= 1 /\ ~Continues(0) /\ ~Continues(Size)
    BY DEF DiffOK, Continues
<1>2. ~Inside(Size) /\ ~Inside(0)
    BY DEF MergedOK, Sound, Range0, Inside, Splits, DiffOK
<1>3. Legal(0) /\ Legal(Size)
    BY <1>1, <1>2 DEF Legal
<1>4. LegalEnd(q) => Legal(q) /\ q >= 1
    BY <1>1, <1>3 DEF Legal, LegalEnd
<1>5. Legal(q) /\ q >= 1 => LegalEnd(q)
    BY <1>1 DEF Legal, LegalEnd
<1> QED
    BY <1>3, <1>4, <1>5

\* The size of a unit.
LEMMA UnitSize ==
    ASSUME NEW a \in Nat, NEW b \in Nat
    PROVE  b - a \in 1 .. MaxUnitBytes <=> a < b /\ b <= a + MaxUnitBytes
    BY PartitionAssumption

\* No choice of ends gets farther in as many units than the farthest ends.
LEMMA CoverableFits ==
    ASSUME DiffOK, MergedOK, NEW p, Legal(p), NEW n \in Nat, Coverable(p, n)
    PROVE  Fits(p, n)
<1>0. PICK m \in 0 .. n :
        \E ends \in [1 .. m -> {q \in (p + 1) .. Size : LegalEnd(q)}] : Covers(ends, p)
    BY DEF Coverable
<1>1. PICK ends \in [1 .. m -> {q \in (p + 1) .. Size : LegalEnd(q)}] : Covers(ends, p)
    BY <1>0
<1>2. m \in Nat /\ DOMAIN ends = 1 .. m /\ Len(ends) = m
    BY <1>1
<1>3. /\ From(ends, p, m + 1) = Size
      /\ \A i \in 1 .. m : LegalEnd(ends[i]) /\ ends[i] - From(ends, p, i) \in 1 .. MaxUnitBytes
    BY <1>1, <1>2 DEF Covers
<1>4. \A i \in 1 .. m : Legal(ends[i]) /\ ends[i] \in Nat
    BY <1>3, LegalEndIs DEF Legal
<1>5. p \in Nat /\ Size \in Nat
    BY DEF Legal, DiffOK
<1>6. \A i \in 1 .. (m + 1) : Legal(From(ends, p, i)) /\ From(ends, p, i) \in Nat
  <2> TAKE i \in 1 .. (m + 1)
  <2>1. CASE i = 1
    BY <2>1, <1>5 DEF From
  <2>2. CASE i # 1
    <3>1. i - 1 \in 1 .. m /\ From(ends, p, i) = ends[i - 1]
        BY <2>2, <1>2 DEF From
    <3> QED
        BY <3>1, <1>4
  <2> QED
    BY <2>1, <2>2
<1>7. /\ Walk(p)[0] = p /\ \A k \in Nat : Walk(p)[k + 1] = Farther(Walk(p)[k])
      /\ \A k \in Nat : Legal(Walk(p)[k])
    BY WalkIs
<1> DEFINE S == {k \in Nat : k <= m => From(ends, p, k + 1) <= Walk(p)[k]}
<1>8. 0 \in S
  <2>1. From(ends, p, 0 + 1) = p /\ p <= p
    BY <1>5 DEF From
  <2> QED
    BY <2>1, <1>7
<1>9. ASSUME NEW k \in Nat, k \in S PROVE k + 1 \in S
  <2> SUFFICES ASSUME k + 1 <= m PROVE From(ends, p, (k + 1) + 1) <= Walk(p)[k + 1]
    OBVIOUS
  <2>1. k + 1 \in 1 .. m /\ k + 1 \in 1 .. (m + 1) /\ k <= m
    BY <1>2
  <2>2. From(ends, p, (k + 1) + 1) = ends[k + 1]
    BY DEF From
  <2>3. From(ends, p, k + 1) <= Walk(p)[k]
    BY <1>9, <2>1
  <2>4. ends[k + 1] <= From(ends, p, k + 1) + MaxUnitBytes
    <3>1. ends[k + 1] \in Nat /\ From(ends, p, k + 1) \in Nat
        BY <1>4, <1>6, <2>1
    <3> QED
        BY <1>3, <2>1, <3>1, UnitSize
  <2>5. ends[k + 1] <= Farther(From(ends, p, k + 1))
    BY <1>4, <1>6, <2>1, <2>4, FartherIs
  <2>6. Farther(From(ends, p, k + 1)) <= Farther(Walk(p)[k])
    BY <1>6, <1>7, <2>1, <2>3, FartherMonotone
  <2>7. Farther(From(ends, p, k + 1)) \in Nat /\ Farther(Walk(p)[k]) \in Nat
    <3>1. Legal(Farther(From(ends, p, k + 1))) /\ Legal(Farther(Walk(p)[k]))
        BY <1>6, <1>7, <2>1, FartherIs
    <3> QED
        BY <3>1, <1>5 DEF Legal
  <2> QED
    <3>1. ends[k + 1] \in Nat /\ Walk(p)[k + 1] = Farther(Walk(p)[k])
        BY <1>4, <1>7, <2>1
    <3> QED
        BY <2>2, <2>5, <2>6, <2>7, <3>1
<1> HIDE DEF S
<1>10. Nat \subseteq S
    BY <1>8, <1>9, Induct
<1>11. Walk(p)[m] = Size
  <2>1. Size <= Walk(p)[m]
    BY <1>2, <1>3, <1>10 DEF S
  <2>2. Walk(p)[m] \in 0 .. Size
    BY <1>2, <1>7 DEF Legal
  <2> QED
    BY <1>5, <2>1, <2>2
<1> QED
    BY <1>1, <1>2, <1>11, WalkEnds DEF Fits

\* Where the walk arrives, its own turns are a choice of ends.
LEMMA FitsCoverable ==
    ASSUME DiffOK, MergedOK, NEW p, Legal(p), NEW n \in Nat, Fits(p, n)
    PROVE  Coverable(p, n)
<1> DEFINE T == {k \in Nat : Walk(p)[k] = Size}
<1>1. n \in T
    BY DEF Fits
<1>2. PICK m \in T : \A k \in T : m <= k
    BY <1>1, Least
<1>3. m \in 0 .. n /\ m \in Nat /\ Walk(p)[m] = Size /\ \A k \in Nat : k < m => Walk(p)[k] # Size
    BY <1>1, <1>2
<1> DEFINE ends == [i \in 1 .. m |-> Walk(p)[i]]
<1>4. p \in 0 .. Size /\ Size \in Nat
    BY DEF Legal, DiffOK
<1>5. /\ Walk(p)[0] = p /\ \A k \in Nat : Walk(p)[k + 1] = Farther(Walk(p)[k])
      /\ \A k \in Nat : Legal(Walk(p)[k]) /\ Walk(p)[k] \in 0 .. Size
    BY WalkIs DEF Legal
<1>6. ASSUME NEW i \in 1 .. m
      PROVE  /\ From(ends, p, i) = Walk(p)[i - 1]
             /\ Walk(p)[i] - Walk(p)[i - 1] \in 1 .. MaxUnitBytes
  <2>1. i - 1 \in Nat /\ (i - 1) + 1 = i /\ i - 1 < m /\ i \in Nat /\ i <= n
    BY <1>3
  <2>2. From(ends, p, i) = Walk(p)[i - 1]
    <3>1. CASE i = 1
        BY <3>1, <1>5 DEF From
    <3>2. CASE i # 1
        BY <3>2, <2>1 DEF From
    <3> QED
        BY <3>1, <3>2
  <2>3. Walk(p)[i] = Farther(Walk(p)[i - 1])
    BY <1>5, <2>1
  <2>4. /\ Walk(p)[i] \in Walk(p)[i - 1] .. Size
        /\ Walk(p)[i] <= Walk(p)[i - 1] + MaxUnitBytes
    BY <1>5, <2>1, <2>3, FartherIs
  <2>5. Walk(p)[i] # Walk(p)[i - 1]
    <3> SUFFICES ASSUME Walk(p)[i] = Walk(p)[i - 1] PROVE FALSE
        OBVIOUS
    <3>1. \A k \in Nat : k >= i - 1 => Walk(p)[k] = Walk(p)[i - 1]
        BY <2>1, WalkStays
    <3> QED
        BY <3>1, <2>1, <1>3
  <2> QED
    <3>1. Walk(p)[i] \in Nat /\ Walk(p)[i - 1] \in Nat
        BY <1>4, <1>5, <2>1
    <3>2. Walk(p)[i - 1] < Walk(p)[i]
        BY <2>4, <2>5, <3>1
    <3> QED
        BY <2>2, <2>4, <3>1, <3>2, UnitSize
<1>7. \A i \in 1 .. m : /\ ends[i] = Walk(p)[i] /\ LegalEnd(ends[i])
                        /\ ends[i] \in 1 .. Size
                        /\ ends[i] - From(ends, p, i) \in 1 .. MaxUnitBytes
  <2> TAKE i \in 1 .. m
  <2>1. i \in Nat /\ i - 1 \in Nat
    BY <1>3
  <2>2. ends[i] = Walk(p)[i] /\ Walk(p)[i] >= 1 /\ Walk(p)[i] \in 1 .. Size
    <3>1. Walk(p)[i] \in 0 .. Size /\ Walk(p)[i] \in Nat /\ Walk(p)[i - 1] \in Nat
        BY <1>4, <1>5, <2>1
    <3>2. Walk(p)[i - 1] < Walk(p)[i]
        BY <1>6, <3>1, UnitSize
    <3> QED
        BY <1>4, <3>1, <3>2
  <2>3. LegalEnd(Walk(p)[i])
    BY <1>5, <2>1, <2>2, LegalEndIs
  <2> QED
    BY <1>6, <2>2, <2>3
<1>8. From(ends, p, m + 1) = Size
  <2>1. CASE m = 0
    BY <2>1, <1>3, <1>5 DEF From
  <2>2. CASE m # 0
    BY <2>2, <1>3, <1>7 DEF From
  <2> QED
    BY <2>1, <2>2
<1>9. \A i \in 1 .. m : ends[i] \in (p + 1) .. Size
  <2>1. \A k \in Nat : Walk(p)[k] >= p
    <3> DEFINE S == {k \in Nat : Walk(p)[k] >= p}
    <3>1. 0 \in S
        BY <1>4, <1>5
    <3>2. ASSUME NEW k \in Nat, k \in S PROVE k + 1 \in S
      <4>1. Walk(p)[k + 1] \in Walk(p)[k] .. Size
        BY <1>5, FartherIs
      <4> QED
        BY <1>4, <1>5, <3>2, <4>1
    <3> HIDE DEF S
    <3>3. Nat \subseteq S
        BY <3>1, <3>2, Induct
    <3> QED
        BY <3>3 DEF S
  <2> TAKE i \in 1 .. m
  <2>2. i \in Nat /\ i - 1 \in Nat
    BY <1>3
  <2>3. Walk(p)[i - 1] >= p /\ Walk(p)[i] - Walk(p)[i - 1] \in 1 .. MaxUnitBytes
    BY <2>1, <2>2, <1>6
  <2> QED
    <3>1. Walk(p)[i] \in 0 .. Size /\ Walk(p)[i] \in Nat /\ Walk(p)[i - 1] \in Nat
        BY <1>4, <1>5, <2>2
    <3>2. Walk(p)[i - 1] < Walk(p)[i]
        BY <2>3, <3>1, UnitSize
    <3> QED
        BY <1>4, <1>7, <2>3, <3>1, <3>2
<1>10. ends \in [1 .. m -> {q \in (p + 1) .. Size : LegalEnd(q)}] /\ DOMAIN ends = 1 .. m
    BY <1>7, <1>9
<1>11. Covers(ends, p)
  <2>1. Len(ends) = m
    BY <1>3
  <2> QED
    BY <1>7, <1>8, <1>10, <2>1 DEF Covers
<1> HIDE DEF ends
<1> QED
    BY <1>3, <1>10, <1>11 DEF Coverable

\* fits() answers whether any choice of ends covers the tail in the slots: the
\* farthest ends need the fewest units.
THEOREM FitsIffCoverable ==
    ASSUME DiffOK, MergedOK, NEW p, Legal(p), NEW n \in Nat
    PROVE  Fits(p, n) <=> Coverable(p, n)
    BY CoverableFits, FitsCoverable

-----------------------------------------------------------------------------
(* The inductive invariant *)

\* What plan() is given never changes.
GivenOK ==
    /\ payload \in Payloads /\ files \in Records(payload)
    /\ hunks \in SUBSET (LineEnds(payload) \ files)
    /\ groups \in DisjointGroups(files) /\ maxUnits \in 1 .. MaxUnits

\* The ranges that wait come at or after the last merged range.
PendingOK ==
    \A r \in pending : Sound(r) /\ (merged # <<>> => Last(merged).start <= r.start)

\* The range of a group waits, or lies in a merged range.
Kept(g) ==
    \/ GroupRange(g) \in pending
    \/ \E i \in DOMAIN merged :
         merged[i].start <= GroupRange(g).start /\ GroupRange(g).end <= merged[i].end

UnitsOK ==
    /\ units \in Seq(1 .. Size) /\ Len(units) <= maxUnits
    /\ \A i \in DOMAIN units :
         LegalEnd(units[i]) /\ units[i] - From(units, 0, i) \in 1 .. MaxUnitBytes

BeforeScan == {"merging", "semantic-group-over-limit"}
Stages == BeforeScan \cup {"cutting", "planned", "unit-count-budget", "time-or-cost-admission"}

\* What holds of plan() and partition() at every stage.
IInv ==
    /\ GivenOK /\ MergedOK /\ PendingOK /\ status \in Stages
    /\ status # "semantic-group-over-limit" => \A g \in groups : Kept(g)
    /\ status \in BeforeScan => cuts = {} /\ units = <<>>
    /\ status \notin BeforeScan => pending = {}
    /\ \A c \in cuts : Legal(c)
    /\ UnitsOK
    /\ status = "planned" => Start = Size
    /\ RefusedOnlyIfUncoverable

\* inventory() and validate_policy() give what the lemmas about the scan ask for.
LEMMA GivenFacts ==
    ASSUME GivenOK
    PROVE  /\ DiffOK /\ Size \in files
           /\ \A e \in files \cup hunks : e \in 1 .. Size /\ ~Continues(e)
           /\ \A g \in groups : g # {} /\ g \subseteq files
<1>1. /\ payload \in Seq(Byte) /\ Size \in Nat
      /\ \A i \in DOMAIN payload : payload[i] = Cont => i > 1 /\ payload[i - 1] # LF
    BY PartitionAssumption DEF GivenOK, Size
<1>2. /\ files \subseteq LineEnds(payload) /\ Size \in files
      /\ hunks \subseteq LineEnds(payload)
    BY DEF GivenOK, Records, Size
<1>3. DOMAIN payload = 1 .. Size
    BY <1>1 DEF Size
<1>4. \A e \in LineEnds(payload) : e \in 1 .. Size /\ ~Continues(e)
  <2> SUFFICES ASSUME NEW e \in 1 .. Size, payload[e] = LF PROVE ~Continues(e)
    BY <1>3 DEF LineEnds
  <2>1. e < Size => payload[e + 1] # Cont
    <3> SUFFICES ASSUME e < Size, payload[e + 1] = Cont PROVE FALSE
        OBVIOUS
    <3>1. e + 1 \in DOMAIN payload /\ (e + 1) - 1 = e
        BY <1>1, <1>3
    <3> QED
        BY <3>1, <1>1
  <2> QED
    BY <2>1 DEF Continues
<1>5. ~Continues(0)
  <2> SUFFICES ASSUME 0 < Size, payload[0 + 1] = Cont PROVE FALSE
    BY DEF Continues
  <2>1. 1 \in DOMAIN payload
    BY <1>1, <1>3
  <2> QED
    BY <2>1, <1>1
<1>6. DiffOK
    BY <1>1, <1>2, <1>4, <1>5 DEF DiffOK
<1>7. \A g \in groups : g # {} /\ g \subseteq files
  <2>1. PICK of \in [files -> 0 .. MaxGroups] :
             groups = {{n \in files : of[n] = i} : i \in 1 .. MaxGroups} \ {{}}
    BY DEF GivenOK, DisjointGroups
  <2> QED
    BY <2>1
<1> QED
    BY <1>2, <1>4, <1>6, <1>7

\* A file begins where another ends, or at the first byte.
LEMMA FileStartIs ==
    ASSUME GivenOK, NEW f \in files
    PROVE  FileStart(f) \in {0} \cup files /\ FileStart(f) < f
<1>1. f \in Nat /\ f >= 1 /\ \A e \in files : e \in Nat
    BY GivenFacts
<1> DEFINE S == {0} \union {e \in files : e < f}
<1>2. S # {} /\ S \subseteq 0 .. f
  <2>1. \A e \in files : e < f => e \in 0 .. f
    BY <1>1
  <2>2. 0 \in 0 .. f
    BY <1>1
  <2> QED
    BY <2>1, <2>2
<1>3. Max(S) \in S
    BY <1>1, <1>2, MaxOf
<1> QED
    BY <1>1, <1>3 DEF FileStart

\* The range of a group spans its files.
LEMMA GroupRangeIs ==
    ASSUME GivenOK, NEW g \in groups
    PROVE  /\ Sound(GroupRange(g))
           /\ \A f \in g : GroupRange(g).start <= FileStart(f) /\ f <= GroupRange(g).end
<1> DEFINE S == {FileStart(f) : f \in g}
<1>1. g # {} /\ g \subseteq files /\ Size \in Nat /\ \A e \in files : e \in 1 .. Size /\ ~Continues(e)
    BY GivenFacts DEF DiffOK
<1>2. ~Continues(0)
    BY GivenFacts DEF DiffOK
<1>3. \A f \in g : FileStart(f) \in {0} \cup files /\ FileStart(f) < f
    BY <1>1, FileStartIs
<1>4. S \subseteq Nat /\ S # {}
    BY <1>1, <1>3
<1>5. Min(S) \in S /\ \A k \in S : Min(S) <= k
    BY <1>4, MinOf
<1>6. Max(g) \in g /\ \A f \in g : f <= Max(g)
  <2>1. g \subseteq 0 .. Size
    BY <1>1
  <2> QED
    BY <1>1, <2>1, MaxOf
<1>7. GroupRange(g) = [start |-> Min(S), end |-> Max(g)]
    BY DEF GroupRange
<1>8. /\ Min(S) \in {0} \cup files /\ Min(S) \in Nat /\ Max(g) \in 1 .. Size
      /\ Min(S) <= FileStart(Max(g)) /\ FileStart(Max(g)) \in Nat /\ FileStart(Max(g)) < Max(g)
    BY <1>1, <1>3, <1>4, <1>5, <1>6
<1> HIDE DEF S
<1>9. Min(S) < Max(g) /\ ~Continues(Min(S)) /\ ~Continues(Max(g))
    BY <1>1, <1>2, <1>6, <1>8
<1>10. \A f \in g : Min(S) <= FileStart(f)
    BY <1>5 DEF S
<1> QED
    BY <1>6, <1>7, <1>8, <1>9, <1>10 DEF Sound, Range0

-----------------------------------------------------------------------------
(* Every step keeps the invariant *)

LEMMA InitIInv == PlanInit => IInv
<1> SUFFICES ASSUME PlanInit PROVE IInv
    OBVIOUS
<1>1. GivenOK
    BY DEF PlanInit, GivenOK
<1>2. merged = <<>> /\ cuts = {} /\ units = <<>> /\ status = "merging"
    BY DEF PlanInit
<1>3. MergedOK
    BY <1>2 DEF MergedOK
<1>4. PendingOK /\ \A g \in groups : Kept(g)
    BY <1>1, <1>2, GroupRangeIs DEF PlanInit, PendingOK, Kept
<1>5. UnitsOK
    BY <1>1, <1>2 DEF UnitsOK, GivenOK
<1> QED
    BY <1>1, <1>2, <1>3, <1>4, <1>5 DEF IInv, Stages, BeforeScan, RefusedOnlyIfUncoverable

\* What depends on the diff alone, or on the diff and the merged ranges.
LEMMA SameDiff ==
    ASSUME UNCHANGED payload
    PROVE  /\ Size' = Size
           /\ \A p : Continues(p)' <=> Continues(p)
           /\ \A r : Sound(r)' <=> Sound(r)
    BY DEF Size, Continues, Sound

LEMMA SoundNext ==
    ASSUME UNCHANGED payload, NEW i, Sound(merged'[i])
    PROVE  Sound(merged[i])'
    BY DEF Sound, Continues, Size

LEMMA SameRanges ==
    ASSUME UNCHANGED <<payload, merged>>
    PROVE  /\ \A p : Legal(p)' <=> Legal(p)
           /\ \A p : LegalEnd(p)' <=> LegalEnd(p)
           /\ MergedOK' <=> MergedOK
<1>1. /\ Size' = Size
      /\ \A p : Continues(p)' <=> Continues(p)
      /\ \A r : Sound(r)' <=> Sound(r)
    BY SameDiff
<1>2. \A p : Inside(p)' <=> Inside(p)
    BY DEF Inside, Splits
<1>3. \A p : (Legal(p)' <=> Legal(p)) /\ (LegalEnd(p)' <=> LegalEnd(p))
    BY <1>1, <1>2 DEF Legal, LegalEnd
<1>4. MergedOK' <=> MergedOK
    BY <1>1 DEF MergedOK
<1> QED
    BY <1>3, <1>4

LEMMA SameCoverable ==
    ASSUME UNCHANGED <<payload, merged>>, NEW p, NEW n
    PROVE  Coverable(p, n)' <=> Coverable(p, n)
<1>1. Size' = Size /\ \A q : LegalEnd(q)' <=> LegalEnd(q)
    BY SameDiff, SameRanges
<1>2. {q \in (p + 1) .. Size : LegalEnd(q)}' = {q \in (p + 1) .. Size : LegalEnd(q)}
    BY <1>1
<1>3. \A ends : Covers(ends, p)' <=> Covers(ends, p)
    BY <1>1 DEF Covers, From
<1> QED
    BY <1>2, <1>3 DEF Coverable

\* The rest of the given stays what it was.
LEMMA SameGiven ==
    ASSUME IInv, UNCHANGED given
    PROVE  /\ GivenOK' /\ UNCHANGED <<payload, groups, maxUnits>>
           /\ \A g : GroupRange(g)' = GroupRange(g)
<1>1. UNCHANGED <<payload, files, hunks, groups, maxUnits>>
    BY DEF given
<1>2. GivenOK'
    BY <1>1 DEF IInv, GivenOK
<1>3. \A g : GroupRange(g)' = GroupRange(g)
    BY <1>1 DEF GroupRange, FileStart
<1> QED
    BY <1>1, <1>2, <1>3

\* MergeRange: the next range in order joins the last merged one, or follows it.
LEMMA MergeRangeIInv ==
    ASSUME IInv, MergeRange PROVE IInv'
<1>1. PICK r \in pending :
        /\ \A s \in pending \ {r} : EarlierRange(r, s)
        /\ pending' = pending \ {r}
        /\ IF Joined(r).end - Joined(r).start > MaxUnitBytes
           THEN status' = "semantic-group-over-limit" /\ UNCHANGED merged
           ELSE /\ merged' = IF Overlaps(r) THEN [merged EXCEPT ![Len(merged)] = Joined(r)]
                             ELSE Append(merged, r)
                /\ UNCHANGED status
    BY DEF MergeRange
<1>2. status = "merging" /\ UNCHANGED <<given, cuts, units>> /\ cuts = {} /\ units = <<>>
    BY DEF MergeRange, IInv, BeforeScan
<1>3. GivenOK' /\ UNCHANGED <<payload, groups, maxUnits>> /\ \A g : GroupRange(g)' = GroupRange(g)
    BY <1>2, SameGiven
<1>4. \A s : Sound(s)' <=> Sound(s)
    BY <1>3, SameDiff
<1>5. MergedOK /\ PendingOK /\ \A g \in groups : Kept(g)
    BY <1>2 DEF IInv
<1>6. /\ Sound(r) /\ r.start \in Nat /\ r.end \in Nat /\ r.start < r.end /\ r \in Range0
      /\ merged # <<>> => Last(merged).start <= r.start
    BY <1>1, <1>5 DEF PendingOK, Sound, Range0
<1>7. \A s \in pending \ {r} : Sound(s) /\ r.start <= s.start /\ s.start \in Nat
                               /\ (merged # <<>> => Last(merged).start <= s.start)
  <2> TAKE s \in pending \ {r}
  <2>1. Sound(s) /\ s.start \in Nat /\ (merged # <<>> => Last(merged).start <= s.start)
    BY <1>5 DEF PendingOK, Sound, Range0
  <2>2. r.start <= s.start
    BY <1>1, <1>6, <2>1 DEF EarlierRange
  <2> QED
    BY <2>1, <2>2
<1>8. UnitsOK' /\ \A c \in cuts' : Legal(c)'
  <2>1. maxUnits \in Nat
    BY DEF IInv, GivenOK
  <2> QED
    BY <1>2, <1>3, <2>1 DEF UnitsOK
<1>9. /\ merged \in Seq(Range0) /\ Len(merged) \in Nat /\ DOMAIN merged = 1 .. Len(merged)
      /\ Last(merged) = merged[Len(merged)]
      /\ merged # <<>> => Len(merged) \in DOMAIN merged
    BY <1>5 DEF MergedOK, Last
<1>10. \A i \in DOMAIN merged : /\ Sound(merged[i])
                                /\ merged[i].start \in Nat /\ merged[i].end \in Nat
                                /\ merged[i].start < merged[i].end
                                /\ merged[i].end - merged[i].start <= MaxUnitBytes
    BY <1>5 DEF MergedOK, Sound, Range0
<1>11. CASE status' = "semantic-group-over-limit" /\ UNCHANGED merged
  <2>1. MergedOK'
    BY <1>3, <1>5, <1>11, SameRanges
  <2>2. PendingOK'
    BY <1>1, <1>4, <1>7, <1>11 DEF PendingOK, Last
  <2> QED
    BY <1>2, <1>3, <1>8, <1>11, <2>1, <2>2 DEF IInv, Stages, BeforeScan, RefusedOnlyIfUncoverable
<1>12. ASSUME status' = status, MergedOK', PendingOK', \A g \in groups : Kept(g)'
       PROVE  IInv'
    BY <1>2, <1>3, <1>8, <1>12 DEF IInv, Stages, BeforeScan, RefusedOnlyIfUncoverable
<1>13. CASE /\ Overlaps(r) /\ merged' = [merged EXCEPT ![Len(merged)] = Joined(r)]
            /\ Joined(r).end - Joined(r).start <= MaxUnitBytes /\ status' = status
  <2> DEFINE last == Len(merged)
             top == Max({r.end, Last(merged).end})
  <2>1. last \in DOMAIN merged /\ r.start < Last(merged).end /\ Last(merged).start <= r.start
    BY <1>6, <1>9, <1>13 DEF Overlaps
  <2>2. top \in {r.end, Last(merged).end} /\ r.end <= top /\ Last(merged).end <= top
    <3>1. r.end \in Nat /\ Last(merged).end \in Nat
        BY <1>6, <1>9, <1>10, <2>1
    <3>2. r.end \in 0 .. (r.end + Last(merged).end) /\ Last(merged).end \in 0 .. (r.end + Last(merged).end)
        BY <3>1
    <3>3. {r.end, Last(merged).end} \subseteq 0 .. (r.end + Last(merged).end)
        BY <3>2
    <3>4. r.end + Last(merged).end \in Nat
        BY <3>1
    <3> QED
        BY <3>3, <3>4, MaxOf
  <2> HIDE DEF top
  <2>3. Joined(r) = [start |-> Last(merged).start, end |-> top]
    BY <1>13 DEF Joined, top
  <2>4. Sound(Joined(r)) /\ Joined(r).start = Last(merged).start /\ Joined(r).end = top
    <3>1. /\ Last(merged).start \in Nat /\ Last(merged).end \in Nat
          /\ Last(merged).start < Last(merged).end /\ Sound(Last(merged))
        BY <1>9, <1>10, <2>1
    <3>2. Joined(r).start = Last(merged).start /\ Joined(r).end = top /\ Joined(r) \in Range0
        BY <1>6, <2>2, <2>3, <3>1 DEF Range0
    <3>3. top <= Size /\ ~Continues(top) /\ ~Continues(Last(merged).start)
        BY <1>6, <2>2, <3>1 DEF Sound
    <3>4. Last(merged).start < top
        BY <1>6, <2>2, <3>1
    <3> QED
        BY <3>2, <3>3, <3>4 DEF Sound
  <2>5. /\ DOMAIN merged' = DOMAIN merged /\ Len(merged') = last /\ merged' \in Seq(Range0)
        /\ \A i \in DOMAIN merged : merged'[i] = IF i = last THEN Joined(r) ELSE merged[i]
    <3>1. Joined(r) \in Range0
        BY <2>4 DEF Sound
    <3> QED
        BY <1>9, <1>13, <2>1, <3>1
  <2>6. MergedOK'
    <3>1. \A i, j \in DOMAIN merged : i < j => merged'[i].end <= merged'[j].start
      <4> TAKE i, j \in DOMAIN merged
      <4> HAVE i < j
      <4>1. i # last /\ merged[i].end <= merged[j].start
        BY <1>5, <1>9, <2>1 DEF MergedOK
      <4> QED
        BY <1>9, <2>4, <2>5, <4>1
    <3>2. \A i \in DOMAIN merged : Sound(merged'[i]) /\ merged'[i].end - merged'[i].start <= MaxUnitBytes
        BY <1>10, <1>13, <2>4, <2>5
    <3>3. \A i \in DOMAIN merged' : Sound(merged[i])'
        BY <1>3, <2>5, <3>2, SoundNext
    <3> QED
        BY <2>5, <3>1, <3>2, <3>3 DEF MergedOK
  <2>7. PendingOK'
    <3>1. Last(merged').start = Last(merged).start
        BY <1>9, <2>1, <2>4, <2>5 DEF Last
    <3> QED
        BY <1>1, <1>4, <1>7, <3>1, <2>1, <1>9 DEF PendingOK
  <2>8. ASSUME NEW g \in groups PROVE Kept(g)'
    <3>1. CASE GroupRange(g) \in pending \ {r}
        BY <1>1, <1>3, <3>1 DEF Kept
    <3>2. CASE GroupRange(g) = r
      <4>1. merged'[last].start <= r.start /\ r.end <= merged'[last].end
        BY <2>1, <2>2, <2>4, <2>5
      <4> QED
        BY <1>3, <2>1, <2>5, <3>2, <4>1 DEF Kept
    <3>3. ASSUME NEW i \in DOMAIN merged, merged[i].start <= GroupRange(g).start,
                 GroupRange(g).end <= merged[i].end
          PROVE  Kept(g)'
      <4>1. GroupRange(g).end \in Nat
        BY GroupRangeIs DEF IInv, Sound, Range0
      <4>2. merged'[i].start <= GroupRange(g).start /\ GroupRange(g).end <= merged'[i].end
        <5>1. CASE i = last
          <6>1. /\ merged'[i].start = Last(merged).start /\ merged'[i].end = top
                /\ Last(merged) = merged[i] /\ top \in Nat
            BY <5>1, <1>6, <1>9, <1>10, <2>1, <2>2, <2>4, <2>5
          <6> QED
            BY <6>1, <3>3, <2>2, <4>1, <1>10
        <5>2. CASE i # last
            BY <5>2, <2>5, <3>3
        <5> QED
            BY <5>1, <5>2
      <4> QED
        BY <1>3, <2>5, <4>2 DEF Kept
    <3> QED
        BY <1>5, <3>1, <3>2, <3>3 DEF Kept
  <2> QED
    BY <1>12, <1>13, <2>6, <2>7, <2>8
<1>14. CASE /\ ~Overlaps(r) /\ merged' = Append(merged, r)
            /\ Joined(r).end - Joined(r).start <= MaxUnitBytes /\ status' = status
  <2> DEFINE next == Len(merged) + 1
  <2>1. /\ DOMAIN merged' = 1 .. next /\ Len(merged') = next /\ merged' \in Seq(Range0)
        /\ merged'[next] = r /\ \A i \in DOMAIN merged : merged'[i] = merged[i]
    BY <1>6, <1>9, <1>14
  <2>2. r.end - r.start <= MaxUnitBytes
    BY <1>14 DEF Joined
  <2>3. \A i \in DOMAIN merged : merged[i].end <= r.start
    <3> TAKE i \in DOMAIN merged
    <3>1. merged # <<>> /\ ~(r.start < Last(merged).end)
        BY <1>9, <1>14 DEF Overlaps
    <3>2. Last(merged).end <= r.start /\ Last(merged).end \in Nat /\ Last(merged).start \in Nat
          /\ Last(merged).start < Last(merged).end
        BY <1>6, <1>9, <1>10, <3>1
    <3>3. CASE i = Len(merged)
        BY <3>2, <3>3, <1>9
    <3>4. CASE i # Len(merged)
      <4>1. i < Len(merged)
        BY <1>9, <3>4
      <4>2. merged[i].end <= Last(merged).start
        BY <1>5, <1>9, <3>1, <4>1 DEF MergedOK
      <4> QED
        BY <1>6, <1>10, <3>2, <4>2
    <3> QED
        BY <3>3, <3>4
  <2>4. MergedOK'
    <3>1. \A i \in 1 .. next : i = next \/ i \in DOMAIN merged
        BY <1>9
    <3>2. \A i, j \in 1 .. next : i < j => merged'[i].end <= merged'[j].start
      <4> TAKE i, j \in 1 .. next
      <4> HAVE i < j
      <4>1. i \in DOMAIN merged /\ (j = next \/ j \in DOMAIN merged)
        BY <1>9
      <4> QED
        BY <1>5, <2>1, <2>3, <4>1 DEF MergedOK
    <3>3. \A i \in 1 .. next : Sound(merged'[i]) /\ merged'[i].end - merged'[i].start <= MaxUnitBytes
        BY <1>6, <1>10, <2>1, <2>2, <3>1
    <3>4. \A i \in DOMAIN merged' : Sound(merged[i])'
        BY <1>3, <2>1, <3>3, SoundNext
    <3> QED
        BY <2>1, <3>2, <3>3, <3>4 DEF MergedOK
  <2>5. PendingOK'
    <3>1. Last(merged') = r
        BY <2>1 DEF Last
    <3> QED
        BY <1>1, <1>4, <1>7, <3>1 DEF PendingOK
  <2>6. ASSUME NEW g \in groups PROVE Kept(g)'
    <3>1. CASE GroupRange(g) \in pending \ {r}
        BY <1>1, <1>3, <3>1 DEF Kept
    <3>2. CASE GroupRange(g) = r
      <4>1. next \in DOMAIN merged' /\ merged'[next] = r
        BY <1>9, <2>1
      <4>2. r.start <= r.start /\ r.end <= r.end
        BY <1>6
      <4> QED
        BY <1>3, <3>2, <4>1, <4>2 DEF Kept
    <3>3. ASSUME NEW i \in DOMAIN merged, merged[i].start <= GroupRange(g).start,
                 GroupRange(g).end <= merged[i].end
          PROVE  Kept(g)'
      <4>1. i \in DOMAIN merged' /\ merged'[i] = merged[i]
        BY <1>9, <2>1
      <4> QED
        BY <1>3, <3>3, <4>1 DEF Kept
    <3> QED
        BY <1>5, <3>1, <3>2, <3>3 DEF Kept
  <2> QED
    BY <1>12, <1>14, <2>4, <2>5, <2>6
<1> QED
  <2>1. Joined(r).end - Joined(r).start \in Int
    <3>1. CASE ~Overlaps(r)
        BY <3>1, <1>6 DEF Joined
    <3>2. CASE Overlaps(r)
      <4>1. Last(merged).start \in Nat /\ Last(merged).end \in Nat
        BY <1>9, <1>10, <3>2 DEF Overlaps
      <4>2. r.end \in 0 .. (r.end + Last(merged).end) /\ Last(merged).end \in 0 .. (r.end + Last(merged).end)
        BY <1>6, <4>1
      <4>3. Max({r.end, Last(merged).end}) \in {r.end, Last(merged).end}
        <5>1. {r.end, Last(merged).end} \subseteq 0 .. (r.end + Last(merged).end)
              /\ r.end + Last(merged).end \in Nat
            BY <1>6, <4>1, <4>2
        <5> QED
            BY <5>1, MaxOf
      <4>4. Joined(r).start = Last(merged).start /\ Joined(r).end = Max({r.end, Last(merged).end})
        BY <3>2 DEF Joined
      <4> QED
        BY <1>6, <4>1, <4>3, <4>4
    <3> QED
        BY <3>1, <3>2
  <2>2. ~(Joined(r).end - Joined(r).start > MaxUnitBytes) => Joined(r).end - Joined(r).start <= MaxUnitBytes
    BY <2>1, PartitionAssumption
  <2> QED
    BY <1>1, <1>11, <1>13, <1>14, <2>2

\* No boundary that plan() prefers splits a character.
LEMMA BoundariesAre ==
    ASSUME GivenOK, MergedOK, NEW c \in Boundaries \union {Size}
    PROVE  c \in 0 .. Size /\ ~Continues(c)
<1>1. /\ Size \in files /\ Size \in Nat
      /\ \A e \in files \cup hunks : e \in 1 .. Size /\ ~Continues(e)
    BY GivenFacts DEF DiffOK
<1>2. \/ c \in files \cup hunks
      \/ \E i \in DOMAIN merged : c \in {merged[i].start, merged[i].end}
    BY <1>1 DEF Boundaries
<1>3. \A i \in DOMAIN merged : /\ merged[i].start \in 0 .. Size /\ merged[i].end \in 0 .. Size
                               /\ ~Continues(merged[i].start) /\ ~Continues(merged[i].end)
    BY <1>1 DEF MergedOK, Sound, Range0
<1>4. CASE c \in files \cup hunks
    BY <1>1, <1>4
<1>5. CASE \E i \in DOMAIN merged : c \in {merged[i].start, merged[i].end}
    BY <1>3, <1>5
<1> QED
    BY <1>2, <1>4, <1>5

\* Prepare: the preferred cuts are legal, and fits() is exact.
LEMMA PrepareIInv ==
    ASSUME IInv, Prepare PROVE IInv'
<1>1. /\ status = "merging" /\ pending = {} /\ units = <<>>
      /\ cuts' = {c \in Boundaries \union {Size} : ~Inside(c)}
      /\ status' = IF Fits(0, maxUnits) THEN "cutting" ELSE "unit-count-budget"
      /\ UNCHANGED <<given, pending, merged, units>>
    BY DEF Prepare, IInv, BeforeScan
<1>2. GivenOK' /\ UNCHANGED <<payload, groups, maxUnits>> /\ \A g : GroupRange(g)' = GroupRange(g)
    BY <1>1, SameGiven
<1>3. GivenOK /\ DiffOK /\ MergedOK /\ PendingOK /\ \A g \in groups : Kept(g)
    BY <1>1, GivenFacts DEF IInv
<1>4. /\ \A p : Legal(p)' <=> Legal(p)
      /\ \A r : Sound(r)' <=> Sound(r)
      /\ MergedOK'
    BY <1>1, <1>2, <1>3, SameRanges, SameDiff
<1>5. PendingOK' /\ \A g \in groups' : Kept(g)'
    BY <1>1, <1>2, <1>3 DEF PendingOK, Kept
<1>6. \A c \in cuts' : Legal(c)'
    BY <1>1, <1>3, <1>4, BoundariesAre DEF Legal
<1>7. maxUnits \in Nat /\ Len(units) = 0 /\ Start = 0
    BY <1>1 DEF IInv, GivenOK, Start
<1>8. UnitsOK'
    BY <1>1, <1>2, <1>7 DEF UnitsOK
<1>9. Legal(0) /\ (Fits(0, maxUnits) <=> Coverable(0, maxUnits))
    BY <1>3, <1>7, FitsIffCoverable, LegalEndIs
<1>10. RefusedOnlyIfUncoverable'
  <2>1. Coverable(0, maxUnits)' <=> Coverable(0, maxUnits)
    BY <1>1, <1>2, SameCoverable
  <2>2. Start' = 0 /\ maxUnits' - Len(units') = maxUnits'
    BY <1>1, <1>2, <1>7 DEF Start
  <2>3. Coverable(Start, maxUnits - Len(units))' <=> Coverable(0, maxUnits)
    BY <2>1, <2>2, <1>2
  <2> QED
    BY <1>1, <1>9, <2>1, <2>3 DEF RefusedOnlyIfUncoverable
<1> QED
    BY <1>1, <1>2, <1>4, <1>5, <1>6, <1>8, <1>10 DEF IInv, Stages, BeforeScan

\* Where the next unit starts.
LEMMA StartIs ==
    ASSUME IInv
    PROVE  /\ Start = From(units, 0, Len(units) + 1)
           /\ Start \in 0 .. Size /\ Legal(Start)
<1>1. units \in Seq(1 .. Size) /\ \A i \in DOMAIN units : LegalEnd(units[i])
    BY DEF IInv, UnitsOK
<1>2. DiffOK /\ MergedOK
    BY GivenFacts DEF IInv
<1>3. CASE units = <<>>
  <2>1. Start = 0 /\ Len(units) + 1 = 1
    BY <1>3 DEF Start
  <2> QED
    BY <2>1, <1>2, LegalEndIs DEF From, Legal
<1>4. CASE units # <<>>
  <2>1. /\ Len(units) \in Nat /\ Len(units) # 0 /\ Len(units) \in DOMAIN units
        /\ Start = units[Len(units)]
    BY <1>1, <1>4 DEF Start, Last
  <2>2. From(units, 0, Len(units) + 1) = units[Len(units)]
    BY <2>1 DEF From
  <2> QED
    BY <1>1, <1>2, <2>1, <2>2, LegalEndIs DEF Legal
<1> QED
    BY <1>3, <1>4

\* Every end the loop can choose is legal, moves, fits a unit and leaves a tail
\* that the units left can cover.
LEMMA ChosenEndIs ==
    ASSUME IInv, status = "cutting", Start < Size
    PROVE  /\ Legal(ChosenEnd) /\ ChosenEnd - Start \in 1 .. MaxUnitBytes
           /\ maxUnits - Len(units) - 1 \in Nat
           /\ Coverable(ChosenEnd, maxUnits - Len(units) - 1)
<1> DEFINE slots == maxUnits - Len(units)
           end == Farthest(Start)
           within == {c \in cuts : c <= end}
           preferred == IF within = {} THEN 0 ELSE Max(within)
<1>1. DiffOK /\ MergedOK /\ UnitsOK /\ \A c \in cuts : Legal(c)
    BY GivenFacts DEF IInv
<1>2. Legal(Start) /\ Start \in 0 .. Size /\ Size \in Nat
    BY <1>1, StartIs DEF DiffOK
<1>3. slots \in Nat
  <2>1. maxUnits \in Nat /\ Len(units) \in Nat /\ Len(units) <= maxUnits
    BY <1>1 DEF UnitsOK, IInv, GivenOK
  <2> QED
    BY <2>1
<1>4. Fits(Start, slots)
    BY <1>1, <1>2, <1>3, FitsIffCoverable DEF IInv, RefusedOnlyIfUncoverable
<1>5. Walk(Start)[0] = Start /\ Walk(Start)[slots] = Size
    BY <1>1, <1>2, <1>4, WalkIs DEF Fits
<1> HIDE DEF slots
<1>6. slots # 0 /\ slots - 1 \in Nat /\ (slots - 1) + 1 = slots
    BY <1>2, <1>3, <1>5
<1>7. /\ Farther(Start) = end /\ end \in Start .. Size /\ end <= Start + MaxUnitBytes
      /\ Legal(end)
    BY <1>1, <1>2, FartherIs
<1>8. Fits(end, slots - 1)
    BY <1>1, <1>2, <1>5, <1>6, <1>7, WalkShift DEF Fits
<1>9. Start < end
  <2> SUFFICES ASSUME end = Start PROVE FALSE
    BY <1>2, <1>7
  <2>1. Walk(Start)[0 + 1] = Walk(Start)[0]
    <3>1. \A k \in Nat : Walk(Start)[k + 1] = Farther(Walk(Start)[k])
      BY <1>1, <1>2, WalkIs
    <3>2. Walk(Start)[0 + 1] = Farther(Walk(Start)[0])
      BY <3>1
    <3>3. Farther(Walk(Start)[0]) = Start
      BY <1>5, <1>7
    <3> QED
      BY <1>5, <3>2, <3>3
  <2>2. Walk(Start)[slots] = Walk(Start)[0]
    BY <1>1, <1>2, <1>3, <2>1, WalkStays
  <2> QED
    BY <1>2, <1>5, <2>2
<1> HIDE DEF end
<1>10. within # {} => preferred \in cuts /\ preferred <= end
  <2> SUFFICES ASSUME within # {} PROVE preferred \in cuts /\ preferred <= end
    OBVIOUS
  <2>1. \A c \in within : c \in 0 .. end
    BY <1>1, <1>2, <1>7 DEF Legal
  <2>2. Max(within) \in within
    BY <2>1, <1>2, <1>7, MaxOf
  <2> QED
    BY <2>2
<1>11. within = {} => preferred = 0
    OBVIOUS
<1> HIDE DEF within, preferred
<1>12. ChosenEnd = IF preferred > Start /\ Fits(preferred, slots - 1) THEN preferred
                   ELSE IF /\ end - 1 > Start /\ end < Size
                           /\ payload[end] = CR /\ payload[end + 1] = LF
                           /\ ~Inside(end - 1)
                           /\ Fits(end - 1, slots - 1)
                        THEN end - 1
                        ELSE end
    BY DEF ChosenEnd, slots, end, within, preferred
<1>13. /\ Legal(ChosenEnd) /\ Start < ChosenEnd /\ ChosenEnd <= Start + MaxUnitBytes
       /\ Fits(ChosenEnd, slots - 1)
  <2>1. CASE preferred > Start /\ Fits(preferred, slots - 1)
    <3>1. preferred \in cuts /\ preferred <= end
        BY <1>2, <1>10, <1>11, <2>1
    <3>2. Legal(preferred) /\ preferred \in Nat
        BY <1>1, <1>2, <3>1 DEF Legal
    <3>3. preferred <= Start + MaxUnitBytes
        BY <1>2, <1>7, <3>1, <3>2, PartitionAssumption
    <3> QED
        BY <1>2, <1>12, <2>1, <3>2, <3>3
  <2>2. CASE /\ ~(preferred > Start /\ Fits(preferred, slots - 1))
             /\ end - 1 > Start /\ end < Size /\ payload[end] = CR
             /\ ~Inside(end - 1) /\ Fits(end - 1, slots - 1)
             /\ payload[end + 1] = LF
    <3>1. ChosenEnd = end - 1
        BY <1>12, <2>2
    <3>2. end - 1 \in 0 .. Size /\ (end - 1) + 1 = end /\ end - 1 <= Start + MaxUnitBytes
          /\ Start < end - 1
        BY <1>2, <1>7, <2>2, PartitionAssumption
    <3>3. ~Continues(end - 1)
        BY <3>2, <2>2 DEF Continues, CR, Cont
    <3> QED
        BY <3>1, <3>2, <3>3, <2>2 DEF Legal
  <2>3. CASE ChosenEnd = end
    BY <1>7, <1>8, <1>9, <2>3
  <2> QED
    BY <1>12, <2>1, <2>2, <2>3
<1>14. ChosenEnd \in Nat
    BY <1>2, <1>13 DEF Legal
<1>15. ChosenEnd - Start \in 1 .. MaxUnitBytes
    BY <1>2, <1>13, <1>14, UnitSize
<1>16. Coverable(ChosenEnd, slots - 1)
    BY <1>1, <1>6, <1>13, FitsIffCoverable
<1> QED
    BY <1>6, <1>13, <1>15, <1>16 DEF slots

\* What a step that only cuts or admits leaves alone.
LEMMA ScanKeeps ==
    ASSUME IInv, status = "cutting", UNCHANGED <<given, pending, merged, cuts>>
    PROVE  /\ GivenOK' /\ MergedOK' /\ PendingOK' /\ \A g \in groups' : Kept(g)'
           /\ pending' = {} /\ \A c \in cuts' : Legal(c)'
           /\ Size' = Size /\ maxUnits' = maxUnits
<1>1. GivenOK' /\ UNCHANGED <<payload, groups, maxUnits>> /\ \A g : GroupRange(g)' = GroupRange(g)
    BY SameGiven
<1>2. /\ \A p : Legal(p)' <=> Legal(p)
      /\ \A r : Sound(r)' <=> Sound(r)
      /\ MergedOK' /\ Size' = Size
    BY <1>1, SameRanges, SameDiff DEF IInv
<1>3. PendingOK /\ pending = {} /\ (\A g \in groups : Kept(g)) /\ \A c \in cuts : Legal(c)
    BY DEF IInv, BeforeScan
<1>4. PendingOK' /\ \A g \in groups' : Kept(g)'
    BY <1>1, <1>2, <1>3 DEF PendingOK, Kept
<1> QED
    BY <1>1, <1>2, <1>3, <1>4

\* Cut: the next unit is what ChosenEndIs says, so no refusal is taken.
LEMMA CutIInv ==
    ASSUME IInv, Cut PROVE IInv'
<1> DEFINE end == ChosenEnd
           n == Len(units)
<1>1. /\ status = "cutting" /\ Start < Size /\ UNCHANGED <<given, pending, merged, cuts>>
      /\ IF Continues(end)
         THEN status' = "non-utf8-input" /\ UNCHANGED units
         ELSE IF end - Start \notin 1 .. MaxUnitBytes
         THEN status' = "unit-byte-boundary" /\ UNCHANGED units
         ELSE /\ units' = Append(units, end)
              /\ status' = IF Len(units') > maxUnits THEN "late-unit-count" ELSE status
    BY DEF Cut
<1>2. /\ Legal(end) /\ end - Start \in 1 .. MaxUnitBytes
      /\ maxUnits - n - 1 \in Nat /\ Coverable(end, maxUnits - n - 1)
    BY <1>1, ChosenEndIs
<1> HIDE DEF end
<1>3. /\ GivenOK' /\ MergedOK' /\ PendingOK' /\ \A g \in groups' : Kept(g)'
      /\ pending' = {} /\ \A c \in cuts' : Legal(c)'
      /\ Size' = Size /\ maxUnits' = maxUnits
    BY <1>1, ScanKeeps
<1>4. UNCHANGED payload
    BY <1>1 DEF given
<1>5. DiffOK /\ MergedOK /\ UnitsOK /\ maxUnits \in Nat /\ Size \in Nat
    BY GivenFacts DEF IInv, GivenOK, DiffOK
<1>6. units \in Seq(1 .. Size) /\ n \in Nat /\ DOMAIN units = 1 .. n
    BY <1>5 DEF UnitsOK
<1>7. Start \in 0 .. Size /\ Start = From(units, 0, n + 1)
    BY StartIs
<1>8. end \in 1 .. Size /\ LegalEnd(end)
  <2>1. end \in 0 .. Size
    BY <1>2 DEF Legal
  <2>2. Start < end
    BY <1>2, <1>5, <1>7, <2>1, UnitSize
  <2> QED
    BY <1>2, <1>5, <1>7, <2>1, <2>2, LegalEndIs
<1>9. units' = Append(units, end) /\ n + 1 <= maxUnits
  <2>1. ~Continues(end)
    BY <1>2 DEF Legal
  <2>2. n + 1 <= maxUnits
    BY <1>2, <1>5, <1>6
  <2> QED
    BY <1>1, <1>2, <2>1, <2>2
<1>10. /\ units' \in Seq(1 .. Size) /\ Len(units') = n + 1 /\ DOMAIN units' = 1 .. (n + 1)
       /\ units'[n + 1] = end /\ \A i \in 1 .. n : units'[i] = units[i]
    BY <1>6, <1>8, <1>9
<1>11. status' = status
  <2>1. ~(Len(units') > maxUnits)
    BY <1>5, <1>6, <1>9, <1>10
  <2>2. ~Continues(end)
    BY <1>2 DEF Legal
  <2> QED
    BY <1>1, <1>2, <2>1, <2>2
<1>12. \A i \in 1 .. (n + 1) : From(units', 0, i) = From(units, 0, i)
  <2> TAKE i \in 1 .. (n + 1)
  <2>1. i # 1 => i - 1 \in 1 .. n
    BY <1>6
  <2> QED
    BY <2>1, <1>10 DEF From
<1>13. \A i \in 1 .. (n + 1) :
          LegalEnd(units'[i]) /\ units'[i] - From(units', 0, i) \in 1 .. MaxUnitBytes
  <2> TAKE i \in 1 .. (n + 1)
  <2>1. CASE i = n + 1
    BY <2>1, <1>2, <1>7, <1>8, <1>10, <1>12
  <2>2. CASE i # n + 1
    <3>1. i \in 1 .. n
        BY <2>2, <1>6
    <3> QED
        BY <3>1, <1>5, <1>6, <1>10, <1>12 DEF UnitsOK
  <2> QED
    BY <2>1, <2>2
<1>14. \A i \in DOMAIN units' : LegalEnd(units[i])'
    BY <1>1, <1>4, <1>10, <1>13, <1>3 DEF LegalEnd, Continues, Inside, Splits
<1>15. UnitsOK'
    BY <1>3, <1>9, <1>10, <1>13, <1>14 DEF UnitsOK, From
<1>16. RefusedOnlyIfUncoverable'
  <2>1. Start' = end /\ maxUnits' - Len(units') = maxUnits - n - 1
    <3>1. units' # <<>> /\ Last(units') = end
        BY <1>6, <1>10 DEF Last
    <3>2. maxUnits - (n + 1) = maxUnits - n - 1
        BY <1>5, <1>6
    <3> QED
        BY <3>1, <3>2, <1>3, <1>10 DEF Start
  <2> PICK e, left : e = end /\ left = maxUnits - n - 1
    OBVIOUS
  <2>2. Coverable(e, left)' <=> Coverable(e, left)
    BY <1>1, <1>4, SameCoverable
  <2>3. Coverable(Start, maxUnits - Len(units))'
    BY <1>2, <2>1, <2>2
  <2> QED
    BY <1>1, <1>11, <2>3 DEF RefusedOnlyIfUncoverable
<1> QED
    BY <1>1, <1>3, <1>11, <1>15, <1>16 DEF IInv, Stages, BeforeScan

\* Admit: the last unit ends where the diff ends.
LEMMA AdmitIInv ==
    ASSUME IInv, Admit PROVE IInv'
<1>1. /\ status = "cutting" /\ Start = Size
      /\ status' = IF Len(units) + 1 <= MaxReviews THEN "planned" ELSE "time-or-cost-admission"
      /\ UNCHANGED <<given, pending, merged, cuts, units>>
    BY DEF Admit
<1>2. /\ GivenOK' /\ MergedOK' /\ PendingOK' /\ \A g \in groups' : Kept(g)'
      /\ pending' = {} /\ \A c \in cuts' : Legal(c)'
      /\ Size' = Size /\ maxUnits' = maxUnits
    BY <1>1, ScanKeeps
<1>3. UNCHANGED payload
    BY <1>1 DEF given
<1>4. \A p : LegalEnd(p)' <=> LegalEnd(p)
    BY <1>1, <1>3, SameRanges
<1>5. UnitsOK'
  <2>1. UnitsOK
    BY DEF IInv
  <2>2. \A i \in DOMAIN units' : LegalEnd(units[i])'
    BY <1>1, <1>2, <1>3, <2>1 DEF UnitsOK, LegalEnd, Continues, Inside, Splits
  <2> QED
    BY <1>1, <1>2, <2>1, <2>2 DEF UnitsOK, From
<1>6. Start' = Size'
    BY <1>1, <1>2 DEF Start
<1> QED
    BY <1>1, <1>2, <1>5, <1>6 DEF IInv, Stages, BeforeScan, RefusedOnlyIfUncoverable

LEMMA NextIInv == IInv /\ [PlanNext]_planVars => IInv'
<1> SUFFICES ASSUME IInv, [PlanNext]_planVars PROVE IInv'
    OBVIOUS
<1>1. CASE PlanNext
    BY <1>1, MergeRangeIInv, PrepareIInv, CutIInv, AdmitIInv DEF PlanNext
<1>2. CASE UNCHANGED planVars
  <2>1. UNCHANGED <<payload, files, hunks, groups, maxUnits, pending, merged, cuts, units, status>>
    BY <1>2 DEF planVars
  <2>2. GivenOK' /\ \A g : GroupRange(g)' = GroupRange(g)
    BY <2>1, SameGiven DEF given
  <2>3. /\ \A p : (Legal(p)' <=> Legal(p)) /\ (LegalEnd(p)' <=> LegalEnd(p))
        /\ \A r : Sound(r)' <=> Sound(r)
        /\ MergedOK' <=> MergedOK
        /\ Size' = Size
    BY <2>1, SameDiff, SameRanges
  <2>4. MergedOK' /\ PendingOK' /\ \A c \in cuts' : Legal(c)'
    BY <2>1, <2>3 DEF IInv, PendingOK
  <2>5. status # "semantic-group-over-limit" => \A g \in groups : Kept(g)'
    BY <2>1, <2>2 DEF IInv, Kept
  <2>6. UnitsOK'
    <3>1. UnitsOK
        BY DEF IInv
    <3>2. \A i \in DOMAIN units' : LegalEnd(units[i])'
        BY <2>1, <2>3, <3>1 DEF UnitsOK, LegalEnd, Continues, Inside, Splits
    <3> QED
        BY <2>1, <2>3, <3>1, <3>2 DEF UnitsOK, From
  <2>7. RefusedOnlyIfUncoverable'
    <3>1. \A p, n : Coverable(p, n)' <=> Coverable(p, n)
        BY <2>1, SameCoverable
    <3>2. Start' = Start /\ maxUnits' - Len(units') = maxUnits - Len(units)
        BY <2>1 DEF Start
    <3>3. /\ Coverable(0, maxUnits)' <=> Coverable(0, maxUnits)
          /\ Coverable(Start, maxUnits - Len(units))' <=> Coverable(Start, maxUnits - Len(units))
        BY <2>1, <3>1, <3>2
    <3> QED
        BY <2>1, <3>3 DEF IInv, RefusedOnlyIfUncoverable
  <2>8. Start' = Start
    BY <2>1 DEF Start
  <2> QED
    BY <2>1, <2>2, <2>3, <2>4, <2>5, <2>6, <2>7, <2>8 DEF IInv
<1> QED
    BY <1>1, <1>2

-----------------------------------------------------------------------------
(* The theorems *)

LEMMA SpecIInv == PlanSpec => []IInv
    BY InitIInv, NextIInv, PTL DEF PlanSpec

\* Type correctness, and no refusal of the scan itself can be reached: once
\* fits(0, max_units) holds, every unit is text of a legal size, and there are
\* never more units than the policy allows.
THEOREM ScanNeverRefuses == PlanSpec => []PlanTypeOK
<1>1. IInv => PlanTypeOK
  <2> SUFFICES ASSUME IInv PROVE PlanTypeOK
    OBVIOUS
  <2>1. files \subseteq 1 .. Size /\ hunks \subseteq 1 .. Size
    BY GivenFacts DEF IInv
  <2>2. groups \subseteq SUBSET files
    BY GivenFacts DEF IInv
  <2>3. pending \subseteq Range0 /\ merged \in Seq(Range0) /\ cuts \subseteq 0 .. Size
    BY DEF IInv, PendingOK, MergedOK, Sound, Legal
  <2> QED
    BY <2>1, <2>2, <2>3 DEF IInv, GivenOK, UnitsOK, Stages, BeforeScan, PlanTypeOK
<1> QED
    BY <1>1, SpecIInv, PTL

\* A merged range lies in one unit of a plan that covers the diff.
LEMMA RangeInUnit ==
    ASSUME IInv, Start = Size, NEW j \in DOMAIN merged
    PROVE  \E i \in DOMAIN units :
             From(units, 0, i) <= merged[j].start /\ merged[j].end <= units[i]
<1>1. DiffOK /\ MergedOK /\ UnitsOK
    BY GivenFacts DEF IInv
<1>2. /\ units \in Seq(1 .. Size) /\ Len(units) \in Nat /\ DOMAIN units = 1 .. Len(units)
      /\ \A i \in DOMAIN units : Legal(units[i]) /\ units[i] \in Nat
  <2>1. Size \in Nat /\ units \in Seq(1 .. Size) /\ \A i \in DOMAIN units : LegalEnd(units[i])
    BY <1>1 DEF UnitsOK, DiffOK
  <2>2. \A i \in DOMAIN units : units[i] \in Nat
    BY <2>1
  <2>3. \A i \in DOMAIN units : Legal(units[i])
    BY <1>1, <2>1, LegalEndIs
  <2> QED
    BY <2>1, <2>2, <2>3
<1>3. /\ merged[j].start \in Nat /\ merged[j].end \in Nat
      /\ merged[j].start < merged[j].end /\ merged[j].end <= Size /\ Size \in Nat \ {0}
    BY <1>1 DEF MergedOK, Sound, Range0, DiffOK
<1> DEFINE T == {i \in DOMAIN units : merged[j].start < units[i]}
<1>4. T # {} /\ T \subseteq Nat
  <2>1. units # <<>>
    BY <1>3 DEF Start
  <2>2. Len(units) \in DOMAIN units /\ units[Len(units)] = Size
    BY <1>2, <2>1 DEF Start, Last
  <2>3. Len(units) \in T
    BY <1>3, <2>2
  <2> QED
    BY <1>2, <2>3
<1>5. PICK i \in T : \A k \in T : i <= k
    BY <1>4, Least
<1>6. i \in DOMAIN units /\ i \in Nat /\ i >= 1 /\ merged[j].start < units[i]
    BY <1>2, <1>5
<1>7. merged[j].end <= units[i]
  <2>1. ~(merged[j].start < units[i] /\ units[i] < merged[j].end)
    BY <1>2, <1>6 DEF Legal, Inside, Splits
  <2> QED
    BY <1>2, <1>3, <1>6, <2>1
<1>8. From(units, 0, i) <= merged[j].start
  <2>1. CASE i = 1
    BY <1>3, <2>1 DEF From
  <2>2. CASE i # 1
    <3>1. i - 1 \in DOMAIN units /\ i - 1 \notin T /\ From(units, 0, i) = units[i - 1]
        BY <1>2, <1>5, <1>6, <2>2 DEF From
    <3>2. ~(merged[j].start < units[i - 1]) /\ units[i - 1] \in Nat
        BY <1>2, <3>1
    <3> QED
        BY <1>3, <3>1, <3>2
  <2> QED
    BY <2>1, <2>2
<1> QED
    BY <1>6, <1>7, <1>8

\* The units of an admitted plan cover the diff in order, split neither a
\* character nor a semantic group, and keep both limits.
THEOREM PlanCovers == PlanSpec => []PlannedUnitsCover
<1>1. IInv => PlannedUnitsCover
  <2> SUFFICES ASSUME IInv, status = "planned"
               PROVE  Covers(units, 0) /\ Len(units) <= maxUnits /\ GroupsStayWhole
    BY DEF PlannedUnitsCover
  <2>1. UnitsOK /\ Start = Size /\ pending = {} /\ \A g \in groups : Kept(g)
    BY DEF IInv, BeforeScan
  <2>2. Covers(units, 0)
    BY <2>1, StartIs DEF UnitsOK, Covers
  <2>3. GroupsStayWhole
    <3> SUFFICES ASSUME NEW g \in groups
                 PROVE  \E i \in DOMAIN units : \A f \in g :
                          f <= units[i] /\ From(units, 0, i) <= FileStart(f)
        BY DEF GroupsStayWhole
    <3>1. PICK j \in DOMAIN merged :
            merged[j].start <= GroupRange(g).start /\ GroupRange(g).end <= merged[j].end
        BY <2>1 DEF Kept
    <3>2. PICK i \in DOMAIN units :
            From(units, 0, i) <= merged[j].start /\ merged[j].end <= units[i]
        BY <2>1, RangeInUnit
    <3>3. GivenOK /\ MergedOK /\ units \in Seq(1 .. Size)
        BY <2>1 DEF IInv, UnitsOK
    <3>4. /\ merged[j].start \in Nat /\ merged[j].end \in Nat
          /\ GroupRange(g).start \in Nat /\ GroupRange(g).end \in Nat
        BY <3>3, GroupRangeIs DEF MergedOK, Sound, Range0
    <3>5. units[i] \in Nat /\ From(units, 0, i) \in Nat
      <4>1. Size \in Nat /\ \A k \in DOMAIN units : units[k] \in Nat
        BY <3>3, GivenFacts DEF DiffOK
      <4>2. i # 1 => i - 1 \in DOMAIN units
        BY <3>3
      <4> QED
        BY <4>1, <4>2 DEF From
    <3>6. ASSUME NEW f \in g
          PROVE  f <= units[i] /\ From(units, 0, i) <= FileStart(f)
      <4>1. GroupRange(g).start <= FileStart(f) /\ f <= GroupRange(g).end
        BY <3>3, GroupRangeIs
      <4>2. f \in files
        BY <3>3, GivenFacts
      <4>3. f \in Nat /\ FileStart(f) \in Nat
        BY <3>3, <4>2, GivenFacts, FileStartIs
      <4> QED
        BY <3>1, <3>2, <3>4, <3>5, <4>1, <4>3
    <3> QED
        BY <3>6
  <2> QED
    BY <2>1, <2>2, <2>3 DEF UnitsOK
<1> QED
    BY <1>1, SpecIInv, PTL

\* A plan is refused for its unit count only when no choice of ends covers the
\* diff, and no preference of the loop ever costs the feasibility of the tail.
THEOREM NeverRefusesTheFeasible == PlanSpec => []RefusedOnlyIfUncoverable
<1>1. IInv => RefusedOnlyIfUncoverable
    BY DEF IInv
<1> QED
    BY <1>1, SpecIInv, PTL

-----------------------------------------------------------------------------
(* The exact revision gateway *)


\* A review that is done and did not fail: nothing changes it any more.
Passed ==
  /\ reviewer.done /\ ~reviewer.failed /\ reviewer.budget = "settled"
  /\ reviewer.packet \in Verdicts /\ answers = <<reviewer.packet>>
  /\ "receipt" \in public /\ "failure" \notin public

\* The gateway is not there before the job has installed it.
NotInstalled ==
  step \in {"materialize", "reread", "install"} => gateway = "absent"
Untouched ==
  gateway = "absent" =>
    /\ reviewer = [done |-> FALSE, failed |-> FALSE, budget |-> "none", packet |-> None]
    /\ public = {} /\ answers = <<>> /\ collector = "absent"

\* The first ending of the review counts.
Ending ==
  /\ reviewer.failed => reviewer.done
  /\ "failure" \in public => reviewer.failed
  /\ gateway \in {"exchange", "receipt"} => ~reviewer.done
  /\ reviewer.done /\ ~reviewer.failed => Passed

\* One request, so at most one answer, and the packet is that answer's.
OneAnswer ==
  /\ gateway = "exchange" => reviewer.budget = "unknown"
  /\ reviewer.budget \in {"none", "unknown"} => answers = <<>>
  /\ reviewer.packet # None => reviewer.budget = "settled" /\ answers = <<reviewer.packet>>
  /\ gateway = "receipt" => reviewer.packet \in Verdicts

\* What is released, collected, verified or reported comes from such a review.
Collection ==
  /\ gateway \in {"releasing", "publishing"} => Passed
  /\ collector \in {"released", "answered"} => Passed
  /\ gateway # "stopped" => {"collected", "collection-failure"} \cap public = {}
  /\ "collected" \in public => Passed /\ "collection-failure" \notin public
Verified ==
  /\ step \in {"verify", "compare", "report"} => "collected" \in public /\ result = reviewer.packet
  /\ check = "success" => Passed /\ reviewer.packet = "PASS"

Inv == TypeOK /\ NotInstalled /\ Untouched /\ Ending /\ OneAnswer /\ Collection /\ Verified
-----------------------------------------------------------------------------
LEMMA InitInv == Init => Inv
<1> SUFFICES ASSUME Init PROVE Inv
  OBVIOUS
<1>1. TypeOK
  BY GatewayAssumption DEF Init, TypeOK, Verdicts, Answers
<1>2. ~reviewer.done /\ ~reviewer.failed /\ reviewer.packet = None
  BY DEF Init
<1>3. NotInstalled /\ Untouched /\ Ending
  BY <1>2 DEF Init, NotInstalled, Untouched, Ending
<1>4. OneAnswer
  BY <1>2 DEF Init, OneAnswer
<1>5. Collection /\ Verified
  BY <1>2 DEF Init, Collection, Verified
<1> QED
  BY <1>1, <1>3, <1>4, <1>5 DEF Inv

ReviewType == [done : BOOLEAN, failed : BOOLEAN, budget : {"none", "unknown", "settled"},
               packet : Verdicts \union {None}]

\* fail(): the record and the files of a review that ended stay; another ends
\* failed, with the budget and the packet it had.
LEMMA FailReviewEnds ==
  ASSUME reviewer \in ReviewType, FailReview
  PROVE  /\ reviewer' \in ReviewType
         /\ reviewer.done => UNCHANGED <<reviewer, public>>
         /\ ~reviewer.done =>
              /\ reviewer'.done /\ reviewer'.failed
              /\ reviewer'.budget = reviewer.budget /\ reviewer'.packet = reviewer.packet
              /\ public' \in {public, public \union {"failure"}}
<1>1. CASE reviewer.done
  BY <1>1 DEF FailReview
<1>2. CASE ~reviewer.done
  BY <1>2 DEF FailReview, ReviewType
<1> QED
  BY <1>1, <1>2

\* The steps that touch the review, its answers or the files of its ending.
LEMMA ReviewSteps ==
  ASSUME [Next]_vars
  PROVE  \/ UNCHANGED <<reviewer, answers>>
         \/ FailReview /\ UNCHANGED answers /\ gateway \in {"serving", "exchange"}
         \/ \E w \in BOOLEAN : ReceiveRequest(w)
         \/ \E a \in Answers : ProviderAnswers(a)
         \/ WriteReceipt
  BY DEF Next, vars, job, box, Goto, Fails, MovePullRequest,
      DeadlinePasses, ReadLive, WriteWorkspace, WorkspaceDrifts, Install, EngineEnds, EngineFails,
      Consume, VerifyFirst, Verify, Report, FailClose, RunnerDies, ReceiveRequest, ProviderAnswers, AnswerLost,
      WriteReceipt, RequestAfterEnd, LeaveLoop, LoopDeadline, ReleaseCollector, CollectorReads,
      Publish, GatewayDies

LEMMA TypeStep == ASSUME TypeOK, OneAnswer, [Next]_vars PROVE TypeOK'
<1>1. reviewer \in ReviewType
  BY DEF TypeOK, ReviewType
<1>2. reviewer' \in ReviewType
  BY <1>1, FailReviewEnds, ReviewSteps
  DEF ReviewType, ReceiveRequest, ProviderAnswers, WriteReceipt, Verdicts
<1>3. answers' \in {<<>>} \union {<<a>> : a \in Answers}
  <2>1. CASE answers' = answers
    BY <2>1 DEF TypeOK
  <2>2. CASE \E a \in Answers : ProviderAnswers(a)
    <3>1. answers = <<>>
      BY <2>2 DEF OneAnswer, ProviderAnswers
    <3> QED
      BY <2>2, <3>1 DEF ProviderAnswers
  <2> QED
    BY <2>1, <2>2, ReviewSteps DEF ReceiveRequest, WriteReceipt
<1>4. pr' \in Revisions /\ workspace' \in Revisions \union {None} /\ late' \in BOOLEAN
      /\ result' \in Verdicts \union {None}
  BY GatewayAssumption DEF TypeOK, Verdicts, Next, vars, job, box, Goto, Fails, MovePullRequest,
      DeadlinePasses, ReadLive, WriteWorkspace, WorkspaceDrifts, Install, EngineEnds, EngineFails,
      Consume, VerifyFirst, Verify, Report, FailClose, RunnerDies, ReceiveRequest, ProviderAnswers, AnswerLost,
      WriteReceipt, RequestAfterEnd, LeaveLoop, LoopDeadline, ReleaseCollector, CollectorReads,
      Publish, GatewayDies
<1>5. step' \in {"materialize", "reread", "install", "engine", "consume", "verify", "compare",
                 "report", "failclose", "end"}
      /\ check' \in {"in_progress", "success", "failure"}
  BY DEF TypeOK, Next, vars, job, box, Goto, Fails, MovePullRequest,
      DeadlinePasses, ReadLive, WriteWorkspace, WorkspaceDrifts, Install, EngineEnds, EngineFails,
      Consume, VerifyFirst, Verify, Report, FailClose, RunnerDies, ReceiveRequest, ProviderAnswers, AnswerLost,
      WriteReceipt, RequestAfterEnd, LeaveLoop, LoopDeadline, ReleaseCollector, CollectorReads,
      Publish, GatewayDies
<1>6. gateway' \in {"absent", "serving", "exchange", "receipt", "releasing", "publishing",
                    "stopped"}
      /\ collector' \in {"absent", "ready", "released", "answered", "rejected"}
      /\ public' \subseteq {"port", "receipt", "failure", "collected", "collection-failure"}
  BY DEF TypeOK, Next, vars, job, box, Goto, Fails, MovePullRequest,
      DeadlinePasses, ReadLive, WriteWorkspace, WorkspaceDrifts, Install, EngineEnds, EngineFails,
      Consume, VerifyFirst, Verify, Report, FailClose, RunnerDies, ReceiveRequest, ProviderAnswers, AnswerLost,
      WriteReceipt, RequestAfterEnd, LeaveLoop, LoopDeadline, ReleaseCollector, CollectorReads,
      Publish, GatewayDies, FailReview
<1> QED
  BY <1>2, <1>3, <1>4, <1>5, <1>6 DEF TypeOK, ReviewType

\* Only a review that has not ended changes, and it ends once.
LEMMA PassedStays ==
  ASSUME Inv, Passed, [Next]_vars
  PROVE  Passed' /\ UNCHANGED <<reviewer, answers>>
<1>1. reviewer \in ReviewType /\ reviewer.done /\ ~reviewer.failed
      /\ gateway \notin {"absent", "exchange", "receipt"}
  BY DEF Inv, TypeOK, ReviewType, Passed, Ending, Untouched
<1>2. UNCHANGED <<reviewer, answers>>
  BY <1>1, ReviewSteps, FailReviewEnds DEF ReceiveRequest, ProviderAnswers, WriteReceipt
<1>3. "receipt" \in public' /\ "failure" \notin public'
  BY <1>1, <1>2, FailReviewEnds DEF Inv, NotInstalled, Passed, Next, vars, job, box, Goto, Fails, MovePullRequest,
      DeadlinePasses, ReadLive, WriteWorkspace, WorkspaceDrifts, Install, EngineEnds, EngineFails,
      Consume, VerifyFirst, Verify, Report, FailClose, RunnerDies, ReceiveRequest, ProviderAnswers, AnswerLost,
      WriteReceipt, RequestAfterEnd, LeaveLoop, LoopDeadline, ReleaseCollector, CollectorReads,
      Publish, GatewayDies
<1> QED
  BY <1>2, <1>3 DEF Passed
-----------------------------------------------------------------------------
\* What one step preserves, a conjunct at a time

LEMMA InstallSteps ==
  ASSUME Inv, [Next]_vars
  PROVE  NotInstalled' /\ Untouched'
<1>1. NotInstalled'
  BY DEF Inv, NotInstalled, Next, vars, job, box, Goto, Fails, MovePullRequest,
      DeadlinePasses, ReadLive, WriteWorkspace, WorkspaceDrifts, Install, EngineEnds, EngineFails,
      Consume, VerifyFirst, Verify, Report, FailClose, RunnerDies, ReceiveRequest, ProviderAnswers, AnswerLost,
      WriteReceipt, RequestAfterEnd, LeaveLoop, LoopDeadline, ReleaseCollector, CollectorReads,
      Publish, GatewayDies
<1>2. ASSUME gateway' = "absent"
      PROVE  gateway = "absent" /\ UNCHANGED <<reviewer, public, answers, collector>>
  BY <1>2 DEF Inv, NotInstalled, Untouched, Next, vars, job, box, Goto, Fails, MovePullRequest,
      DeadlinePasses, ReadLive, WriteWorkspace, WorkspaceDrifts, Install, EngineEnds, EngineFails,
      Consume, VerifyFirst, Verify, Report, FailClose, RunnerDies, ReceiveRequest, ProviderAnswers, AnswerLost,
      WriteReceipt, RequestAfterEnd, LeaveLoop, LoopDeadline, ReleaseCollector, CollectorReads,
      Publish, GatewayDies
<1>3. Untouched'
  BY <1>2 DEF Inv, Untouched
<1> QED
  BY <1>1, <1>3

LEMMA EndingStep ==
  ASSUME Inv, [Next]_vars
  PROVE  Ending'
<1>1. reviewer \in ReviewType /\ Ending /\ OneAnswer
  BY DEF Inv, TypeOK, ReviewType
<1>2. CASE Passed
  <2>1. Passed' /\ gateway' \notin {"exchange", "receipt"}
    BY <1>1, <1>2, PassedStays DEF Passed, Ending, Next, vars, job, box, Goto, Fails, MovePullRequest,
      DeadlinePasses, ReadLive, WriteWorkspace, WorkspaceDrifts, Install, EngineEnds, EngineFails,
      Consume, VerifyFirst, Verify, Report, FailClose, RunnerDies, ReceiveRequest, ProviderAnswers, AnswerLost,
      WriteReceipt, RequestAfterEnd, LeaveLoop, LoopDeadline, ReleaseCollector, CollectorReads,
      Publish, GatewayDies
  <2> QED
    BY <2>1 DEF Ending, Passed
<1>3. CASE ~Passed /\ WriteReceipt
  <2>1. ~reviewer.done /\ ~reviewer.failed /\ "failure" \notin public
    BY <1>1, <1>3 DEF Ending, WriteReceipt, ReviewType
  <2>2. reviewer'.done /\ gateway' = "serving"
    BY <1>1, <1>3 DEF WriteReceipt, ReviewType
  <2>3. CASE reviewer'.failed
    BY <2>2, <2>3 DEF Ending
  <2>4. CASE ~reviewer'.failed
    <3>1. /\ reviewer' = [reviewer EXCEPT !.done = TRUE] /\ public' = public \union {"receipt"}
          /\ UNCHANGED answers
      BY <1>1, <1>3, <2>4 DEF WriteReceipt, ReviewType
    <3>2. reviewer'.budget = "settled" /\ reviewer'.packet \in Verdicts
          /\ answers' = <<reviewer'.packet>>
      <4>1. reviewer.packet \in Verdicts
        BY <1>1, <1>3 DEF OneAnswer, WriteReceipt
      <4>2. reviewer.packet # None
        BY <4>1, GatewayAssumption DEF Verdicts
      <4>3. reviewer'.budget = reviewer.budget /\ reviewer'.packet = reviewer.packet
        BY <1>1, <3>1 DEF ReviewType
      <4> QED
        BY <1>1, <3>1, <4>1, <4>2, <4>3 DEF OneAnswer
    <3>3. Passed'
      BY <2>1, <2>2, <2>4, <3>1, <3>2 DEF Passed
    <3> QED
      BY <2>1, <2>2, <2>4, <3>1, <3>3 DEF Ending
  <2> QED
    BY <2>3, <2>4
<1>4. CASE ~Passed /\ ~WriteReceipt
  <2>1. reviewer.done => UNCHANGED reviewer
    BY <1>1, <1>4, ReviewSteps, FailReviewEnds DEF Ending, ReceiveRequest, ProviderAnswers
  <2>2. reviewer'.done => reviewer'.failed
    BY <1>1, <1>4, <2>1, ReviewSteps, FailReviewEnds
    DEF Ending, ReceiveRequest, ProviderAnswers, ReviewType
  <2>3. reviewer'.failed => reviewer'.done
    BY <1>1, <1>4, <2>1, ReviewSteps, FailReviewEnds
    DEF Ending, ReceiveRequest, ProviderAnswers, ReviewType
  <2>4. "failure" \in public' => reviewer'.failed
    <3>2. CASE FailReview
      BY <1>1, <3>2, FailReviewEnds DEF Ending
    <3>3. CASE \E a \in Answers : ProviderAnswers(a)
      BY <1>1, <3>3 DEF Ending, ProviderAnswers, ReviewType
    <3>4. ASSUME "failure" \in public', ~FailReview, ~\E a \in Answers : ProviderAnswers(a)
          PROVE  "failure" \in public /\ reviewer'.failed = reviewer.failed
      BY <1>1, <1>4, <3>4 DEF ReviewType, Next, vars, job, box, Goto, Fails, MovePullRequest,
      DeadlinePasses, ReadLive, WriteWorkspace, WorkspaceDrifts, Install, EngineEnds, EngineFails,
      Consume, VerifyFirst, Verify, Report, FailClose, RunnerDies, ReceiveRequest, AnswerLost,
      WriteReceipt, RequestAfterEnd, LeaveLoop, LoopDeadline, ReleaseCollector, CollectorReads,
      Publish, GatewayDies
    <3> QED
      BY <1>1, <3>2, <3>3, <3>4 DEF Ending
  <2>5. gateway' \in {"exchange", "receipt"} => ~reviewer'.done
    BY <1>1, <1>4, <2>1, FailReviewEnds
    DEF Ending, ReviewType, Next, vars, job, box, Goto, Fails, MovePullRequest,
      DeadlinePasses, ReadLive, WriteWorkspace, WorkspaceDrifts, Install, EngineEnds, EngineFails,
      Consume, VerifyFirst, Verify, Report, FailClose, RunnerDies, ReceiveRequest, ProviderAnswers, AnswerLost,
      WriteReceipt, RequestAfterEnd, LeaveLoop, LoopDeadline, ReleaseCollector, CollectorReads,
      Publish, GatewayDies
  <2> QED
    BY <2>2, <2>3, <2>4, <2>5 DEF Ending
<1> QED
  BY <1>2, <1>3, <1>4

LEMMA OneAnswerStep ==
  ASSUME Inv, [Next]_vars
  PROVE  OneAnswer'
<1>1. reviewer \in ReviewType /\ Ending /\ OneAnswer
  BY DEF Inv, TypeOK, ReviewType
<1>2. CASE \E a \in Answers : ProviderAnswers(a)
  <2>1. PICK a \in Answers : ProviderAnswers(a)
    BY <1>2
  <2>2. answers = <<>> /\ reviewer.packet = None
    BY <1>1, <2>1 DEF OneAnswer, ProviderAnswers, ReviewType
  <2>3. answers' = <<a>> /\ gateway' # "exchange"
    BY <2>1, <2>2 DEF ProviderAnswers
  <2>4. reviewer'.budget = "settled"
    BY <1>1, <2>1 DEF ProviderAnswers, ReviewType
  <2>5. reviewer'.packet \in {None, a} /\ (gateway' = "receipt" => reviewer'.packet \in Verdicts)
    BY <1>1, <2>1, <2>2 DEF ProviderAnswers, ReviewType
  <2> QED
    BY <2>3, <2>4, <2>5 DEF OneAnswer
<1>3. CASE \E w \in BOOLEAN : ReceiveRequest(w)
  <2>1. PICK w \in BOOLEAN : ReceiveRequest(w)
    BY <1>3
  <2> QED
    BY <1>1, <2>1, FailReviewEnds DEF OneAnswer, ReceiveRequest, ReviewType
<1>4. CASE UNCHANGED answers /\ reviewer'.budget = reviewer.budget
           /\ reviewer'.packet = reviewer.packet
  <2>1. gateway' \in {"exchange", "receipt"} => UNCHANGED gateway
    BY <1>1, <1>4 DEF OneAnswer, ReviewType, Next, vars, job, box, Goto, Fails, MovePullRequest,
      DeadlinePasses, ReadLive, WriteWorkspace, WorkspaceDrifts, Install, EngineEnds, EngineFails,
      Consume, VerifyFirst, Verify, Report, FailClose, RunnerDies, ReceiveRequest, ProviderAnswers, AnswerLost,
      WriteReceipt, RequestAfterEnd, LeaveLoop, LoopDeadline, ReleaseCollector, CollectorReads,
      Publish, GatewayDies
  <2> QED
    BY <1>1, <1>4, <2>1 DEF OneAnswer
<1>5. CASE WriteReceipt
  BY <1>1, <1>5 DEF OneAnswer, WriteReceipt, ReviewType
<1> QED
  BY <1>1, <1>2, <1>3, <1>4, <1>5, ReviewSteps, FailReviewEnds

LEMMA CollectionStep ==
  ASSUME Inv, [Next]_vars
  PROVE  Collection'
<1>1. reviewer \in ReviewType /\ Ending /\ Collection
  BY DEF Inv, TypeOK, ReviewType
<1>2. ASSUME gateway' \in {"releasing", "publishing"} PROVE Passed
  BY <1>1, <1>2 DEF Ending, Collection, Next, vars, job, box, Goto, Fails, MovePullRequest,
      DeadlinePasses, ReadLive, WriteWorkspace, WorkspaceDrifts, Install, EngineEnds, EngineFails,
      Consume, VerifyFirst, Verify, Report, FailClose, RunnerDies, ReceiveRequest, ProviderAnswers, AnswerLost,
      WriteReceipt, RequestAfterEnd, LeaveLoop, LoopDeadline, ReleaseCollector, CollectorReads,
      Publish, GatewayDies
<1>3. ASSUME collector' \in {"released", "answered"} PROVE Passed
  BY <1>1, <1>3 DEF Ending, Collection, Next, vars, job, box, Goto, Fails, MovePullRequest,
      DeadlinePasses, ReadLive, WriteWorkspace, WorkspaceDrifts, Install, EngineEnds, EngineFails,
      Consume, VerifyFirst, Verify, Report, FailClose, RunnerDies, ReceiveRequest, ProviderAnswers, AnswerLost,
      WriteReceipt, RequestAfterEnd, LeaveLoop, LoopDeadline, ReleaseCollector, CollectorReads,
      Publish, GatewayDies
<1>4. ASSUME gateway' # "stopped" PROVE {"collected", "collection-failure"} \cap public' = {}
  BY <1>4, FailReviewEnds DEF Inv, Untouched, NotInstalled, Collection, FailReview, Next, vars, job, box, Goto, Fails, MovePullRequest,
      DeadlinePasses, ReadLive, WriteWorkspace, WorkspaceDrifts, Install, EngineEnds, EngineFails,
      Consume, VerifyFirst, Verify, Report, FailClose, RunnerDies, ReceiveRequest, ProviderAnswers, AnswerLost,
      WriteReceipt, RequestAfterEnd, LeaveLoop, LoopDeadline, ReleaseCollector, CollectorReads,
      Publish, GatewayDies
<1>5. ASSUME "collected" \in public' PROVE Passed /\ "collection-failure" \notin public'
  <2>1. CASE Publish
    BY <1>1, <1>5, <2>1 DEF Collection, Publish
  <2>2. CASE ~Publish
    <3>1. {"collected", "collection-failure"} \cap public' \subseteq public
      BY <2>2 DEF FailReview, Next, vars, job, box, Goto, Fails, MovePullRequest,
      DeadlinePasses, ReadLive, WriteWorkspace, WorkspaceDrifts, Install, EngineEnds, EngineFails,
      Consume, VerifyFirst, Verify, Report, FailClose, RunnerDies, ReceiveRequest, ProviderAnswers, AnswerLost,
      WriteReceipt, RequestAfterEnd, LeaveLoop, LoopDeadline, ReleaseCollector, CollectorReads, GatewayDies
    <3> QED
      BY <1>1, <1>5, <3>1 DEF Collection
  <2> QED
    BY <2>1, <2>2
<1>6. Passed => Passed'
  BY PassedStays
<1> QED
  BY <1>2, <1>3, <1>4, <1>5, <1>6 DEF Collection

LEMMA VerifiedStep ==
  ASSUME Inv, [Next]_vars
  PROVE  Verified'
<1>1. Collection /\ Verified /\ (Passed => Passed' /\ UNCHANGED reviewer)
  BY PassedStays DEF Inv
<1>2. ASSUME step' \in {"verify", "compare", "report"}
      PROVE  "collected" \in public /\ result' = reviewer.packet
  BY <1>1, <1>2 DEF Verified, Next, vars, job, box, Goto, Fails, MovePullRequest,
      DeadlinePasses, ReadLive, WriteWorkspace, WorkspaceDrifts, Install, EngineEnds, EngineFails,
      Consume, VerifyFirst, Verify, Report, FailClose, RunnerDies, ReceiveRequest, ProviderAnswers, AnswerLost,
      WriteReceipt, RequestAfterEnd, LeaveLoop, LoopDeadline, ReleaseCollector, CollectorReads,
      Publish, GatewayDies
<1>3. "collected" \in public => "collected" \in public'
  BY FailReviewEnds DEF Inv, NotInstalled, Untouched, FailReview, Next, vars, job, box, Goto, Fails, MovePullRequest,
      DeadlinePasses, ReadLive, WriteWorkspace, WorkspaceDrifts, Install, EngineEnds, EngineFails,
      Consume, VerifyFirst, Verify, Report, FailClose, RunnerDies, ReceiveRequest, ProviderAnswers, AnswerLost,
      WriteReceipt, RequestAfterEnd, LeaveLoop, LoopDeadline, ReleaseCollector, CollectorReads,
      Publish, GatewayDies
<1>4. ASSUME check' = "success" PROVE Passed /\ reviewer.packet = "PASS"
  BY <1>1, <1>4 DEF Verified, Collection, Next, vars, job, box, Goto, Fails, MovePullRequest,
      DeadlinePasses, ReadLive, WriteWorkspace, WorkspaceDrifts, Install, EngineEnds, EngineFails,
      Consume, VerifyFirst, Verify, Report, FailClose, RunnerDies, ReceiveRequest, ProviderAnswers, AnswerLost,
      WriteReceipt, RequestAfterEnd, LeaveLoop, LoopDeadline, ReleaseCollector, CollectorReads,
      Publish, GatewayDies
<1>5. "collected" \in public => UNCHANGED reviewer
  BY <1>1 DEF Collection
<1> QED
  BY <1>1, <1>2, <1>3, <1>4, <1>5 DEF Verified

LEMMA NextInv == ASSUME Inv, [Next]_vars PROVE Inv'
<1>1. TypeOK'
  BY TypeStep DEF Inv
<1> QED
  BY <1>1, InstallSteps, EndingStep, OneAnswerStep, CollectionStep, VerifiedStep DEF Inv

LEMMA Invariance == Spec => []Inv
<1>1. Init => Inv
  BY InitInv
<1>2. Inv /\ [Next]_vars => Inv'
  BY NextInv
<1> QED
  BY <1>1, <1>2, PTL DEF Spec
-----------------------------------------------------------------------------
\* Every field of the run keeps its type for any set of revisions: in particular the
\* provider gives at most one answer, as max_requests = 1 promises.
THEOREM GatewayTypes == Spec => []TypeOK
<1>1. Inv => TypeOK
  BY DEF Inv
<1> QED
  BY <1>1, Invariance, PTL

\* The check run succeeds only on a PASS the provider gave to the one request of a
\* review that did not fail, whatever the engine wrote and whatever died.
THEOREM SuccessIsProviders == Spec => []SuccessIsProvidersPass
<1>1. Inv => SuccessIsProvidersPass
  BY DEF Inv, Verified, Passed, SuccessIsProvidersPass
<1> QED
  BY <1>1, Invariance, PTL

\* fail(), the deadline and the completion race: what the collector published is
\* never the result of a review that failed, before or after.
THEOREM FailedNeverPublished == Spec => []FailedIsNotPublished
<1>1. Inv => FailedIsNotPublished
  BY DEF Inv, Collection, Passed, FailedIsNotPublished
<1> QED
  BY <1>1, Invariance, PTL

\* verify() lets a verdict reach the report only while the pull request is at the
\* expected revision, and only the verdict that was collected.
THEOREM ReportAboutLive == Spec => ReportIsAboutLiveRevision
<1>1. ASSUME Inv, [Next]_vars, step' = "report", step # "report"
      PROVE  pr = Expected /\ result \in Verdicts /\ result = reviewer.packet
  <2>1. Verify
    BY <1>1 DEF Next, vars, job, box, Goto, Fails, MovePullRequest,
      DeadlinePasses, ReadLive, WriteWorkspace, WorkspaceDrifts, Install, EngineEnds, EngineFails,
      Consume, VerifyFirst, Verify, Report, FailClose, RunnerDies, ReceiveRequest, ProviderAnswers, AnswerLost,
      WriteReceipt, RequestAfterEnd, LeaveLoop, LoopDeadline, ReleaseCollector, CollectorReads,
      Publish, GatewayDies
  <2>2. pr = Expected /\ step = "compare"
    BY <1>1, <2>1 DEF Verify, LiveIsExpected, Fails
  <2> QED
    BY <1>1, <2>2 DEF Inv, Verified, Collection, Passed
<1>2. Inv /\ [Next]_vars =>
        [step' = "report" /\ step # "report" =>
           pr = Expected /\ result \in Verdicts /\ result = reviewer.packet]_vars
  BY <1>1
<1> QED
  BY <1>2, Invariance, PTL DEF Spec, ReportIsAboutLiveRevision
=============================================================================
