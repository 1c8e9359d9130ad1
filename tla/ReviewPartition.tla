--------------------------- MODULE ReviewPartition ---------------------------
(***************************************************************************)
(* The coverage kernel of scripts/bounded_review.py: a diff is cut into    *)
(* review units.  plan() merges the ranges of the semantic groups one by   *)
(* one and collects the preferred cuts, partition() scans the bytes once,  *)
(* and the number of units is admitted against the time and cost limits.   *)
(* A byte is one of the five classes the scan tells apart, an offset is    *)
(* the number of bytes before it; one step is one turn of the loop of      *)
(* plan() or of partition().                                               *)
(***************************************************************************)
EXTENDS Integers, Sequences, FiniteSets, SequencesExt, FiniteSetsExt

CONSTANTS
  MaxUnitBytes,   \* MAX_UNIT_BYTES
  MaxUnits,       \* MAX_UNITS
  MaxGroups,      \* bound: semantic groups
  MaxReviews,     \* what max_review_seconds and max_cost_microusd pay for
  Payloads        \* diffs that inventory() accepts, as sequences of bytes

Plain == "plain"  Lead == "lead"  Cont == "cont"  CR == "cr"  LF == "lf"
Byte == {Plain, Lead, Cont, CR, LF}

\* A diff is text(): no character begins or goes on with a line feed.
ASSUME PartitionAssumption ==
  /\ MaxUnitBytes \in Nat \ {0} /\ MaxUnits \in Nat \ {0}
  /\ MaxGroups \in Nat /\ MaxReviews \in Nat
  /\ Payloads \subseteq Seq(Byte)
  /\ \A bytes \in Payloads : \A i \in DOMAIN bytes :
       bytes[i] = Cont => i > 1 /\ bytes[i - 1] # LF

VARIABLES
  payload,    \* the exact diff
  files,      \* the file records, each by its end
  hunks,      \* end offsets of the hunks
  groups,     \* semantic groups: sets of files
  maxUnits,   \* the tightened unit budget of the policy
  pending,    \* the ranges of groups that are not merged yet
  merged,     \* merged_ranges
  cuts,       \* preferred cuts
  units,      \* the end offset of each unit produced so far
  status      \* the stage of plan(), "planned" or the refusal

planVars == <<payload, files, hunks, groups, maxUnits, pending, merged, cuts, units, status>>
given == <<payload, files, hunks, groups, maxUnits>>

Range0 == [start : Nat, end : Nat]
Size == Len(payload)
Start == IF units = <<>> THEN 0 ELSE Last(units)
FileStart(f) == Max({0} \union {e \in files : e < f})

\* What inventory() returns: records that end at line ends, one after another,
\* up to the last byte, each with hunks that end inside it at line ends.
LineEnds(bytes) == {i \in DOMAIN bytes : bytes[i] = LF}
Records(bytes) == {ends \in SUBSET LineEnds(bytes) : Len(bytes) \in ends}

\* validate_policy(): no file is named by two semantic groups.
DisjointGroups(names) ==
  {{{n \in names : of[n] = i} : i \in 1..MaxGroups} \ {{}} : of \in [names -> 0..MaxGroups]}

\* The next byte continues a character: payload[p] & 0xC0 == 0x80.
Continues(p) == p < Size /\ payload[p + 1] = Cont
Splits(r, p) == r.start < p /\ p < r.end
Inside(p) == \E i \in DOMAIN merged : Splits(merged[i], p)

\* The range of a semantic group: from its first file to its last.
GroupRange(g) == [start |-> Min({FileStart(f) : f \in g}), end |-> Max(g)]
EarlierRange(r, s) == r.start < s.start \/ (r.start = s.start /\ r.end < s.end)

Boundaries ==
  files
    \union {h \in hunks : \E f \in files :
              FileStart(f) < h /\ h <= f /\ f - FileStart(f) > MaxUnitBytes}
    \union UNION {{merged[i].start, merged[i].end} : i \in DOMAIN merged}

\* farthest(): the largest end of a unit that starts at p and breaks neither a
\* group nor a character.
Farthest(p) ==
  LET limit == Min({p + MaxUnitBytes, Size})
      outside == IF Inside(limit)
                 THEN merged[CHOOSE i \in DOMAIN merged : Splits(merged[i], limit)].start
                 ELSE limit
  IN  Max({0} \union {e \in 0..outside : ~Continues(e)})

\* fits(): the greedy walk with the farthest ends covers the tail in the slots.
Farther(p) == IF p = Size THEN p ELSE Max({p, Farthest(p)})
Walk(p) == LET at[k \in Nat] == IF k = 0 THEN p ELSE Farther(at[k - 1]) IN at
Fits(p, slots) == Walk(p)[slots] = Size

PlanInit ==
  /\ payload \in Payloads
  /\ files \in Records(payload)
  /\ hunks \in SUBSET (LineEnds(payload) \ files)
  /\ groups \in DisjointGroups(files)
  /\ maxUnits \in 1..MaxUnits
  /\ pending = {GroupRange(g) : g \in groups}
  /\ merged = <<>> /\ cuts = {} /\ units = <<>> /\ status = "merging"

\* Mutant: overlapping ranges are kept side by side.
OverlapsNever(r) == FALSE
Overlaps(r) == merged # <<>> /\ r.start < Last(merged).end
Joined(r) ==
  IF Overlaps(r) THEN [start |-> Last(merged).start, end |-> Max({r.end, Last(merged).end})]
  ELSE r

\* The next range in order joins the last merged one, or follows it.
MergeRange ==
  /\ status = "merging"
  /\ \E r \in pending :
       /\ \A s \in pending \ {r} : EarlierRange(r, s)
       /\ pending' = pending \ {r}
       /\ IF Joined(r).end - Joined(r).start > MaxUnitBytes
          THEN status' = "semantic-group-over-limit" /\ UNCHANGED merged
          ELSE /\ merged' = IF Overlaps(r) THEN [merged EXCEPT ![Len(merged)] = Joined(r)]
                            ELSE Append(merged, r)
               /\ UNCHANGED status
  /\ UNCHANGED <<given, cuts, units>>

\* partition() up to its loop.
Prepare ==
  /\ status = "merging" /\ pending = {}
  /\ cuts' = {c \in Boundaries \union {Size} : ~Inside(c)}
  /\ status' = IF Fits(0, maxUnits) THEN "cutting" ELSE "unit-count-budget"
  /\ UNCHANGED <<given, pending, merged, units>>

\* Mutant: a preferred cut is taken without asking whether the tail fits.
ChosenEndGreedy ==
  LET within == {c \in cuts : c <= Farthest(Start)}
      preferred == IF within = {} THEN 0 ELSE Max(within)
  IN  IF preferred > Start THEN preferred ELSE Farthest(Start)
\* The end the loop chooses: the last preferred cut within reach if the tail
\* still fits, else one byte less to keep CR LF together if that fits, else the
\* farthest end.
ChosenEnd ==
  LET end == Farthest(Start)
      remaining == maxUnits - Len(units) - 1
      within == {c \in cuts : c <= end}
      preferred == IF within = {} THEN 0 ELSE Max(within)
  IN  IF preferred > Start /\ Fits(preferred, remaining) THEN preferred
      ELSE IF /\ end - 1 > Start /\ end < Size
              /\ payload[end] = CR /\ payload[end + 1] = LF
              /\ ~Inside(end - 1)
              /\ Fits(end - 1, remaining)
           THEN end - 1
           ELSE end

\* One turn of the loop; validate_unit() refuses a unit that is not text or has
\* not a legal size.
Cut ==
  /\ status = "cutting" /\ Start < Size
  /\ LET end == ChosenEnd IN
       IF Continues(end)
       THEN status' = "non-utf8-input" /\ UNCHANGED units
       ELSE IF end - Start \notin 1..MaxUnitBytes
       THEN status' = "unit-byte-boundary" /\ UNCHANGED units
       ELSE /\ units' = Append(units, end)
            /\ status' = IF Len(units') > maxUnits THEN "late-unit-count" ELSE status
  /\ UNCHANGED <<given, pending, merged, cuts>>

\* One review per unit and one integration review must be affordable.
Admit ==
  /\ status = "cutting" /\ Start = Size
  /\ status' = IF Len(units) + 1 <= MaxReviews THEN "planned" ELSE "time-or-cost-admission"
  /\ UNCHANGED <<given, pending, merged, cuts, units>>

PlanNext == MergeRange \/ Prepare \/ Cut \/ Admit
PlanSpec == PlanInit /\ [][PlanNext]_planVars

-----------------------------------------------------------------------------
\* Where the i-th of some consecutive units that begin at p begins.
From(ends, p, i) == IF i = 1 THEN p ELSE ends[i - 1]

\* Reference: a unit may end here.
LegalEnd(p) == p = Size \/ (p \in 1..(Size - 1) /\ ~Continues(p) /\ ~Inside(p))
\* Reference: some choice of ends covers the tail from p in at most n units.
Covers(ends, p) ==
  /\ From(ends, p, Len(ends) + 1) = Size
  /\ \A i \in DOMAIN ends : LegalEnd(ends[i]) /\ ends[i] - From(ends, p, i) \in 1..MaxUnitBytes
Coverable(p, n) ==
  \E m \in 0..n : \E ends \in [1..m -> {q \in (p + 1)..Size : LegalEnd(q)}] : Covers(ends, p)

\* Every refusal of the scan after the first unit is out of reach.
PlanTypeOK ==
  /\ payload \in Payloads /\ files \subseteq 1..Size /\ hunks \subseteq 1..Size
  /\ groups \subseteq SUBSET files /\ maxUnits \in 1..MaxUnits
  /\ pending \subseteq Range0 /\ merged \in Seq(Range0)
  /\ cuts \subseteq 0..Size /\ units \in Seq(1..Size)
  /\ status \in {"merging", "cutting", "planned", "semantic-group-over-limit",
                 "unit-count-budget", "time-or-cost-admission"}

\* A semantic group that is admitted is reviewed in one unit.
GroupsStayWhole ==
  \A g \in groups : \E i \in DOMAIN units :
    \A f \in g : f <= units[i] /\ From(units, 0, i) <= FileStart(f)

\* The units cover the whole diff in order, never split a character or a group,
\* and respect both limits (the claim of partition() and of plan()'s units).
PlannedUnitsCover ==
  status = "planned" => Covers(units, 0) /\ Len(units) <= maxUnits /\ GroupsStayWhole

\* "file/hunk and CRLF boundaries are preferences, never a reason to reject a
\* feasible input": the scan refuses exactly what no choice of ends covers, and
\* whatever preference a turn follows, the rest stays coverable in the units left.
RefusedOnlyIfUncoverable ==
  /\ status = "unit-count-budget" => ~Coverable(0, maxUnits)
  /\ status = "cutting" => Coverable(Start, maxUnits - Len(units))

=============================================================================
