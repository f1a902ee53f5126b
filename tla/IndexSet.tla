------------------------------ MODULE IndexSet ------------------------------
(***************************************************************************)
(* IndexSet (src/core/basetypes/MCIndexSet.cpp), the set of message        *)
(* numbers or UIDs every IMAP operation takes: a sorted array of ranges,   *)
(* searched by bisection; and its conversion to the sets of the protocol   *)
(* (src/core/imap/MCIMAPSession.cpp).  indexes is the set of integers the  *)
(* index set is meant to be.  Indices of the array start at 0.             *)
(***************************************************************************)
EXTENDS Range, SequencesExt

CONSTANTS
  UINT32_MAX,   \* the largest number the protocol has
  Inputs,       \* the ranges clients give
  Straddling,   \* whether they add ranges that straddle two (see Straddles)
  splitCount    \* items in one command of a copy, move or store

ASSUME IndexSetAssumption ==
  /\ UINT32_MAX \in Nat /\ UINT32_MAX < UINT64_MAX
  /\ Inputs \subseteq Ranges
  /\ Straddling \in BOOLEAN
  /\ splitCount \in Nat \ {0}

VARIABLES
  mRanges,
  indexes       \* history: the integers added and not removed

vars == <<mRanges, indexes>>

At(s, i) == s[i + 1]
Members(s) == UNION {Indexes(s[k]) : k \in 1..Len(s)}

-----------------------------------------------------------------------------
\* Bisection: the first range that does not end before idx ...
leftRangeIndexForIndex(s, idx) ==
  LET places == 0..(Len(s) - 1)
      search[left \in places] == [right \in places |->
        LET middle == (left + right) \div 2
            before == RangeRightBound(At(s, middle)) < idx
        IN  IF left = right THEN left + (IF before THEN 1 ELSE 0)
            ELSE IF before THEN search[middle + 1][right]
            ELSE search[left][middle]]
  IN  IF s = <<>> THEN 0 ELSE search[0][Len(s) - 1]

\* ... and the range that holds it, if any.
containsIndex(s, idx) ==
  LET places == 0..(Len(s) - 1)
      search[left \in places] == [right \in places |->
        LET middle == (left + right) \div 2
            r == At(s, middle)
        IN  \/ r.location <= idx /\ idx <= RangeRightBound(r)
            \/ /\ left # right
               /\ IF idx < r.location
                  THEN search[left][middle] ELSE search[middle + 1][right]]
  IN  s # <<>> /\ search[0][Len(s) - 1]

removeRangeIndex(s, i, count) ==
  SubSeq(s, 1, i) \o SubSeq(s, i + count + 1, Len(s))

\* The range at i swallows the ranges after it that it reaches into.
mergeRanges(s, i) ==
  LET reached == {j \in i..(Len(s) - 1) :
                    \A k \in i..j : RangeHasIntersection(At(s, i), At(s, k))}
      right == Max(reached \cup {i})
  IN  IF right = i THEN s
      ELSE ReplaceAt(removeRangeIndex(s, i + 1, right - i), i + 1,
                     RangeUnion(At(s, i), At(s, right)))

tryToMergeAdjacentRanges(s, i) ==
  IF \/ RangeRightBound(At(s, i)) = UINT64_MAX
     \/ RangeRightBound(At(s, i)) + 1 # At(s, i + 1).location
  THEN s
  ELSE ReplaceAt(removeRangeIndex(s, i + 1, 1), i + 1,
                 RangeMake(At(s, i).location,
                           RangeRightBound(At(s, i + 1)) - At(s, i).location))

addRange(s, r) ==
  LET i == leftRangeIndexForIndex(s, r.location)
      merged == mergeRanges(InsertAt(s, i + 1, r), i)
      left == IF i > 0 THEN tryToMergeAdjacentRanges(merged, i - 1) ELSE merged
  IN  IF i < Len(left) - 1 THEN tryToMergeAdjacentRanges(left, i) ELSE left

\* Mutant: only the first range that meets r is looked at.
removeRange_First(s, r) ==
  LET left == leftRangeIndexForIndex(s, r.location)
  IN  IF left = Len(s) THEN s
      ELSE SubSeq(s, 1, left) \o RangeRemoveRange(At(s, left), r)
             \o SubSeq(s, left + 2, Len(s))

\* Every range from the left one on that meets r gives way to what is left of
\* it: nothing, one range or, when r lies inside of it, two.
removeRange(s, r) ==
  LET left == leftRangeIndexForIndex(s, r.location)
      hit == {j \in left..(Len(s) - 1) :
                \A k \in left..j : RangeHasIntersection(At(s, k), r)}
      n == Cardinality(hit)
  IN  SubSeq(s, 1, left)
        \o FlattenSeq([k \in 1..n |-> RangeRemoveRange(s[left + k], r)])
        \o SubSeq(s, left + n + 1, Len(s))

\* What is not below r, and not above it.
intersectsRange(s, r) ==
  LET right == RangeRightBound(r)
      below == removeRange(s, RangeMake(0, Wrap(r.location - 1)))
  IN  IF right = UINT64_MAX THEN below
      ELSE removeRange(below, RangeMake(right + 1, UINT64_MAX))

addIndexSet(s, t) == FoldLeft(addRange, s, t)
removeIndexSet(s, t) == FoldLeft(removeRange, s, t)
intersectsIndexSet(s, t) ==
  addIndexSet(<<>>,
    FoldLeft(LAMBDA acc, r : addIndexSet(acc, intersectsRange(s, r)), <<>>, t))

-----------------------------------------------------------------------------
\* The protocol's sets: sequences of first:last, 0 standing for "*", with the
\* bounds cut down to 32 bits.
Uint32(x) == x % (UINT32_MAX + 1)

setFromIndexSet(s) ==
  [k \in 1..Len(s) |->
     LET right == RangeRightBound(s[k])
     IN  <<Uint32(s[k].location), Uint32(IF right = UINT64_MAX THEN 0 ELSE right)>>]

indexSetFromSet(set) ==
  LET RangeOf(item) == IF item[2] = 0 THEN RangeMake(item[1], UINT64_MAX)
                       ELSE RangeMake(item[1], item[2] - item[1])
  IN  FoldLeft(LAMBDA s, item : addRange(s, RangeOf(item)), <<>>, set)

\* Mutant: the items left over after the last full command are dropped.
splitSet_NoRemainder(set) ==
  [c \in 1..(Len(set) \div splitCount) |->
     SubSeq(set, (c - 1) * splitCount + 1, c * splitCount)]

splitSet(set) ==
  LET commands == (Len(set) + splitCount - 1) \div splitCount
  IN  [c \in 1..commands |->
         SubSeq(set, (c - 1) * splitCount + 1,
                     IF c = commands THEN Len(set) ELSE c * splitCount)]

-----------------------------------------------------------------------------
Init == mRanges = <<>> /\ indexes = {}

\* r begins inside a range and reaches a later one: mergeRanges() then takes
\* the union with the last range only, and what the first had below r is lost.
Straddles(s, r) ==
  \E j, k \in 1..Len(s) :
    /\ j < k
    /\ s[j].location < r.location /\ r.location <= RangeRightBound(s[j])
    /\ s[k].location <= RangeRightBound(r)

AddRange(r) ==
  /\ Straddles(mRanges, r) => Straddling
  /\ mRanges' = addRange(mRanges, r)
  /\ indexes' = indexes \cup Indexes(r)

RemoveRange(r) ==
  /\ mRanges' = removeRange(mRanges, r)
  /\ indexes' = indexes \ Indexes(r)

IntersectsRange(r) ==
  /\ mRanges' = intersectsRange(mRanges, r)
  /\ indexes' = indexes \cap Indexes(r)

\* Other index sets are made of at most two ranges.
Operands == {addRange(addRange(<<>>, r1), r2) : r1, r2 \in Inputs}

AddIndexSet(t) ==
  /\ Straddling \/ \A k \in 1..Len(t) :
                     ~Straddles(addIndexSet(mRanges, SubSeq(t, 1, k - 1)), t[k])
  /\ mRanges' = addIndexSet(mRanges, t)
  /\ indexes' = indexes \cup Members(t)

RemoveIndexSet(t) ==
  /\ mRanges' = removeIndexSet(mRanges, t)
  /\ indexes' = indexes \ Members(t)

IntersectsIndexSet(t) ==
  /\ mRanges' = intersectsIndexSet(mRanges, t)
  /\ indexes' = indexes \cap Members(t)

RemoveAllIndexes == mRanges' = <<>> /\ indexes' = {}

Next ==
  \/ \E r \in Inputs : AddRange(r) \/ RemoveRange(r) \/ IntersectsRange(r)
  \/ \E t \in Operands :
       AddIndexSet(t) \/ RemoveIndexSet(t) \/ IntersectsIndexSet(t)
  \/ RemoveAllIndexes

Spec == Init /\ [][Next]_vars

-----------------------------------------------------------------------------
\* The array holds sensible ranges.
TypeOK ==
  /\ mRanges \in Seq(Ranges)
  /\ indexes \subseteq Uint64

\* The ranges are in order and have no index in common.
RangesInOrder ==
  \A j, k \in 1..Len(mRanges) :
    j < k => RangeRightBound(mRanges[j]) < mRanges[k].location

\* Bisection finds every index, and no other.
ContainsWhatItHolds ==
  \A i \in Uint64 \ {UINT64_MAX} : containsIndex(mRanges, i) <=> i \in indexes

\* After any calls, whichever ranges were merged, cut or split, the array
\* stands for exactly the integers that were added and not removed since, in
\* an order without which neither bisection, nor the next merge, nor the
\* protocol's sets would be right.
StandsForIndexes ==
  /\ Members(mRanges) = indexes
  /\ RangesInOrder
  /\ ContainsWhatItHolds

\* A set survives the way to the server and back, "*" included, and the
\* commands of a copy, move or store name each of its members exactly once.
ReachesTheServer ==
  LET set == setFromIndexSet(mRanges)
      chunks == splitSet(set)
  IN  /\ Members(indexSetFromSet(set)) = indexes
      /\ FlattenSeq(chunks) = set
      /\ \A c \in 1..Len(chunks) : Len(chunks[c]) \in 1..splitCount

\* "Adds a range of integers to the index set" (MCOIndexSet.h:42), and takes
\* none away.
AddRangeLosesNothing ==
  [][\A r \in Inputs : AddRange(r) => indexes \subseteq Members(mRanges')]_vars

=============================================================================
