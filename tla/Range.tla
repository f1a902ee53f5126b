------------------------------- MODULE Range -------------------------------
(***************************************************************************)
(* Ranges of message numbers (src/core/basetypes/MCRange.cpp).  A range    *)
(* reaches from its location to its location + length, both included; a    *)
(* length of UINT64_MAX means that it has no end, a location of UINT64_MAX *)
(* that it is empty.  Arithmetic is that of uint64_t: it wraps.            *)
(***************************************************************************)
EXTENDS Integers, Sequences

CONSTANT UINT64_MAX

ASSUME RangeAssumption == UINT64_MAX \in Nat \ {0}

Uint64 == 0..UINT64_MAX
Wrap(x) == IF x > UINT64_MAX THEN x - UINT64_MAX - 1
           ELSE IF x < 0 THEN x + UINT64_MAX + 1 ELSE x

RangeMake(l, n) == [location |-> l, length |-> n]
RangeEmpty == RangeMake(UINT64_MAX, 0)

RangeRightBound(r) ==
  IF r.length = UINT64_MAX THEN UINT64_MAX ELSE Wrap(r.location + r.length)

\* The ranges that make sense: not empty, and their end is a number.
Ranges == {r \in [location : Uint64, length : Uint64] :
            /\ r.location < UINT64_MAX
            /\ r.length = UINT64_MAX \/ r.location + r.length <= UINT64_MAX}

\* What a range stands for.
Indexes(r) ==
  {i \in Uint64 : i < UINT64_MAX /\ r.location <= i /\ i <= RangeRightBound(r)}

\* The range from left to right.
Between(left, right) ==
  RangeMake(left, IF right = UINT64_MAX THEN UINT64_MAX ELSE Wrap(right - left))

RangeIntersection(r1, r2) ==
  LET left == IF r1.location > r2.location THEN r1.location ELSE r2.location
      right == IF RangeRightBound(r1) < RangeRightBound(r2)
               THEN RangeRightBound(r1) ELSE RangeRightBound(r2)
  IN  IF \/ RangeRightBound(r2) < r1.location
         \/ RangeRightBound(r1) < r2.location
      THEN RangeEmpty
      ELSE Between(left, right)

RangeHasIntersection(r1, r2) == RangeIntersection(r1, r2).location # UINT64_MAX

\* What is left of r1, at most two ranges in order.  They do not touch, so
\* that the index set the code adds them to keeps them as they are.
RangeRemoveRange(r1, r2) ==
  LET cut == RangeIntersection(r1, r2)
      right1 == RangeRightBound(r1)
      right2 == RangeRightBound(cut)
  IN  IF ~RangeHasIntersection(r1, r2) THEN <<r1>>
      ELSE (IF cut.location > r1.location
            THEN <<RangeMake(r1.location, cut.location - r1.location - 1)>>
            ELSE <<>>)
           \o
           (IF right2 # UINT64_MAX /\ (right1 = UINT64_MAX \/ right2 < right1)
            THEN <<Between(right2 + 1, right1)>>
            ELSE <<>>)

\* The union of two ranges that have an index in common.
RangeUnion(r1, r2) ==
  LET left == IF r1.location < r2.location THEN r1.location ELSE r2.location
      right == IF RangeRightBound(r1) > RangeRightBound(r2)
               THEN RangeRightBound(r1) ELSE RangeRightBound(r2)
  IN  Between(left, right)

=============================================================================
