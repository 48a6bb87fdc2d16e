---------------------------- MODULE PhysicalRanges ---------------------------
(***************************************************************************)
(* Half-open ranges of physical addresses (virtual_memory/src/             *)
(* physical_range.rs): merging them, and taking reservations out of RAM.   *)
(***************************************************************************)
EXTENDS Pages, SequencesExt

Span(start, end) == [start |-> start, end |-> end]

covering_pages_rounded_down(r) == Span(align_down(r.start), align_down(r.end))
covering_pages(r) == Span(align_down(r.start), align_up(r.end))

ByStart(rs) == SortSeq(rs, LAMBDA r, q : r.start < q.start)

(* One more range, in order of the starts: merged if it overlaps or        *)
(* touches the last one.                                                   *)
MergeLastEnd(merged, r) ==
  IF merged # << >> /\ r.start <= Last(merged).end
  THEN [merged EXCEPT ![Len(merged)].end = r.end]
  ELSE Append(merged, r)
Merge(merged, r) ==
  IF merged # << >> /\ r.start <= Last(merged).end
  THEN [merged EXCEPT ![Len(merged)].end = IF @ >= r.end THEN @ ELSE r.end]
  ELSE Append(merged, r)

normalize_ranges(rs) == FoldLeft(Merge, << >>, ByStart(rs))

(* What reservation r leaves of a fragment: up to two pieces.              *)
Subtract(fragment, r) ==
  IF r.end <= fragment.start \/ r.start >= fragment.end THEN << fragment >>
  ELSE (IF fragment.start < r.start THEN << Span(fragment.start, r.start) >> ELSE << >>)
       \o (IF r.end < fragment.end THEN << Span(r.end, fragment.end) >> ELSE << >>)

SubtractAll(fragments, r) ==
  FoldLeft(LAMBDA next, f : next \o Subtract(f, r), << >>, fragments)

(* The complete pages of a fragment.                                       *)
WholePages(f) ==
  IF AlignUpOverflows(f.start) \/ align_up(f.start) >= align_down(f.end) THEN << >>
  ELSE << Span(align_up(f.start), align_down(f.end)) >>

usable_memory_ranges(memory, reserved) ==
  LET left(m) == FoldLeft(SubtractAll, << m >>, normalize_ranges(reserved))
      pages(fs) == FoldLeft(LAMBDA us, f : us \o WholePages(f), << >>, fs)
  IN  ByStart(FoldLeft(LAMBDA us, m : us \o pages(left(m)), << >>, normalize_ranges(memory)))
==============================================================================
