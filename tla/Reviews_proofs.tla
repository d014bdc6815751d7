-------------------------- MODULE Reviews_proofs --------------------------
(***************************************************************************)
(* Proofs about a review and what is kept of it.  DiffReview: every file   *)
(* of a pull request is packed or left out with a reason, findings lie on  *)
(* lines the model was shown, and merging the specialists' reports loses   *)
(* none of them; FoldInduction unrolls the loops behind each.              *)
(* ReviewRecords: a verified finding cites a run, the terminal lists what  *)
(* the hosted page shows, and a budget's counter holds exactly the open    *)
(* reservations.                                                           *)
(***************************************************************************)
EXTENDS ReviewRecords, DiffReview, FiniteSetTheorems, TLAPS

-----------------------------------------------------------------------------
Splitting == INSTANCE FoldInduction WITH op <- SplitLine

-----------------------------------------------------------------------------
(* Rendering.  A hunk's new-side lines are numbered as the header says.    *)

\* The new-side lines of a hunk above its k-th line.
NewAbove(hunk, k) == {i \in Marked(hunk, OnNewSide) : i < k}

\* n is the number of a new-side line of the hunk.
NumberedIn(hunk, n) ==
    \E at \in Marked(hunk, OnNewSide) : n = hunk.start + Cardinality(NewAbove(hunk, at))

Numbers == [no : Nat, new : Seq(Nat)]

\* After k lines of a hunk.
SplitUpTo(hunk, acc, k) ==
    /\ acc \in Numbers
    /\ acc.no = hunk.start + Cardinality(NewAbove(hunk, k + 1))
    /\ \A i \in DOMAIN acc.new : NumberedIn(hunk, acc.new[i])

LEMMA HunkShape ==
    ASSUME NEW hunk \in Hunks
    PROVE  \E n \in Nat : /\ DOMAIN hunk.lines = 1..n
                          /\ hunk.start \in Nat /\ hunk.lines \in Seq(Lines)
  BY DEF Hunks

LEMMA AboveIsFinite ==
    ASSUME NEW hunk \in Hunks, NEW k \in Nat
    PROVE  IsFiniteSet(NewAbove(hunk, k)) /\ Cardinality(NewAbove(hunk, k)) \in Nat
  <1>1. PICK n \in Nat : DOMAIN hunk.lines = 1..n
    BY HunkShape
  <1>2. NewAbove(hunk, k) \in SUBSET (1..n) /\ IsFiniteSet(1..n)
    BY <1>1, FS_Interval DEF NewAbove, Marked
  <1> QED
    BY <1>2, FS_Subset, FS_CardinalityType

LEMMA SplitStep ==
    ASSUME NEW hunk \in Hunks, NEW acc, NEW k \in DOMAIN hunk.lines, k \in Nat \ {0},
           SplitUpTo(hunk, acc, k - 1)
    PROVE  SplitUpTo(hunk, SplitLine(acc, hunk.lines[k]), k)
  <1> DEFINE line == hunk.lines[k]
             mark == line.mark
             above == Cardinality(NewAbove(hunk, k))
  <1>1. /\ acc \in Numbers /\ acc.no = hunk.start + above
        /\ \A i \in DOMAIN acc.new : NumberedIn(hunk, acc.new[i])
    BY k - 1 + 1 = k DEF SplitUpTo
  <1>2. above \in Nat /\ hunk.start \in Nat
    BY AboveIsFinite, HunkShape
  <1>3. CASE mark \in OnNewSide
    <2>1. NewAbove(hunk, k + 1) = NewAbove(hunk, k) \cup {k} /\ k \notin NewAbove(hunk, k)
      BY <1>3, HunkShape DEF NewAbove, Marked
    <2>2. Cardinality(NewAbove(hunk, k + 1)) = above + 1
      BY <2>1, AboveIsFinite, FS_AddElement
    <2>3. NumberedIn(hunk, acc.no)
      BY <1>1, <1>3 DEF NumberedIn, Marked
    <2>4. acc.new \in Seq(Nat) /\ acc.no \in Nat
      BY <1>1 DEF Numbers
    <2> DEFINE new == Append(acc.new, acc.no)
    <2>5. new \in Seq(Nat) /\ \A i \in DOMAIN new : NumberedIn(hunk, new[i])
      <3>1. /\ new \in Seq(Nat) /\ DOMAIN new = 1..(Len(acc.new) + 1)
            /\ \A i \in 1..Len(acc.new) : new[i] = acc.new[i]
            /\ new[Len(acc.new) + 1] = acc.no
        BY <2>4
      <3>2. DOMAIN acc.new = 1..Len(acc.new) /\ Len(acc.new) \in Nat
        BY <2>4
      <3> HIDE DEF new
      <3>3. ASSUME NEW i \in DOMAIN new PROVE NumberedIn(hunk, new[i])
        <4>1. i \in 1..Len(acc.new) \/ i = Len(acc.new) + 1
          <5>1. PICK m \in Nat : m = Len(acc.new) /\ i \in 1..(m + 1)
            BY <3>1, <3>2
          <5> QED
            BY <5>1
        <4> QED
          BY <1>1, <2>3, <3>1, <3>2, <4>1
      <3> QED
        BY <3>1, <3>3
    <2> HIDE DEF new
    <2>6. SplitLine(acc, line) = [no |-> acc.no + 1, new |-> new]
      BY <1>3 DEF SplitLine, new
    <2>7. acc.no + 1 = hunk.start + Cardinality(NewAbove(hunk, k + 1)) /\ acc.no + 1 \in Nat
      BY <1>1, <1>2, <2>2
    <2> QED
      BY <2>5, <2>6, <2>7 DEF SplitUpTo, Numbers
  <1>4. CASE mark \notin OnNewSide
    <2>1. NewAbove(hunk, k + 1) = NewAbove(hunk, k)
      BY <1>4, HunkShape DEF NewAbove, Marked
    <2>2. SplitLine(acc, line) = acc
      BY <1>4 DEF SplitLine
    <2> QED
      BY <1>1, <2>1, <2>2 DEF SplitUpTo
  <1> QED
    BY <1>3, <1>4

\* The numbers of a hunk's new-side lines are the ones that counting from its
\* header gives (split_hunk, hunk_format.py).
LEMMA SplitNumbers ==
    ASSUME NEW hunk \in Hunks
    PROVE  /\ SplitHunk(hunk) \in Seq(Nat)
           /\ \A i \in DOMAIN SplitHunk(hunk) : NumberedIn(hunk, SplitHunk(hunk)[i])
  <1>1. PICK n \in Nat : DOMAIN hunk.lines = 1..n /\ hunk.start \in Nat
    BY HunkShape
  <1> DEFINE base == [no |-> hunk.start, new |-> <<>>]
             lines == hunk.lines
  <1>2. PICK h : /\ h[0] = base
                 /\ \A k \in 1..n : h[k] = SplitLine(h[k - 1], lines[k])
                 /\ Splitting!Folded(base, lines) = h[n]
    <2>1. Splitting!Sized(lines, n)
      BY <1>1 DEF Splitting!Sized
    <2> HIDE DEF base, lines
    <2> QED
      BY <2>1, Splitting!FoldUnrolls
  <1>3. SplitHunk(hunk) = h[n].new
    <2>1. Splitting!Folded(base, hunk.lines) = FoldLeft(SplitLine, base, hunk.lines)
      <3> HIDE DEF base
      <3> QED
        BY DEF Splitting!Folded, Splitting!FoldLeft, FoldLeft, MapThenFoldSet,
               Splitting!MapThenFoldSet, Max, Splitting!Max
    <2> QED
      BY <1>2, <2>1 DEF SplitHunk
  <1> DEFINE S == {k \in 0..n : SplitUpTo(hunk, h[k], k)}
  <1>4. 0 \in S
    <2>1. NewAbove(hunk, 0 + 1) = {}
      BY <1>1 DEF NewAbove, Marked
    <2>2. Cardinality(NewAbove(hunk, 0 + 1)) = 0
      BY <2>1, FS_EmptySet
    <2>3. base \in Numbers /\ DOMAIN base.new = {} /\ base.no = hunk.start + 0
      BY <1>1 DEF Numbers
    <2>4. SplitUpTo(hunk, base, 0)
      BY <2>2, <2>3 DEF SplitUpTo
    <2> QED
      BY <1>2, <2>4
  <1>5. ASSUME NEW k \in 1..n, k - 1 \in S PROVE k \in S
    <2>1. k \in DOMAIN hunk.lines /\ k \in Nat \ {0} /\ SplitUpTo(hunk, h[k - 1], k - 1)
      BY <1>1, <1>5
    <2>2. SplitUpTo(hunk, SplitLine(h[k - 1], hunk.lines[k]), k)
      BY <2>1, SplitStep
    <2> QED
      BY <1>2, <2>2
  <1> HIDE DEF S
  <1>6. n \in S
    BY <1>4, <1>5, Splitting!UpTo
  <1> QED
    BY <1>3, <1>6 DEF S, SplitUpTo, Numbers

Reading == INSTANCE FoldInduction WITH op <- ReadOldLine

\* After k lines of a hunk's old side: a new side is open only below a line that says
\* so, and what was read stands below one.
ReadUpTo(hunk, acc, k) ==
    /\ acc.read \in Seq(Nat)
    /\ acc.open => \E i \in Marked(hunk, OnOldSide) : i <= k /\ hunk.lines[i].says = "NEW"
    /\ \A i \in DOMAIN acc.read : Misread(hunk, acc.read[i])

LEMMA ReadStep ==
    ASSUME NEW hunk \in Hunks, NEW acc, NEW k \in DOMAIN hunk.lines, k \in Nat \ {0},
           ReadUpTo(hunk, acc, k - 1)
    PROVE  ReadUpTo(hunk, ReadOldLine(acc, hunk.lines[k]), k)
  <1> DEFINE line == hunk.lines[k]
             next == ReadOldLine(acc, line)
  <1>1. line \in Lines /\ \A i \in Marked(hunk, OnOldSide) : i \in Nat
    BY HunkShape DEF Marked
  <1>2. CASE line.mark \notin OnOldSide
    <2>1. next = acc
      BY <1>2 DEF ReadOldLine
    <2> QED
      BY <1>1, <2>1 DEF ReadUpTo
  <1>3. CASE line.mark \in OnOldSide
    <2>1. /\ next.open = (line.says = "NEW" \/ (acc.open /\ line.says # "OLD"))
          /\ next.read = IF acc.open /\ line.says = "numbered" THEN Append(acc.read, line.number)
                         ELSE acc.read
      BY <1>3 DEF ReadOldLine
    <2>2. k \in Marked(hunk, OnOldSide)
      BY <1>3 DEF Marked
    <2>3. next.open => \E i \in Marked(hunk, OnOldSide) : i <= k /\ hunk.lines[i].says = "NEW"
      <3>1. CASE line.says = "NEW"
        BY <2>2, <3>1
      <3>2. CASE acc.open
        BY <1>1, <3>2 DEF ReadUpTo
      <3> QED
        BY <2>1, <3>1, <3>2
    <2>4. next.read \in Seq(Nat) /\ \A i \in DOMAIN next.read : Misread(hunk, next.read[i])
      <3>1. CASE acc.open /\ line.says = "numbered"
        <4>1. PICK i \in Marked(hunk, OnOldSide) : i <= k - 1 /\ hunk.lines[i].says = "NEW"
          BY <3>1 DEF ReadUpTo
        <4>2. Misread(hunk, line.number)
          BY <1>1, <2>2, <3>1, <4>1 DEF Misread
        <4>3. acc.read \in Seq(Nat) /\ line.number \in Nat
          BY <1>1 DEF ReadUpTo, Lines
        <4> DEFINE new == Append(acc.read, line.number)
        <4>4. next.read = new
          BY <2>1, <3>1
        <4>5. /\ new \in Seq(Nat) /\ DOMAIN new = 1..(Len(acc.read) + 1)
              /\ \A j \in 1..Len(acc.read) : new[j] = acc.read[j]
              /\ new[Len(acc.read) + 1] = line.number
          BY <4>3
        <4>6. DOMAIN acc.read = 1..Len(acc.read) /\ Len(acc.read) \in Nat
          BY <4>3
        <4> HIDE DEF new
        <4>7. ASSUME NEW j \in DOMAIN new PROVE Misread(hunk, new[j])
          <5>1. j \in 1..Len(acc.read) \/ j = Len(acc.read) + 1
            <6>1. PICK m \in Nat : m = Len(acc.read) /\ j \in 1..(m + 1)
              BY <4>5, <4>6
            <6> QED
              BY <6>1
          <5>2. \A i1 \in DOMAIN acc.read : Misread(hunk, acc.read[i1])
            BY DEF ReadUpTo
          <5> QED
            BY <4>2, <4>5, <4>6, <5>1, <5>2
        <4> QED
          BY <4>4, <4>5, <4>7
      <3>2. CASE ~(acc.open /\ line.says = "numbered")
        BY <2>1, <3>2 DEF ReadUpTo
      <3> QED
        BY <3>1, <3>2
    <2>5. ReadUpTo(hunk, next, k)
      <3> HIDE DEF next
      <3> QED
        BY <2>3, <2>4 DEF ReadUpTo
    <2> QED
      BY <2>5
  <1> QED
    BY <1>2, <1>3

\* What is read of a hunk's old side as new-side lines are numbers of old-side lines
\* below one that says a new side begins (_new_side_lines, review_pull_request.py).
LEMMA ReadNumbers ==
    ASSUME NEW hunk \in Hunks
    PROVE  /\ ReadOldSide(hunk) \in Seq(Nat)
           /\ \A i \in DOMAIN ReadOldSide(hunk) : Misread(hunk, ReadOldSide(hunk)[i])
  <1>1. PICK n \in Nat : DOMAIN hunk.lines = 1..n
    BY HunkShape
  <1> DEFINE base == [open |-> FALSE, read |-> <<>>]
             lines == hunk.lines
  <1>2. PICK h : /\ h[0] = base
                 /\ \A k \in 1..n : h[k] = ReadOldLine(h[k - 1], lines[k])
                 /\ Reading!Folded(base, lines) = h[n]
    <2>1. Reading!Sized(lines, n)
      BY <1>1 DEF Reading!Sized
    <2> HIDE DEF base, lines
    <2> QED
      BY <2>1, Reading!FoldUnrolls
  <1>3. ReadOldSide(hunk) = h[n].read
    <2>1. Reading!Folded(base, hunk.lines) = FoldLeft(ReadOldLine, base, hunk.lines)
      <3> HIDE DEF base
      <3> QED
        BY DEF Reading!Folded, Reading!FoldLeft, FoldLeft, MapThenFoldSet,
               Reading!MapThenFoldSet, Max, Reading!Max
    <2> QED
      BY <1>2, <2>1 DEF ReadOldSide
  <1> DEFINE S == {k \in 0..n : ReadUpTo(hunk, h[k], k)}
  <1>4. 0 \in S
    <2>1. ReadUpTo(hunk, base, 0)
      BY DEF ReadUpTo
    <2> QED
      BY <1>2, <2>1
  <1>5. ASSUME NEW k \in 1..n, k - 1 \in S PROVE k \in S
    <2>1. k \in DOMAIN hunk.lines /\ k \in Nat \ {0} /\ ReadUpTo(hunk, h[k - 1], k - 1)
      BY <1>1, <1>5
    <2>2. ReadUpTo(hunk, ReadOldLine(h[k - 1], hunk.lines[k]), k)
      BY <2>1, ReadStep
    <2> QED
      BY <1>2, <2>2
  <1> HIDE DEF S
  <1>6. n \in S
    BY <1>4, <1>5, Reading!UpTo
  <1> QED
    BY <1>3, <1>6 DEF S, ReadUpTo

Rendering == INSTANCE FoldInduction WITH op <- RenderHunk

Contents == [new : Seq(Nat), lines : Nat]

\* n is the number of a new-side line of one of the hunks, or misread from its old side.
NumberedBy(patch, n) ==
    \E h \in DOMAIN patch :
        patch[h].header /\ (NumberedIn(patch[h], n) \/ Misread(patch[h], n))

RenderUpTo(patch, acc) ==
    acc \in Contents /\ \A i \in DOMAIN acc.new : NumberedBy(patch, acc.new[i])

LEMMA MarkedIsFinite ==
    ASSUME NEW hunk \in Hunks, NEW marks
    PROVE  Cardinality(Marked(hunk, marks)) \in Nat /\ Cardinality(Changed(hunk)) \in Nat
  <1>1. PICK n \in Nat : DOMAIN hunk.lines = 1..n
    BY HunkShape
  <1>2. /\ Marked(hunk, marks) \in SUBSET (1..n) /\ Changed(hunk) \in SUBSET (1..n)
        /\ IsFiniteSet(1..n)
    BY <1>1, FS_Interval DEF Marked, Changed
  <1> QED
    BY <1>2, FS_Subset, FS_CardinalityType

LEMMA Joined ==
    ASSUME NEW S, NEW a \in Seq(S), NEW b \in Seq(S)
    PROVE  /\ a \o b \in Seq(S)
           /\ \A i \in DOMAIN (a \o b) : \/ i \in DOMAIN a /\ (a \o b)[i] = a[i]
                                         \/ \E j \in DOMAIN b : (a \o b)[i] = b[j]
  <1>1. a \o b \in Seq(S) /\ Len(a \o b) = Len(a) + Len(b) /\ Len(a) \in Nat /\ Len(b) \in Nat
    OBVIOUS
  <1>2. ASSUME NEW i \in DOMAIN (a \o b), i \notin DOMAIN a
        PROVE  \E j \in DOMAIN b : (a \o b)[i] = b[j]
    <2>1. i \in 1..(Len(a) + Len(b)) /\ i > Len(a)
      BY <1>1, <1>2
    <2>2. i - Len(a) \in DOMAIN b /\ (a \o b)[i] = b[i - Len(a)]
      BY <1>1, <2>1
    <2> QED
      BY <2>2
  <1>3. ASSUME NEW i \in DOMAIN (a \o b), i \in DOMAIN a PROVE (a \o b)[i] = a[i]
    BY <1>1, <1>3
  <1> QED
    BY <1>1, <1>2, <1>3

LEMMA RenderStep ==
    ASSUME NEW patch \in Seq(Hunks), NEW acc, NEW k \in DOMAIN patch, RenderUpTo(patch, acc)
    PROVE  RenderUpTo(patch, RenderHunk(acc, patch[k]))
  <1> DEFINE split == SplitHunk(patch[k])
             read == ReadOldSide(patch[k])
             old == Cardinality(Marked(patch[k], OnOldSide))
             shown == acc.new \o split
             new == shown \o read
  <1>0. CASE ~patch[k].header
    BY <1>0 DEF RenderHunk
  <1> SUFFICES ASSUME patch[k].header PROVE RenderUpTo(patch, RenderHunk(acc, patch[k]))
    BY <1>0
  <1>1. patch[k] \in Hunks
    OBVIOUS
  <1>2. /\ split \in Seq(Nat) /\ old \in Nat /\ read \in Seq(Nat)
        /\ \A i \in DOMAIN split : NumberedIn(patch[k], split[i])
        /\ \A i \in DOMAIN read : Misread(patch[k], read[i])
    BY <1>1, SplitNumbers, ReadNumbers, MarkedIsFinite
  <1> HIDE DEF split, old, read
  <1>3. acc.new \in Seq(Nat) /\ acc.lines \in Nat
        /\ \A i \in DOMAIN acc.new : NumberedBy(patch, acc.new[i])
    BY DEF RenderUpTo, Contents
  <1>4. /\ shown \in Seq(Nat)
        /\ \A i \in DOMAIN shown : \/ i \in DOMAIN acc.new /\ shown[i] = acc.new[i]
                                   \/ \E j \in DOMAIN split : shown[i] = split[j]
    BY <1>2, <1>3, Joined
  <1>5. RenderHunk(acc, patch[k]) = [new |-> new, lines |-> acc.lines + 2 + Len(split) + old]
    BY DEF RenderHunk, split, old, read
  <1> HIDE DEF shown
  <1>6. /\ new \in Seq(Nat)
        /\ \A i \in DOMAIN new : \/ i \in DOMAIN shown /\ new[i] = shown[i]
                                 \/ \E j \in DOMAIN read : new[i] = read[j]
    BY <1>2, <1>4, Joined
  <1> HIDE DEF new
  <1>7. acc.lines + 2 + Len(split) + old \in Nat
    BY <1>2, <1>3
  <1>8. \A i \in DOMAIN shown : NumberedBy(patch, shown[i])
    BY <1>2, <1>3, <1>4 DEF NumberedBy
  <1>9. \A i \in DOMAIN new : NumberedBy(patch, new[i])
    BY <1>2, <1>6, <1>8 DEF NumberedBy
  <1> QED
    BY <1>5, <1>6, <1>7, <1>9 DEF RenderUpTo, Contents

\* What is read back of a rendered patch are new-side lines of its hunks, or misread
\* (render_hunks, hunk_format.py, and _new_side_lines).
LEMMA RenderNumbers ==
    ASSUME NEW patch \in Seq(Hunks)
    PROVE  /\ RenderHunks(patch) \in Contents
           /\ \A i \in DOMAIN RenderHunks(patch).new : NumberedBy(patch, RenderHunks(patch).new[i])
  <1> DEFINE base == [new |-> <<>>, lines |-> 0]
             n == Len(patch)
  <1>1. n \in Nat /\ DOMAIN patch = 1..n
    OBVIOUS
  <1> HIDE DEF n
  <1>2. PICK h : /\ h[0] = base
                 /\ \A k \in 1..n : h[k] = RenderHunk(h[k - 1], patch[k])
                 /\ Rendering!Folded(base, patch) = h[n]
    <2>1. Rendering!Sized(patch, n)
      BY <1>1 DEF Rendering!Sized
    <2> HIDE DEF base
    <2> QED
      BY <2>1, Rendering!FoldUnrolls
  <1>3. RenderHunks(patch) = h[n]
    <2>1. Rendering!Folded(base, patch) = FoldLeft(RenderHunk, base, patch)
      <3> HIDE DEF base
      <3> QED
        BY DEF Rendering!Folded, Rendering!FoldLeft, FoldLeft, MapThenFoldSet,
               Rendering!MapThenFoldSet, Max, Rendering!Max
    <2> QED
      BY <1>2, <2>1 DEF RenderHunks
  <1> DEFINE S == {k \in 0..n : RenderUpTo(patch, h[k])}
  <1>4. 0 \in S
    <2>1. RenderUpTo(patch, base)
      BY DEF RenderUpTo, Contents
    <2> QED
      BY <1>1, <1>2, <2>1
  <1>5. ASSUME NEW k \in 1..n, k - 1 \in S PROVE k \in S
    <2>1. k \in DOMAIN patch /\ RenderUpTo(patch, h[k - 1])
      BY <1>1, <1>5
    <2> QED
      BY <1>2, <2>1, RenderStep
  <1> HIDE DEF S
  <1>6. n \in S
    BY <1>1, <1>4, <1>5, Rendering!UpTo
  <1> QED
    BY <1>3, <1>6 DEF S, RenderUpTo

-----------------------------------------------------------------------------
(* Packing.                                                                *)

PackOrder == INSTANCE FoldInduction WITH op <- PacksBefore
Packing == INSTANCE FoldInduction WITH op <- PackFile

OmissionReasons ==
    {"none", "binary", "patch_truncated_by_github", "patch_omitted_by_github",
     "clone_timeout", "file_size_limit"}

SnapshotFiles ==
    [path : Nat, patch : Seq(Hunks) \cup {NoPatch}, status : {c.status : c \in Changes},
     binary : BOOLEAN, truncated : BOOLEAN, reason : OmissionReasons]

LEMMA SizeIsNatural ==
    ASSUME NEW file \in SnapshotFiles
    PROVE  ChangeSize(file.patch) \in Nat
  <1>1. CASE file.patch = NoPatch
    BY <1>1 DEF ChangeSize
  <1>2. CASE file.patch # NoPatch
    <2> DEFINE patch == file.patch
               f == [h \in DOMAIN patch |-> Cardinality(Changed(patch[h]))]
    <2>1. patch \in Seq(Hunks)
      BY <1>2 DEF SnapshotFiles
    <2>2. \A h \in DOMAIN patch : f[h] \in Nat
      <3> TAKE h \in DOMAIN patch
      <3>1. patch[h] \in Hunks
        BY <2>1
      <3>2. Cardinality(Changed(patch[h])) \in Nat
        BY <3>1, MarkedIsFinite
      <3> QED
        BY <3>2
    <2>3. IsFiniteSet(DOMAIN patch)
      <3>1. DOMAIN patch = 1..Len(patch) /\ Len(patch) \in Nat
        BY <2>1
      <3> QED
        BY <3>1, FS_Interval
    <2>4. ChangeSize(patch) = SumFunction(f)
      BY <1>2 DEF ChangeSize
    <2>5. DOMAIN f = DOMAIN patch
      OBVIOUS
    <2> HIDE DEF f, patch
    <2>6. PackOrder!IsFiniteSet(DOMAIN f)
      BY <2>3, <2>5 DEF PackOrder!IsFiniteSet, IsFiniteSet
    <2>7. PackOrder!SumFunction(f) \in Nat
      BY <2>2, <2>5, <2>6, PackOrder!SumOfNaturals
    <2>8. PackOrder!SumFunction(f) = SumFunction(f)
      BY DEF PackOrder!SumFunction, PackOrder!SumFunctionOnSet, PackOrder!FoldFunctionOnSet,
             PackOrder!MapThenFoldSet, SumFunction, SumFunctionOnSet, FoldFunctionOnSet,
             MapThenFoldSet
    <2> QED
      BY <2>4, <2>7, <2>8 DEF patch
  <1> QED
    BY <1>1, <1>2

\* The packing order is a strict weak order of the snapshot's files.
LEMMA PackOrderIsWeak ==
    ASSUME NEW files \in Seq(SnapshotFiles), NEW n \in Nat, DOMAIN files = 1..n
    PROVE  PackOrder!WeaklyOrdered(files, n)
  <1>1. \A i \in 1..n : /\ Sensitivity(files[i]) \in {0, 1}
                        /\ ChangeSize(files[i].patch) \in Nat /\ files[i].path \in Nat
    <2> TAKE i \in 1..n
    <2>1. files[i] \in SnapshotFiles
      OBVIOUS
    <2>2. files[i].path \in Nat
      BY <2>1 DEF SnapshotFiles
    <2> QED
      BY <2>1, <2>2, SizeIsNatural DEF Sensitivity
  <1>2. \A i \in 1..n : ~PacksBefore(files[i], files[i])
    BY <1>1 DEF PacksBefore
  <1>3. \A i, j, k \in 1..n : PacksBefore(files[i], files[j]) /\ PacksBefore(files[j], files[k])
                                => PacksBefore(files[i], files[k])
    BY <1>1 DEF PacksBefore
  <1>4. \A i, j, k \in 1..n : PacksBefore(files[i], files[k])
                                => PacksBefore(files[i], files[j]) \/ PacksBefore(files[j], files[k])
    BY <1>1 DEF PacksBefore
  <1> QED
    BY <1>2, <1>3, <1>4 DEF PackOrder!WeaklyOrdered

\* Packing takes every file of the snapshot once.
LEMMA PackingOrder ==
    ASSUME NEW files \in Seq(SnapshotFiles), NEW n \in Nat, DOMAIN files = 1..n
    PROVE  \E p \in [1..n -> 1..n] :
              /\ \A i \in 1..n : \E m \in 1..n : p[m] = i
              /\ Sorted(files, PacksBefore) = [m \in 1..n |-> files[p[m]]]
  <1>1. PICK p \in [1..n -> 1..n] :
              /\ \A i \in 1..n : \E m \in 1..n : p[m] = i
              /\ PackOrder!InOrder(files) = [m \in 1..n |-> files[p[m]]]
              /\ \A l, m \in 1..n : p[l] = p[m] => l = m
              /\ \A l, m \in 1..n : l < m => ~PacksBefore(files[p[m]], files[p[l]])
    <2>1. PackOrder!WeaklyOrdered(files, n)
      BY PackOrderIsWeak
    <2> QED
      BY <2>1, PackOrder!SortRearranges
  <1>2. PackOrder!InOrder(files) = Sorted(files, PacksBefore)
    BY DEF PackOrder!InOrder, PackOrder!Sorted, PackOrder!PlaceOf, Sorted, PlaceOf,
           PackOrder!Cardinality, Cardinality
  <1> DEFINE r == Sorted(files, PacksBefore)
  <1>3. r = [m \in 1..n |-> files[p[m]]]
    BY <1>1, <1>2
  <1> HIDE DEF r
  <1>4. \E q \in [1..n -> 1..n] :
              /\ \A i \in 1..n : \E m \in 1..n : q[m] = i
              /\ r = [m \in 1..n |-> files[q[m]]]
    BY <1>1, <1>3
  <1> QED
    BY <1>4 DEF r

PackedItems == [path : Nat, range : Nat \X Nat, lines : SUBSET Nat, tokens : Nat]
GivenReasons == OmissionReasons \cup {"generated", "ignored_path", "token_budget"}
Omissions == [path : Nat, reason : GivenReasons, size : Nat]
Diffs == [items : Seq(PackedItems), omitted : Seq(Omissions), remaining : Nat]

TokensOf(items) == SumFunction([i \in DOMAIN items |-> items[i].tokens])
Needs(file) == CountTokens(RenderHunks(file.patch))

\* An item shows the new-side lines of a file.
Shows(item, file) ==
    /\ item.path = file.path /\ file.patch \in Seq(Hunks)
    /\ item.lines = ToSet(RenderHunks(file.patch).new)

\* An omission for the budget is of a file that needs more than remains.
Excuses(omission, file, remaining) ==
    /\ omission.path = file.path
    /\ omission.reason = "token_budget" => Needs(file) \in Nat /\ Needs(file) > remaining

\* After the first k files of o: each is packed or left out, and nothing else is;
\* what the packed ones use and what remains is the budget.
PackUpTo(o, acc, k) ==
    /\ acc \in Diffs
    /\ Len(acc.items) + Len(acc.omitted) = k
    /\ \A m \in 1..k : \/ \E i \in DOMAIN acc.items : acc.items[i].path = o[m].path
                       \/ \E i \in DOMAIN acc.omitted : acc.omitted[i].path = o[m].path
    /\ \A i \in DOMAIN acc.items : \E m \in 1..k : Shows(acc.items[i], o[m])
    /\ \A i \in DOMAIN acc.omitted :
         \E m \in 1..k : Excuses(acc.omitted[i], o[m], acc.remaining)
    /\ TokensOf(acc.items) \in Nat
    /\ TokensOf(acc.items) + acc.remaining = rvPolicy.budget

LEMMA Appended ==
    ASSUME NEW S, NEW s \in Seq(S), NEW e \in S
    PROVE  /\ Append(s, e) \in Seq(S) /\ Len(Append(s, e)) = Len(s) + 1
           /\ DOMAIN Append(s, e) = DOMAIN s \cup {Len(s) + 1}
           /\ \A i \in DOMAIN s : Append(s, e)[i] = s[i]
           /\ Append(s, e)[Len(s) + 1] = e /\ Len(s) + 1 \notin DOMAIN s /\ Len(s) \in Nat
  <1>1. /\ Append(s, e) \in Seq(S) /\ Len(Append(s, e)) = Len(s) + 1
        /\ DOMAIN s = 1..Len(s) /\ DOMAIN Append(s, e) = 1..(Len(s) + 1) /\ Len(s) \in Nat
    OBVIOUS
  <1>2. 1..(Len(s) + 1) = (1..Len(s)) \cup {Len(s) + 1} /\ Len(s) + 1 \notin 1..Len(s)
    BY <1>1
  <1> QED
    BY <1>1, <1>2

LEMMA Excused ==
    ASSUME NEW omission, NEW file, NEW more \in Nat, NEW less \in Nat, less <= more,
           Excuses(omission, file, more)
    PROVE  Excuses(omission, file, less)
  BY DEF Excuses

LEMMA OmitStep ==
    ASSUME NEW o \in Seq(SnapshotFiles), NEW acc, NEW k \in DOMAIN o, PackUpTo(o, acc, k - 1),
           NEW reason \in GivenReasons,
           reason = "token_budget" => Needs(o[k]) \in Nat /\ Needs(o[k]) > acc.remaining
    PROVE  PackUpTo(o, OmitFile(acc, o[k], reason), k)
  <1> DEFINE omission == [path |-> o[k].path, reason |-> reason, size |-> ChangeSize(o[k].patch)]
             omitted == Append(acc.omitted, omission)
             new == [items |-> acc.items, omitted |-> omitted, remaining |-> acc.remaining]
             last == Len(acc.omitted) + 1
  <1>1. /\ acc \in Diffs /\ Len(acc.items) + Len(acc.omitted) = k - 1
        /\ \A m \in 1..(k - 1) : \/ \E i \in DOMAIN acc.items : acc.items[i].path = o[m].path
                                 \/ \E i \in DOMAIN acc.omitted : acc.omitted[i].path = o[m].path
        /\ \A i \in DOMAIN acc.items : \E m \in 1..(k - 1) : Shows(acc.items[i], o[m])
        /\ \A i \in DOMAIN acc.omitted :
             \E m \in 1..(k - 1) : Excuses(acc.omitted[i], o[m], acc.remaining)
        /\ TokensOf(acc.items) \in Nat
        /\ TokensOf(acc.items) + acc.remaining = rvPolicy.budget
    BY DEF PackUpTo
  <1>2. acc.items \in Seq(PackedItems) /\ acc.omitted \in Seq(Omissions) /\ acc.remaining \in Nat
    BY <1>1 DEF Diffs
  <1>3. k \in Nat /\ k \in 1..k /\ \A m \in 1..k : m = k \/ m \in 1..(k - 1)
    OBVIOUS
  <1>4. \A m \in 1..(k - 1) : m \in 1..k
    OBVIOUS
  <1>5. o[k] \in SnapshotFiles /\ o[k].path \in Nat
    <2>1. o[k] \in SnapshotFiles
      OBVIOUS
    <2> QED
      BY <2>1 DEF SnapshotFiles
  <1>6. omission \in Omissions
    BY <1>5, SizeIsNatural DEF Omissions
  <1>7. OmitFile(acc, o[k], reason) = new
    BY DEF OmitFile
  <1>8. Excuses(omission, o[k], acc.remaining)
    BY DEF Excuses
  <1>9. omission.path = o[k].path
    OBVIOUS
  <1> HIDE DEF omission
  <1>10. /\ omitted \in Seq(Omissions) /\ Len(omitted) = Len(acc.omitted) + 1
         /\ DOMAIN omitted = DOMAIN acc.omitted \cup {last}
         /\ \A i \in DOMAIN acc.omitted : omitted[i] = acc.omitted[i]
         /\ omitted[last] = omission /\ Len(acc.omitted) \in Nat
    BY <1>2, <1>6, Appended
  <1> HIDE DEF omitted, last
  <1>11. new \in Diffs
    BY <1>2, <1>10 DEF Diffs
  <1>12. Len(acc.items) + Len(omitted) = k
    <2>1. PICK a \in Nat, b \in Nat : a = Len(acc.items) /\ b = Len(acc.omitted)
      BY <1>2, <1>10
    <2>2. a + b = k - 1 /\ Len(omitted) = b + 1
      BY <1>1, <1>10, <2>1
    <2>3. a + (b + 1) = k
      BY <1>3, <2>2
    <2> QED
      BY <2>1, <2>2, <2>3
  <1>13. \A m \in 1..k : \/ \E i \in DOMAIN acc.items : acc.items[i].path = o[m].path
                         \/ \E i \in DOMAIN omitted : omitted[i].path = o[m].path
    <2> SUFFICES ASSUME NEW m \in 1..k
                 PROVE  \/ \E i \in DOMAIN acc.items : acc.items[i].path = o[m].path
                        \/ \E i \in DOMAIN omitted : omitted[i].path = o[m].path
      OBVIOUS
    <2>1. CASE m = k
      <3>1. last \in DOMAIN omitted /\ omitted[last].path = o[m].path
        BY <1>9, <1>10, <2>1
      <3> QED
        BY <3>1
    <2>2. CASE m \in 1..(k - 1)
      <3>1. \A i \in DOMAIN acc.omitted :
              i \in DOMAIN omitted /\ omitted[i].path = acc.omitted[i].path
        BY <1>10
      <3> QED
        BY <1>1, <2>2, <3>1
    <2> QED
      BY <1>3, <2>1, <2>2
  <1>14. \A i \in DOMAIN omitted : \E m \in 1..k : Excuses(omitted[i], o[m], acc.remaining)
    BY <1>1, <1>3, <1>4, <1>8, <1>10
  <1>15. \A i \in DOMAIN acc.items : \E m \in 1..k : Shows(acc.items[i], o[m])
    BY <1>1, <1>4
  <1> QED
    BY <1>1, <1>7, <1>11, <1>12, <1>13, <1>14, <1>15 DEF PackUpTo

LEMMA NeedsIsNatural ==
    ASSUME NEW file \in SnapshotFiles, file.patch \in Seq(Hunks)
    PROVE  Needs(file) \in Nat /\ LineRange(RenderHunks(file.patch)) \in Nat \X Nat
  <1> DEFINE content == RenderHunks(file.patch)
  <1>1. content.lines \in Nat /\ content.new \in Seq(Nat)
    BY RenderNumbers DEF Contents
  <1> HIDE DEF content
  <1>2. CountTokens(content) \in Nat
    BY <1>1 DEF CountTokens
  <1>3. LineRange(content) \in Nat \X Nat
    <2>1. CASE content.new = <<>>
      BY <2>1 DEF LineRange
    <2>2. CASE content.new # <<>>
      <3>1. Len(content.new) \in Nat \ {0}
        BY <1>1, <2>2
      <3>2. Head(content.new) \in Nat /\ Last(content.new) \in Nat
        BY <1>1, <3>1 DEF Last
      <3> QED
        BY <2>2, <3>2 DEF LineRange
    <2> QED
      BY <2>1, <2>2
  <1> QED
    BY <1>2, <1>3 DEF Needs, content

\* What is packed so far and one more item.
LEMMA OneMoreItem ==
    ASSUME NEW items \in Seq(PackedItems), NEW item \in PackedItems
    PROVE  TokensOf(Append(items, item)) = TokensOf(items) + item.tokens
  <1> DEFINE all == Append(items, item)
             f == [i \in DOMAIN all |-> all[i].tokens]
             e == [i \in DOMAIN items |-> items[i].tokens]
             x == Len(items) + 1
  <1>1. /\ all \in Seq(PackedItems) /\ DOMAIN all = DOMAIN items \cup {x}
        /\ \A i \in DOMAIN items : all[i] = items[i]
        /\ all[x] = item /\ x \notin DOMAIN items /\ Len(items) \in Nat
    BY Appended
  <1> HIDE DEF all, x
  <1>2. \A i \in DOMAIN all : all[i] \in PackedItems /\ all[i].tokens \in Nat
    <2>1. \A i \in DOMAIN all : all[i] \in PackedItems
      BY <1>1
    <2> QED
      BY <2>1 DEF PackedItems
  <1>3. IsFiniteSet(DOMAIN items)
    <2>1. DOMAIN items = 1..Len(items)
      OBVIOUS
    <2> QED
      BY <1>1, <2>1, FS_Interval
  <1>4. /\ DOMAIN e = DOMAIN items /\ DOMAIN f = DOMAIN all
        /\ \A y \in DOMAIN items : f[y] = e[y]
        /\ \A y \in DOMAIN all : f[y] \in Nat
        /\ f[x] = item.tokens
    BY <1>1, <1>2
  <1>5. TokensOf(all) = SumFunction(f) /\ TokensOf(items) = SumFunction(e)
    BY DEF TokensOf
  <1> HIDE DEF f, e
  <1>6. Packing!OneMore(f, e, x)
    <2>1. Packing!IsFiniteSet(DOMAIN e)
      <3>1. Packing!IsFiniteSet(DOMAIN items)
        BY <1>3 DEF Packing!IsFiniteSet, IsFiniteSet
      <3> QED
        BY <1>4, <3>1
    <2> QED
      BY <1>1, <1>4, <2>1 DEF Packing!OneMore
  <1>7. Packing!SumFunction(f) = Packing!SumFunction(e) + f[x]
    BY <1>6, Packing!SumWithOneMore
  <1>8. Packing!SumFunction(f) = SumFunction(f) /\ Packing!SumFunction(e) = SumFunction(e)
    BY DEF Packing!SumFunction, Packing!SumFunctionOnSet, Packing!FoldFunctionOnSet,
           Packing!MapThenFoldSet, SumFunction, SumFunctionOnSet, FoldFunctionOnSet,
           MapThenFoldSet
  <1> QED
    BY <1>4, <1>5, <1>7, <1>8 DEF all

LEMMA NoTokens == TokensOf(<<>>) = 0
  <1> DEFINE f == [i \in DOMAIN <<>> |-> <<>>[i].tokens]
  <1>1. DOMAIN f = {} /\ TokensOf(<<>>) = SumFunction(f)
    BY DEF TokensOf
  <1> HIDE DEF f
  <1>2. Packing!SumFunction(f) = 0
    BY <1>1, Packing!SumOfNone
  <1>3. Packing!SumFunction(f) = SumFunction(f)
    BY DEF Packing!SumFunction, Packing!SumFunctionOnSet, Packing!FoldFunctionOnSet,
           Packing!MapThenFoldSet, SumFunction, SumFunctionOnSet, FoldFunctionOnSet,
           MapThenFoldSet
  <1> QED
    BY <1>1, <1>2, <1>3

LEMMA IncludeStep ==
    ASSUME NEW o \in Seq(SnapshotFiles), NEW acc, NEW k \in DOMAIN o, PackUpTo(o, acc, k - 1),
           o[k].patch \in Seq(Hunks), Needs(o[k]) <= acc.remaining
    PROVE  PackUpTo(o, IncludeFile(acc, o[k], RenderHunks(o[k].patch)), k)
  <1> DEFINE content == RenderHunks(o[k].patch)
             item == [path |-> o[k].path, range |-> LineRange(content),
                      lines |-> ToSet(content.new), tokens |-> CountTokens(content)]
             items == Append(acc.items, item)
             less == acc.remaining - CountTokens(content)
             new == [items |-> items, omitted |-> acc.omitted, remaining |-> less]
             last == Len(acc.items) + 1
  <1>1. /\ acc \in Diffs /\ Len(acc.items) + Len(acc.omitted) = k - 1
        /\ \A m \in 1..(k - 1) : \/ \E i \in DOMAIN acc.items : acc.items[i].path = o[m].path
                                 \/ \E i \in DOMAIN acc.omitted : acc.omitted[i].path = o[m].path
        /\ \A i \in DOMAIN acc.items : \E m \in 1..(k - 1) : Shows(acc.items[i], o[m])
        /\ \A i \in DOMAIN acc.omitted :
             \E m \in 1..(k - 1) : Excuses(acc.omitted[i], o[m], acc.remaining)
        /\ TokensOf(acc.items) \in Nat
        /\ TokensOf(acc.items) + acc.remaining = rvPolicy.budget
    BY DEF PackUpTo
  <1>2. acc.items \in Seq(PackedItems) /\ acc.omitted \in Seq(Omissions) /\ acc.remaining \in Nat
    BY <1>1 DEF Diffs
  <1>3. k \in Nat /\ k \in 1..k /\ \A m \in 1..k : m = k \/ m \in 1..(k - 1)
    OBVIOUS
  <1>4. \A m \in 1..(k - 1) : m \in 1..k
    OBVIOUS
  <1>5. o[k] \in SnapshotFiles
    OBVIOUS
  <1>6. o[k].path \in Nat
    BY <1>5 DEF SnapshotFiles
  <1>7. /\ CountTokens(content) \in Nat /\ LineRange(content) \in Nat \X Nat
        /\ CountTokens(content) = Needs(o[k])
    BY <1>5, NeedsIsNatural DEF Needs
  <1>8. ToSet(content.new) \in SUBSET Nat
    <2>1. content.new \in Seq(Nat)
      BY RenderNumbers DEF Contents
    <2> QED
      BY <2>1 DEF ToSet
  <1>9. item \in PackedItems /\ item.tokens = CountTokens(content) /\ item.path = o[k].path
    BY <1>6, <1>7, <1>8 DEF PackedItems
  <1>10. Shows(item, o[k])
    BY DEF Shows
  <1>11. IncludeFile(acc, o[k], RenderHunks(o[k].patch)) = new
    BY DEF IncludeFile
  <1>12. less \in Nat /\ less <= acc.remaining /\ item.tokens + less = acc.remaining
    BY <1>2, <1>7, <1>9
  <1> HIDE DEF item, less
  <1>13. /\ items \in Seq(PackedItems) /\ Len(items) = Len(acc.items) + 1
         /\ DOMAIN items = DOMAIN acc.items \cup {last}
         /\ \A i \in DOMAIN acc.items : items[i] = acc.items[i]
         /\ items[last] = item /\ Len(acc.items) \in Nat
    BY <1>2, <1>9, Appended
  <1>14. TokensOf(items) = TokensOf(acc.items) + item.tokens
    BY <1>2, <1>9, OneMoreItem
  <1>15. item.tokens \in Nat
    BY <1>7, <1>9
  <1> HIDE DEF items, last
  <1>16. new \in Diffs
    BY <1>2, <1>12, <1>13 DEF Diffs
  <1>17. Len(items) + Len(acc.omitted) = k
    <2>1. PICK a \in Nat, b \in Nat : a = Len(acc.items) /\ b = Len(acc.omitted)
      BY <1>2, <1>13
    <2>2. a + b = k - 1 /\ Len(items) = a + 1
      BY <1>1, <1>13, <2>1
    <2>3. (a + 1) + b = k
      BY <1>3, <2>2
    <2> QED
      BY <2>1, <2>2, <2>3
  <1>18. \A m \in 1..k : \/ \E i \in DOMAIN items : items[i].path = o[m].path
                         \/ \E i \in DOMAIN acc.omitted : acc.omitted[i].path = o[m].path
    <2> SUFFICES ASSUME NEW m \in 1..k
                 PROVE  \/ \E i \in DOMAIN items : items[i].path = o[m].path
                        \/ \E i \in DOMAIN acc.omitted : acc.omitted[i].path = o[m].path
      OBVIOUS
    <2>1. CASE m = k
      <3>1. last \in DOMAIN items /\ items[last].path = o[m].path
        BY <1>9, <1>13, <2>1
      <3> QED
        BY <3>1
    <2>2. CASE m \in 1..(k - 1)
      <3>1. \A i \in DOMAIN acc.items : i \in DOMAIN items /\ items[i].path = acc.items[i].path
        BY <1>13
      <3> QED
        BY <1>1, <2>2, <3>1
    <2> QED
      BY <1>3, <2>1, <2>2
  <1>19. \A i \in DOMAIN acc.omitted : \E m \in 1..k : Excuses(acc.omitted[i], o[m], less)
    BY <1>1, <1>2, <1>4, <1>12, Excused
  <1>20. \A i \in DOMAIN items : \E m \in 1..k : Shows(items[i], o[m])
    BY <1>1, <1>3, <1>4, <1>10, <1>13
  <1>21. TokensOf(items) \in Nat /\ TokensOf(items) + less = rvPolicy.budget
    <2>1. PICK a \in Nat, b \in Nat : a = TokensOf(acc.items) /\ b = item.tokens
      BY <1>1, <1>15
    <2>2. TokensOf(items) = a + b /\ a + (b + less) = rvPolicy.budget
      BY <1>1, <1>12, <1>14, <2>1
    <2> QED
      BY <1>12, <2>2
  <1> QED
    BY <1>11, <1>16, <1>17, <1>18, <1>19, <1>20, <1>21 DEF PackUpTo

\* A file that is left out before packing is left out for another reason than the
\* budget, and one that is not has a patch (_classify, diff_budget.py).
LEMMA ClassifyIs ==
    ASSUME NEW file \in SnapshotFiles
    PROVE  /\ Classify(file) \in GivenReasons /\ Classify(file) # "token_budget"
           /\ Classify(file) = "none" => file.patch \in Seq(Hunks)
  <1>1. /\ file.reason \in OmissionReasons /\ file.binary \in BOOLEAN /\ file.truncated \in BOOLEAN
        /\ file.patch \in Seq(Hunks) \cup {NoPatch}
    BY DEF SnapshotFiles
  <1>2. CASE file.reason # "none"
    BY <1>1, <1>2 DEF Classify, OmissionReasons, GivenReasons
  <1>3. CASE file.reason = "none"
    BY <1>1, <1>3 DEF Classify, OmissionReasons, GivenReasons
  <1> QED
    BY <1>2, <1>3

LEMMA PackStep ==
    ASSUME NEW o \in Seq(SnapshotFiles), NEW acc, NEW k \in DOMAIN o, PackUpTo(o, acc, k - 1)
    PROVE  PackUpTo(o, PackFile(acc, o[k]), k)
  <1> DEFINE reason == Classify(o[k])
             content == RenderHunks(o[k].patch)
  <1>1. o[k] \in SnapshotFiles
    OBVIOUS
  <1>2. /\ reason \in GivenReasons /\ reason # "token_budget"
        /\ reason = "none" => o[k].patch \in Seq(Hunks)
    BY <1>1, ClassifyIs
  <1>3. PackFile(acc, o[k]) =
          IF reason # "none" THEN OmitFile(acc, o[k], reason)
          ELSE IF CountTokens(content) > acc.remaining
               THEN OmitFile(acc, o[k], "token_budget")
               ELSE IncludeFile(acc, o[k], content)
    BY DEF PackFile
  <1>4. CountTokens(content) = Needs(o[k])
    BY DEF Needs
  <1>5. acc.remaining \in Nat
    BY DEF PackUpTo, Diffs
  <1> HIDE DEF reason
  <1>6. CASE reason # "none"
    BY <1>2, <1>3, <1>6, OmitStep
  <1>7. CASE reason = "none" /\ CountTokens(content) > acc.remaining
    <2>1. Needs(o[k]) \in Nat
      BY <1>1, <1>2, <1>7, NeedsIsNatural
    <2>2. "token_budget" \in GivenReasons
      BY DEF GivenReasons
    <2>3. PackUpTo(o, OmitFile(acc, o[k], "token_budget"), k)
      BY <1>4, <1>7, <2>1, <2>2, OmitStep
    <2> QED
      BY <1>3, <1>7, <2>3
  <1>8. CASE reason = "none" /\ ~(CountTokens(content) > acc.remaining)
    <2>1. Needs(o[k]) \in Nat /\ o[k].patch \in Seq(Hunks)
      BY <1>1, <1>2, <1>8, NeedsIsNatural
    <2>2. Needs(o[k]) <= acc.remaining
      BY <1>4, <1>5, <1>8, <2>1
    <2>3. PackUpTo(o, IncludeFile(acc, o[k], RenderHunks(o[k].patch)), k)
      BY <2>1, <2>2, IncludeStep
    <2> QED
      BY <1>3, <1>8, <2>3
  <1> QED
    BY <1>6, <1>7, <1>8

LEMMA PackingUnrolls ==
    ASSUME NEW base, NEW o, NEW n, Packing!Sized(o, n)
    PROVE  \E h : /\ h[0] = base
                  /\ \A k \in 1..n : h[k] = PackFile(h[k - 1], o[k])
                  /\ Packing!Folded(base, o) = h[n]
  BY Packing!FoldUnrolls

LEMMA PackFold ==
    ASSUME NEW o, NEW n, Packing!Sized(o, n), o \in Seq(SnapshotFiles),
           NEW base, PackUpTo(o, base, 0)
    PROVE  PackUpTo(o, FoldLeft(PackFile, base, o), n)
  <1> DEFINE packed == FoldLeft(PackFile, base, o)
  <1>1. PICK h : /\ h[0] = base
                 /\ \A k \in 1..n : h[k] = PackFile(h[k - 1], o[k])
                 /\ Packing!Folded(base, o) = h[n]
    BY PackingUnrolls
  <1>0. n \in Nat /\ DOMAIN o = 1..n
    BY DEF Packing!Sized
  <1>2. packed = h[n]
    <2>1. Packing!Folded(base, o) = FoldLeft(PackFile, base, o)
      BY DEF Packing!Folded, Packing!FoldLeft, FoldLeft, MapThenFoldSet,
             Packing!MapThenFoldSet, Max, Packing!Max
    <2> QED
      BY <1>1, <2>1
  <1> HIDE DEF packed
  <1> DEFINE S == {k \in 0..n : PackUpTo(o, h[k], k)}
  <1>3. 0 \in S
    BY <1>0, <1>1
  <1>4. ASSUME NEW k \in 1..n, k - 1 \in S PROVE k \in S
    <2>1. k \in DOMAIN o /\ PackUpTo(o, h[k - 1], k - 1)
      BY <1>0, <1>4
    <2>2. PackUpTo(o, PackFile(h[k - 1], o[k]), k)
      BY <2>1, PackStep
    <2> QED
      BY <1>1, <2>2
  <1> HIDE DEF S
  <1>5. \A k \in 1..n : k - 1 \in S => k \in S
    BY <1>4
  <1>6. \A k \in 0..n : k \in S
    BY <1>0, <1>3, <1>5, Splitting!UpTo
  <1>7. n \in S
    BY <1>0, <1>6
  <1>8. PackUpTo(o, packed, n)
    BY <1>2, <1>7 DEF S
  <1> QED
    BY <1>8 DEF packed

LEMMA PackNothing ==
    ASSUME rvPolicy.budget \in Nat, NEW o, NEW base,
           base = [items |-> <<>>, omitted |-> <<>>, remaining |-> rvPolicy.budget]
    PROVE  PackUpTo(o, base, 0)
  <1>1. /\ base \in Diffs /\ Len(base.items) + Len(base.omitted) = 0
        /\ DOMAIN base.items = {} /\ DOMAIN base.omitted = {}
    BY DEF Diffs
  <1>2. TokensOf(base.items) = 0 /\ base.remaining = rvPolicy.budget
    BY NoTokens
  <1>3. TokensOf(base.items) + base.remaining = rvPolicy.budget
    BY <1>2
  <1>4. TokensOf(base.items) \in Nat /\ \A m \in 1..0 : FALSE
    BY <1>2
  <1> QED
    BY <1>1, <1>3, <1>4 DEF PackUpTo

\* The whole snapshot is packed, whichever order the files are taken in.
LEMMA PackAll ==
    ASSUME NEW files \in Seq(SnapshotFiles), rvPolicy.budget \in Nat,
           NEW base, base = [items |-> <<>>, omitted |-> <<>>, remaining |-> rvPolicy.budget]
    PROVE  PackUpTo(files, FoldLeft(PackFile, base, Sorted(files, PacksBefore)), Len(files))
  <1>1. PICK n \in Nat : n = Len(files) /\ DOMAIN files = 1..n
    OBVIOUS
  <1> DEFINE o == Sorted(files, PacksBefore)
  <1>2. PICK p \in [1..n -> 1..n] : /\ \A i \in 1..n : \E m \in 1..n : p[m] = i
                                    /\ o = [m \in 1..n |-> files[p[m]]]
    BY <1>1, PackingOrder
  <1> HIDE DEF o
  <1>3. \A m \in 1..n : p[m] \in 1..n /\ o[m] = files[p[m]] /\ files[p[m]] \in SnapshotFiles
    <2>1. \A m \in 1..n : p[m] \in 1..n
      BY <1>2
    <2>2. \A m \in 1..n : o[m] = files[p[m]]
      BY <1>2, Zenon
    <2>3. \A i \in 1..n : files[i] \in SnapshotFiles
      BY <1>1
    <2> QED
      BY <2>1, <2>2, <2>3
  <1>4. o \in Seq(SnapshotFiles) /\ DOMAIN o = 1..n
    BY <1>2, <1>3
  <1> DEFINE packed == FoldLeft(PackFile, base, o)
  <1>5. PackUpTo(o, packed, n)
    <2>1. PackUpTo(o, base, 0)
      BY PackNothing
    <2> QED
      BY <1>4, <2>1, PackFold DEF Packing!Sized
  <1>6. packed = FoldLeft(PackFile, base, Sorted(files, PacksBefore))
    BY DEF o
  <1> HIDE DEF packed
  <1>7. ASSUME NEW m \in 1..n PROVE \E l \in 1..n : o[l] = files[m]
    BY <1>2, <1>3
  <1>8. ASSUME NEW l \in 1..n PROVE \E m \in 1..n : o[l] = files[m]
    BY <1>3
  <1>9. /\ \A m \in 1..n : \/ \E i \in DOMAIN packed.items : packed.items[i].path = files[m].path
                           \/ \E i \in DOMAIN packed.omitted :
                                packed.omitted[i].path = files[m].path
        /\ \A i \in DOMAIN packed.items : \E m \in 1..n : Shows(packed.items[i], files[m])
        /\ \A i \in DOMAIN packed.omitted :
             \E m \in 1..n : Excuses(packed.omitted[i], files[m], packed.remaining)
    <2>1. /\ \A m \in 1..n : \/ \E i \in DOMAIN packed.items : packed.items[i].path = o[m].path
                             \/ \E i \in DOMAIN packed.omitted : packed.omitted[i].path = o[m].path
          /\ \A i \in DOMAIN packed.items : \E m \in 1..n : Shows(packed.items[i], o[m])
          /\ \A i \in DOMAIN packed.omitted :
               \E m \in 1..n : Excuses(packed.omitted[i], o[m], packed.remaining)
      BY <1>5 DEF PackUpTo
    <2>2. ASSUME NEW m \in 1..n
          PROVE  \/ \E i \in DOMAIN packed.items : packed.items[i].path = files[m].path
                 \/ \E i \in DOMAIN packed.omitted : packed.omitted[i].path = files[m].path
      <3>1. PICK l \in 1..n : o[l] = files[m]
        BY <1>7
      <3> QED
        BY <2>1, <3>1
    <2>3. ASSUME NEW i \in DOMAIN packed.items
          PROVE  \E m \in 1..n : Shows(packed.items[i], files[m])
      <3>1. PICK l \in 1..n : Shows(packed.items[i], o[l])
        BY <2>1
      <3>2. PICK m \in 1..n : o[l] = files[m]
        BY <1>8
      <3> QED
        BY <3>1, <3>2
    <2>4. ASSUME NEW i \in DOMAIN packed.omitted
          PROVE  \E m \in 1..n : Excuses(packed.omitted[i], files[m], packed.remaining)
      <3>1. PICK l \in 1..n : Excuses(packed.omitted[i], o[l], packed.remaining)
        BY <2>1
      <3>2. PICK m \in 1..n : o[l] = files[m]
        BY <1>8
      <3> QED
        BY <3>1, <3>2
    <2> QED
      BY <2>2, <2>3, <2>4
  <1>10. PackUpTo(files, packed, n)
    BY <1>5, <1>9 DEF PackUpTo
  <1> QED
    BY <1>1, <1>6, <1>10

-----------------------------------------------------------------------------
(* The snapshot.                                                           *)

\* The snapshot lists a file once, and nothing that a fetch or a recovered clone
\* records about it is the reason packing gives for a file it has no room for.
FilesOk ==
    /\ rvPolicy \in Policies
    /\ rvFiles \in Seq(SnapshotFiles)
    /\ \A i, j \in DOMAIN rvFiles : rvFiles[i].path = rvFiles[j].path => i = j

\* The packed diff accounts for the snapshot.
PackedOk ==
    RvDone => \E remaining \in Nat :
                PackUpTo(rvFiles, [items |-> rvPacked.items, omitted |-> rvPacked.omitted,
                                   remaining |-> remaining], Len(rvFiles))

LEMMA PageKeepsFiles ==
    ASSUME FilesOk, NEW change \in Changes, FetchPage(change)
    PROVE  FilesOk'
  <1> DEFINE file == NormalizeFile(change)
             last == Len(rvFiles) + 1
  <1>1. change.path \in Nat /\ change.patch \in Seq(Hunks) \cup {NoPatch}
    BY DiffReviewAssumption
  <1>2. file \in SnapshotFiles /\ file.path = change.path
    BY <1>1 DEF NormalizeFile, SnapshotFiles, OmissionReasons
  <1> HIDE DEF file
  <1>3. rvFiles' = Append(rvFiles, file) /\ rvPolicy' = rvPolicy
    BY DEF FetchPage, file
  <1>4. rvFiles \in Seq(SnapshotFiles)
    BY DEF FilesOk
  <1>5. /\ rvFiles' \in Seq(SnapshotFiles)
        /\ DOMAIN rvFiles' = DOMAIN rvFiles \cup {last}
        /\ \A i \in DOMAIN rvFiles : rvFiles'[i] = rvFiles[i]
        /\ rvFiles'[last] = file
    BY <1>2, <1>3, <1>4, Appended
  <1> HIDE DEF last
  <1>6. \A i \in DOMAIN rvFiles : rvFiles[i].path # file.path
    BY <1>2 DEF FetchPage
  <1>7. \A i, j \in DOMAIN rvFiles' : rvFiles'[i].path = rvFiles'[j].path => i = j
    BY <1>5, <1>6 DEF FilesOk
  <1> QED
    BY <1>3, <1>5, <1>7 DEF FilesOk

LEMMA CompletedFile ==
    ASSUME NEW file \in SnapshotFiles, NEW clone \in CloneEnds,
           ~(file.patch = NoPatch /\ RecoverOrOmit(clone) = "raise")
    PROVE  CompleteFile(file, clone) \in SnapshotFiles /\ CompleteFile(file, clone).path = file.path
  <1>1. /\ file.path \in Nat /\ file.patch \in Seq(Hunks) \cup {NoPatch}
        /\ file.status \in {c.status : c \in Changes}
        /\ file.binary \in BOOLEAN /\ file.truncated \in BOOLEAN /\ file.reason \in OmissionReasons
        /\ file = [path |-> file.path, patch |-> file.patch, status |-> file.status,
                   binary |-> file.binary, truncated |-> file.truncated, reason |-> file.reason]
    BY DEF SnapshotFiles
  <1>2. RecoverOrOmit(clone) \in {"none", "text", "raise", "clone_timeout", "file_size_limit"}
    BY DEF RecoverOrOmit, RecoverPatch, CloneEnds
  <1> DEFINE with(new, why) == [path |-> file.path, patch |-> new, status |-> file.status,
                                binary |-> file.binary, truncated |-> file.truncated,
                                reason |-> why]
  <1>3. ASSUME NEW new \in Seq(Hunks) \cup {NoPatch}, NEW why \in OmissionReasons
        PROVE  with(new, why) \in SnapshotFiles /\ with(new, why).path = file.path
    BY <1>1 DEF SnapshotFiles
  <1>4. \E new \in Seq(Hunks) \cup {NoPatch}, why \in OmissionReasons :
          CompleteFile(file, clone) = with(new, why)
    <2>1. CASE file.binary
      BY <1>1, <2>1 DEF CompleteFile, OmissionReasons
    <2>2. CASE ~file.binary /\ file.truncated
      BY <1>1, <2>2 DEF CompleteFile, OmissionReasons
    <2>3. CASE ~file.binary /\ ~file.truncated /\ file.patch # NoPatch
      BY <1>1, <2>3 DEF CompleteFile, OmissionReasons
    <2>4. CASE ~file.binary /\ ~file.truncated /\ file.patch = NoPatch
      <3> DEFINE recovered == RecoverOrOmit(clone)
      <3>1. CompleteFile(file, clone) =
              CASE recovered = "none" -> [file EXCEPT !.reason = "patch_omitted_by_github"]
                [] recovered = "text" -> [file EXCEPT !.patch = clone.text]
                [] OTHER -> [file EXCEPT !.reason = recovered]
        BY <2>4 DEF CompleteFile
      <3>2. recovered \in {"none", "text", "clone_timeout", "file_size_limit"}
        BY <1>2, <2>4
      <3> HIDE DEF recovered
      <3>3. CASE recovered = "none"
        <4>1. CompleteFile(file, clone) = with(file.patch, "patch_omitted_by_github")
          BY <1>1, <3>1, <3>3
        <4> QED
          BY <1>1, <4>1 DEF OmissionReasons
      <3>4. CASE recovered = "text"
        <4>1. CompleteFile(file, clone) = with(clone.text, file.reason)
          BY <1>1, <3>1, <3>4
        <4>2. clone.text \in Seq(Hunks) \cup {NoPatch}
          BY DiffReviewAssumption DEF CloneEnds
        <4> HIDE DEF with
        <4> QED
          BY <1>1, <4>1, <4>2
      <3>5. CASE recovered \in {"clone_timeout", "file_size_limit"}
        <4>1. CompleteFile(file, clone) = with(file.patch, recovered)
          BY <1>1, <3>1, <3>5
        <4> QED
          BY <1>1, <3>5, <4>1 DEF OmissionReasons
      <3> QED
        BY <3>2, <3>3, <3>4, <3>5
    <2> QED
      BY <1>1, <2>1, <2>2, <2>3, <2>4
  <1> HIDE DEF with
  <1> QED
    BY <1>3, <1>4

LEMMA CompletionKeepsFiles ==
    ASSUME FilesOk, NEW ends \in [DOMAIN rvFiles -> CloneEnds], EnsureCompleteDiff(ends)
    PROVE  FilesOk'
  <1>1. CASE rvFiles' = rvFiles
    <2>1. rvPolicy' = rvPolicy
      BY DEF EnsureCompleteDiff, Fail
    <2> QED
      BY <1>1, <2>1 DEF FilesOk
  <1>2. CASE rvFiles' # rvFiles
    <2>1. /\ ~\E i \in DOMAIN rvFiles : rvFiles[i].patch = NoPatch /\ RecoverOrOmit(ends[i]) = "raise"
          /\ rvFiles' = [i \in DOMAIN rvFiles |-> CompleteFile(rvFiles[i], ends[i])]
          /\ rvPolicy' = rvPolicy
      BY <1>2 DEF EnsureCompleteDiff, Fail
    <2>2. rvFiles \in Seq(SnapshotFiles)
      BY DEF FilesOk
    <2>3. ASSUME NEW i \in DOMAIN rvFiles
          PROVE  rvFiles'[i] \in SnapshotFiles /\ rvFiles'[i].path = rvFiles[i].path
      <3>1. rvFiles[i] \in SnapshotFiles /\ ends[i] \in CloneEnds
        BY <2>2
      <3>2. rvFiles'[i] = CompleteFile(rvFiles[i], ends[i])
        BY <2>1
      <3> QED
        BY <2>1, <3>1, <3>2, CompletedFile
    <2>4. DOMAIN rvFiles' = DOMAIN rvFiles
      BY <2>1
    <2>5. rvFiles' \in Seq(SnapshotFiles)
      <3>1. PICK n \in Nat : DOMAIN rvFiles = 1..n
        BY <2>2
      <3>2. \A i \in 1..n : rvFiles'[i] \in SnapshotFiles
        BY <2>3, <3>1
      <3>3. rvFiles' = [i \in 1..n |-> rvFiles'[i]]
        BY <2>1, <3>1
      <3> QED
        BY <3>2, <3>3
    <2>6. \A i, j \in DOMAIN rvFiles' : rvFiles'[i].path = rvFiles'[j].path => i = j
      BY <2>3, <2>4 DEF FilesOk
    <2> QED
      BY <2>1, <2>5, <2>6 DEF FilesOk
  <1> QED
    BY <1>1, <1>2

LEMMA FilesFrame ==
    ASSUME FilesOk, UNCHANGED <<rvFiles, rvPolicy>>
    PROVE  FilesOk'
  BY DEF FilesOk

LEMMA FilesStep ==
    ASSUME FilesOk, [RvNext]_rvVars
    PROVE  FilesOk'
  <1>1. CASE UNCHANGED rvVars
    BY <1>1, FilesFrame DEF rvVars
  <1>2. CASE FetchPullRequest
    BY <1>2, FilesFrame DEF FetchPullRequest, Fetching
  <1>3. CASE \E matches \in BOOLEAN : FetchJobSnapshot(matches)
    BY <1>3, FilesFrame DEF FetchJobSnapshot, FetchByRepositoryId, Fetching, Fail
  <1>4. CASE \E change \in Changes : FetchPage(change)
    BY <1>4, PageKeepsFiles
  <1>5. CASE LastPage
    BY <1>5, FilesFrame DEF LastPage
  <1>6. CASE FetchFails
    BY <1>6, FilesFrame DEF FetchFails, Fail
  <1>7. CASE \E ends \in [DOMAIN rvFiles -> CloneEnds] : EnsureCompleteDiff(ends)
    BY <1>7, CompletionKeepsFiles
  <1>8. CASE PackDiff
    BY <1>8, FilesFrame DEF PackDiff
  <1>9. CASE \E heartbeat \in {"none", "active", "cancelled", "invalid_or_expired"},
                raw \in SeqOf(Drafts, MaxReturned) : ReviewPullRequest(heartbeat, raw)
    BY <1>9, FilesFrame DEF ReviewPullRequest, Fail
  <1>10. CASE ModelFails
    BY <1>10, FilesFrame DEF ModelFails, Fail
  <1>11. CASE \E concerns \in Answering :
                \E returned \in [concerns -> SeqOf(Reports, MaxReported)] : RunSpecialists(returned)
    BY <1>11, FilesFrame DEF RunSpecialists
  <1> QED
    BY <1>1, <1>2, <1>3, <1>4, <1>5, <1>6, <1>7, <1>8, <1>9, <1>10, <1>11 DEF RvNext

LEMMA PackingPacks ==
    ASSUME FilesOk, PackDiff
    PROVE  PackedOk'
  <1> DEFINE base == [items |-> <<>>, omitted |-> <<>>, remaining |-> rvPolicy.budget]
             packed == FoldLeft(PackFile, base, Sorted(rvFiles, PacksBefore))
  <1>1. rvPolicy.budget \in Nat /\ rvFiles \in Seq(SnapshotFiles)
    BY DiffReviewAssumption DEF FilesOk
  <1>2. PackUpTo(rvFiles, packed, Len(rvFiles))
    <2>1. PICK files, start : files = rvFiles /\ start = base
      OBVIOUS
    <2>2. PackUpTo(files, FoldLeft(PackFile, start, Sorted(files, PacksBefore)), Len(files))
      BY <1>1, <2>1, PackAll
    <2> QED
      BY <2>1, <2>2
  <1>3. /\ rvPacked' = [items |-> packed.items, omitted |-> packed.omitted,
                        coversAll |-> packed.omitted = <<>>]
        /\ rvFiles' = rvFiles /\ rvPolicy' = rvPolicy
    BY DEF PackDiff
  <1> HIDE DEF packed
  <1>4. packed \in Diffs
    BY <1>2 DEF PackUpTo
  <1>5. /\ packed.remaining \in Nat
        /\ packed = [items |-> packed.items, omitted |-> packed.omitted,
                     remaining |-> packed.remaining]
    BY <1>4 DEF Diffs
  <1>6. rvPacked'.items = packed.items /\ rvPacked'.omitted = packed.omitted
    BY <1>3
  <1>7. PICK remaining \in Nat :
          packed = [items |-> rvPacked'.items, omitted |-> rvPacked'.omitted, remaining |-> remaining]
    BY <1>5, <1>6
  <1> QED
    BY <1>2, <1>3, <1>7 DEF PackedOk, PackUpTo

LEMMA PackedFrame ==
    ASSUME PackedOk, RvDone, UNCHANGED <<rvFiles, rvPolicy, rvPacked>>
    PROVE  PackedOk'
  BY DEF PackedOk, PackUpTo

LEMMA NotDone ==
    ASSUME rvStage' \in {"start", "fetching", "fetched", "completed", "failed", "cancelled"}
    PROVE  PackedOk'
  BY DEF PackedOk, RvDone

LEMMA PackedStep ==
    ASSUME FilesOk, PackedOk, [RvNext]_rvVars
    PROVE  PackedOk'
  <1>1. CASE UNCHANGED rvVars
    BY <1>1 DEF rvVars, PackedOk, PackUpTo, RvDone
  <1>2. CASE FetchPullRequest
    BY <1>2, NotDone DEF FetchPullRequest, Fetching
  <1>3. CASE \E matches \in BOOLEAN : FetchJobSnapshot(matches)
    BY <1>3, NotDone DEF FetchJobSnapshot, FetchByRepositoryId, Fetching, Fail
  <1>4. CASE \E change \in Changes : FetchPage(change)
    BY <1>4, NotDone DEF FetchPage
  <1>5. CASE LastPage
    BY <1>5, NotDone DEF LastPage
  <1>6. CASE FetchFails
    BY <1>6, NotDone DEF FetchFails, Fail
  <1>7. CASE \E ends \in [DOMAIN rvFiles -> CloneEnds] : EnsureCompleteDiff(ends)
    BY <1>7, NotDone DEF EnsureCompleteDiff, Fail
  <1>8. CASE PackDiff
    BY <1>8, PackingPacks
  <1>9. CASE \E heartbeat \in {"none", "active", "cancelled", "invalid_or_expired"},
                raw \in SeqOf(Drafts, MaxReturned) : ReviewPullRequest(heartbeat, raw)
    BY <1>9, PackedFrame DEF ReviewPullRequest, Fail, RvDone
  <1>10. CASE ModelFails
    BY <1>10, NotDone DEF ModelFails, Fail
  <1>11. CASE \E concerns \in Answering :
                \E returned \in [concerns -> SeqOf(Reports, MaxReported)] : RunSpecialists(returned)
    BY <1>11, PackedFrame DEF RunSpecialists, RvDone
  <1> QED
    BY <1>1, <1>2, <1>3, <1>4, <1>5, <1>6, <1>7, <1>8, <1>9, <1>10, <1>11 DEF RvNext

\* The files of a snapshot have paths of their own, so a path's cost is its file's.
LEMMA CostIsNeed ==
    ASSUME FilesOk, NEW i \in DOMAIN rvFiles
    PROVE  Cost(rvFiles[i].path) = Needs(rvFiles[i])
  <1> DEFINE path == rvFiles[i].path
             file == CHOOSE f \in ToSet(rvFiles) : f.path = path
  <1>1. rvFiles[i] \in ToSet(rvFiles) /\ \A f \in ToSet(rvFiles) : f.path = path => f = rvFiles[i]
    BY DEF FilesOk, ToSet
  <1>2. file \in ToSet(rvFiles) /\ file.path = path
    BY <1>1
  <1>3. file = rvFiles[i]
    BY <1>1, <1>2
  <1>4. Cost(path) = CountTokens(RenderHunks(file.patch))
    BY DEF Cost
  <1> QED
    BY <1>3, <1>4 DEF Needs

LEMMA PackedAccounts ==
    ASSUME FilesOk, PackedOk
    PROVE  EveryFileAccounted
  <1> SUFFICES ASSUME RvDone PROVE EveryFileAccounted
    BY DEF EveryFileAccounted
  <1> DEFINE items == rvPacked.items
             omitted == rvPacked.omitted
             packed == [i \in DOMAIN items |-> items[i].path]
             left == [i \in DOMAIN omitted |-> omitted[i].path]
             budget == rvPolicy.budget
  <1>1. PICK remaining \in Nat :
          /\ items \in Seq(PackedItems) /\ omitted \in Seq(Omissions)
          /\ Len(items) + Len(omitted) = Len(rvFiles)
          /\ \A m \in 1..Len(rvFiles) : \/ \E i \in DOMAIN items : items[i].path = rvFiles[m].path
                                        \/ \E i \in DOMAIN omitted : omitted[i].path = rvFiles[m].path
          /\ \A i \in DOMAIN items : \E m \in 1..Len(rvFiles) : Shows(items[i], rvFiles[m])
          /\ \A i \in DOMAIN omitted :
               \E m \in 1..Len(rvFiles) : Excuses(omitted[i], rvFiles[m], remaining)
          /\ TokensOf(items) \in Nat /\ TokensOf(items) + remaining = budget
    BY DEF PackedOk, PackUpTo, Diffs
  <1>2. rvFiles \in Seq(SnapshotFiles) /\ DOMAIN rvFiles = 1..Len(rvFiles)
    BY DEF FilesOk
  <1>3. Spent = TokensOf(items)
    BY DEF Spent, TokensOf
  <1>4. Len(packed) + Len(left) = Len(rvFiles)
    <2>1. DOMAIN packed = 1..Len(items) /\ DOMAIN left = 1..Len(omitted)
          /\ Len(items) \in Nat /\ Len(omitted) \in Nat
      BY <1>1
    <2>2. Len(packed) = Len(items) /\ Len(left) = Len(omitted)
      BY <2>1
    <2> QED
      BY <1>1, <2>2
  <1>5. ToSet(packed) \cup ToSet(left) = {rvFiles[i].path : i \in DOMAIN rvFiles}
    <2>1. ToSet(packed) = {items[i].path : i \in DOMAIN items}
      BY DEF ToSet
    <2>2. ToSet(left) = {omitted[i].path : i \in DOMAIN omitted}
      BY DEF ToSet
    <2>3. \A i \in DOMAIN items : \E m \in DOMAIN rvFiles : items[i].path = rvFiles[m].path
      BY <1>1, <1>2 DEF Shows
    <2>4. \A i \in DOMAIN omitted : \E m \in DOMAIN rvFiles : omitted[i].path = rvFiles[m].path
      BY <1>1, <1>2 DEF Excuses
    <2>5. \A m \in DOMAIN rvFiles :
            \/ rvFiles[m].path \in {items[i].path : i \in DOMAIN items}
            \/ rvFiles[m].path \in {omitted[i].path : i \in DOMAIN omitted}
      BY <1>1, <1>2
    <2> HIDE DEF items, omitted, packed, left
    <2>6. ToSet(packed) \cup ToSet(left) \subseteq {rvFiles[i].path : i \in DOMAIN rvFiles}
      BY <2>1, <2>2, <2>3, <2>4
    <2>7. {rvFiles[i].path : i \in DOMAIN rvFiles} \subseteq ToSet(packed) \cup ToSet(left)
      BY <2>1, <2>2, <2>5
    <2> QED
      BY <2>6, <2>7
  <1>6. budget \in Nat
    BY DiffReviewAssumption DEF FilesOk
  <1>7. Spent <= budget
    BY <1>1, <1>3, <1>6
  <1>8. ASSUME NEW i \in DOMAIN omitted, omitted[i].reason = "token_budget"
        PROVE  Spent + Cost(omitted[i].path) > budget
    <2>1. PICK m \in DOMAIN rvFiles : Excuses(omitted[i], rvFiles[m], remaining)
      BY <1>1, <1>2
    <2>2. /\ omitted[i].path = rvFiles[m].path
          /\ Needs(rvFiles[m]) \in Nat /\ Needs(rvFiles[m]) > remaining
      BY <1>8, <2>1 DEF Excuses
    <2>3. Cost(omitted[i].path) = Needs(rvFiles[m])
      BY <2>2, CostIsNeed
    <2>4. PICK a \in Nat, b \in Nat : a = TokensOf(items) /\ b = Needs(rvFiles[m])
      BY <1>1, <2>2
    <2>5. a + b > a + remaining
      BY <2>2, <2>4
    <2> QED
      BY <1>1, <1>3, <2>3, <2>4, <2>5
  <1> QED
    BY <1>4, <1>5, <1>7, <1>8 DEF EveryFileAccounted

LEMMA RvStarts ==
    ASSUME RvInit
    PROVE  FilesOk /\ PackedOk
  <1>1. rvFiles \in Seq(SnapshotFiles) /\ DOMAIN rvFiles = {}
    BY DEF RvInit
  <1> QED
    BY <1>1 DEF RvInit, FilesOk, PackedOk, RvDone

\* Whatever files a pull request lists and however their missing patches are
\* recovered, packing leaves none out unsaid, stays within the budget, and refuses
\* for the budget only what no longer fits (pack_diff, diff_budget.py).
THEOREM FilesAlwaysAccounted == RvSpec => []EveryFileAccounted
  <1>1. RvInit => FilesOk /\ PackedOk
    BY RvStarts
  <1>2. FilesOk /\ PackedOk /\ [RvNext]_rvVars => (FilesOk /\ PackedOk)'
    BY FilesStep, PackedStep
  <1>3. FilesOk /\ PackedOk => EveryFileAccounted
    BY PackedAccounts
  <1> QED
    BY <1>1, <1>2, <1>3, PTL DEF RvSpec

-----------------------------------------------------------------------------
(* The model's findings.                                                   *)

Taking == INSTANCE FoldInduction WITH op <- TakeDraft

\* The drafts taken so far are inside the diff that was shown.
TakenOk(accepted) ==
    accepted \in Seq(Drafts) /\ \A i \in DOMAIN accepted : InChangedDiff(accepted[i])

LEMMA TakeStep ==
    ASSUME NEW accepted, NEW draft \in Drafts, TakenOk(accepted)
    PROVE  TakenOk(TakeDraft(accepted, draft))
  <1>1. accepted \in Seq(Drafts) /\ \A i \in DOMAIN accepted : InChangedDiff(accepted[i])
    BY DEF TakenOk
  <1>2. CASE TakeDraft(accepted, draft) = accepted
    BY <1>2
  <1>3. CASE TakeDraft(accepted, draft) # accepted
    <2>1. InChangedDiff(draft) /\ TakeDraft(accepted, draft) = Append(accepted, draft)
      BY <1>3 DEF TakeDraft
    <2> DEFINE all == Append(accepted, draft)
               last == Len(accepted) + 1
    <2>2. /\ all \in Seq(Drafts) /\ DOMAIN all = DOMAIN accepted \cup {last}
          /\ \A i \in DOMAIN accepted : all[i] = accepted[i]
          /\ all[last] = draft
      BY <1>1, Appended
    <2> HIDE DEF all, last
    <2>3. \A i \in DOMAIN all : InChangedDiff(all[i])
      BY <1>1, <2>1, <2>2
    <2> QED
      BY <2>1, <2>2, <2>3 DEF TakenOk, all
  <1> QED
    BY <1>2, <1>3

LEMMA TakingUnrolls ==
    ASSUME NEW base, NEW o, NEW n, Taking!Sized(o, n)
    PROVE  \E h : /\ h[0] = base
                  /\ \A k \in 1..n : h[k] = TakeDraft(h[k - 1], o[k])
                  /\ Taking!Folded(base, o) = h[n]
  BY Taking!FoldUnrolls

LEMMA TakeFold ==
    ASSUME NEW raw, NEW n, Taking!Sized(raw, n), \A i \in DOMAIN raw : raw[i] \in Drafts,
           NEW base, TakenOk(base)
    PROVE  TakenOk(FoldLeft(TakeDraft, base, raw))
  <1> DEFINE taken == FoldLeft(TakeDraft, base, raw)
  <1>0. n \in Nat /\ DOMAIN raw = 1..n
    BY DEF Taking!Sized
  <1>1. PICK h : /\ h[0] = base
                 /\ \A k \in 1..n : h[k] = TakeDraft(h[k - 1], raw[k])
                 /\ Taking!Folded(base, raw) = h[n]
    BY TakingUnrolls
  <1>2. taken = h[n]
    <2>1. Taking!Folded(base, raw) = FoldLeft(TakeDraft, base, raw)
      BY DEF Taking!Folded, Taking!FoldLeft, FoldLeft, MapThenFoldSet,
             Taking!MapThenFoldSet, Max, Taking!Max
    <2> QED
      BY <1>1, <2>1
  <1> HIDE DEF taken
  <1> DEFINE S == {k \in 0..n : TakenOk(h[k])}
  <1>3. 0 \in S
    BY <1>0, <1>1
  <1>4. ASSUME NEW k \in 1..n, k - 1 \in S PROVE k \in S
    <2>1. raw[k] \in Drafts /\ TakenOk(h[k - 1])
      BY <1>0, <1>4
    <2>2. TakenOk(TakeDraft(h[k - 1], raw[k]))
      BY <2>1, TakeStep
    <2> QED
      BY <1>1, <2>2
  <1> HIDE DEF S
  <1>5. \A k \in 1..n : k - 1 \in S => k \in S
    BY <1>4
  <1>6. \A k \in 0..n : k \in S
    BY <1>0, <1>3, <1>5, Splitting!UpTo
  <1>7. n \in S
    BY <1>0, <1>6
  <1>8. TakenOk(taken)
    BY <1>2, <1>7 DEF S
  <1> QED
    BY <1>8 DEF taken

\* What the filter accepts is inside the diff that was shown.
FindingsShown == rvStage = "reviewed" => \A i \in DOMAIN rvFindings : InChangedDiff(rvFindings[i])

LEMMA ReviewShows ==
    ASSUME NEW heartbeat, NEW raw \in SeqOf(Drafts, MaxReturned), ReviewPullRequest(heartbeat, raw)
    PROVE  FindingsShown'
  <1>1. CASE rvStage' # "reviewed"
    BY <1>1 DEF FindingsShown
  <1>2. CASE rvStage' = "reviewed"
    <2>1. rvFindings' = CandidatesFromParsed(raw) /\ rvPacked' = rvPacked
      BY <1>2 DEF ReviewPullRequest, Fail
    <2>2. PICK n \in Nat : raw \in [1..n -> Drafts]
      BY DiffReviewAssumption DEF SeqOf
    <2>3. Taking!Sized(raw, n) /\ \A i \in DOMAIN raw : raw[i] \in Drafts
      BY <2>2 DEF Taking!Sized
    <2>4. TakenOk(<<>>)
      BY DEF TakenOk
    <2> DEFINE taken == CandidatesFromParsed(raw)
    <2>5. TakenOk(taken)
      BY <2>3, <2>4, TakeFold DEF CandidatesFromParsed
    <2> HIDE DEF taken
    <2>6. \A i \in DOMAIN taken : InChangedDiff(taken[i])
      BY <2>5 DEF TakenOk
    <2>7. PICK found : found = taken /\ rvFindings' = found
      BY <2>1 DEF taken
    <2>8. ASSUME NEW draft, InChangedDiff(draft) PROVE InChangedDiff(draft)'
      BY <2>1, <2>8 DEF InChangedDiff, ShownLines
    <2> QED
      BY <2>6, <2>7, <2>8 DEF FindingsShown
  <1> QED
    BY <1>1, <1>2

LEMMA ShownStep ==
    ASSUME FindingsShown, [RvNext]_rvVars
    PROVE  FindingsShown'
  <1>1. CASE UNCHANGED rvVars
    BY <1>1 DEF rvVars, FindingsShown, InChangedDiff, ShownLines
  <1>2. CASE FetchPullRequest
    BY <1>2 DEF FetchPullRequest, Fetching, FindingsShown
  <1>3. CASE \E matches \in BOOLEAN : FetchJobSnapshot(matches)
    BY <1>3 DEF FetchJobSnapshot, FetchByRepositoryId, Fetching, Fail, FindingsShown
  <1>4. CASE \E change \in Changes : FetchPage(change)
    BY <1>4 DEF FetchPage, FindingsShown
  <1>5. CASE LastPage
    BY <1>5 DEF LastPage, FindingsShown
  <1>6. CASE FetchFails
    BY <1>6 DEF FetchFails, Fail, FindingsShown
  <1>7. CASE \E ends \in [DOMAIN rvFiles -> CloneEnds] : EnsureCompleteDiff(ends)
    BY <1>7 DEF EnsureCompleteDiff, Fail, FindingsShown
  <1>8. CASE PackDiff
    BY <1>8 DEF PackDiff, FindingsShown
  <1>9. CASE \E heartbeat \in {"none", "active", "cancelled", "invalid_or_expired"},
                raw \in SeqOf(Drafts, MaxReturned) : ReviewPullRequest(heartbeat, raw)
    BY <1>9, ReviewShows
  <1>10. CASE ModelFails
    BY <1>10 DEF ModelFails, Fail, FindingsShown
  <1>11. CASE \E concerns \in Answering :
                \E returned \in [concerns -> SeqOf(Reports, MaxReported)] : RunSpecialists(returned)
    BY <1>11 DEF RunSpecialists, FindingsShown
  <1> QED
    BY <1>1, <1>2, <1>3, <1>4, <1>5, <1>6, <1>7, <1>8, <1>9, <1>10, <1>11 DEF RvNext

\* A line that is shown is a new-side line of a file of the snapshot, or misread.
LEMMA ShownLine ==
    ASSUME FilesOk, PackedOk, RvDone, NEW path, NEW n \in ShownLines(path)
    PROVE  \E f \in ToSet(rvFiles) : f.path = path /\ NumberedBy(f.patch, n)
  <1>1. PICK i \in DOMAIN rvPacked.items : /\ rvPacked.items[i].path = path
                                           /\ n \in rvPacked.items[i].lines
    BY DEF ShownLines
  <1>2. PICK m \in 1..Len(rvFiles) : Shows(rvPacked.items[i], rvFiles[m])
    BY DEF PackedOk, PackUpTo
  <1>3. rvFiles[m] \in ToSet(rvFiles)
    BY DEF FilesOk, ToSet
  <1> DEFINE content == RenderHunks(rvFiles[m].patch)
  <1>4. /\ path = rvFiles[m].path /\ rvFiles[m].patch \in Seq(Hunks)
        /\ n \in ToSet(content.new)
    BY <1>1, <1>2 DEF Shows
  <1>5. PICK at \in DOMAIN content.new : n = content.new[at]
    BY <1>4 DEF ToSet
  <1>6. NumberedBy(rvFiles[m].patch, n)
    BY <1>4, <1>5, RenderNumbers
  <1> QED
    BY <1>3, <1>4, <1>6

LEMMA ShownFindings ==
    ASSUME FilesOk, PackedOk, FindingsShown
    PROVE  FindingsOnShownLines
  <1> SUFFICES ASSUME rvStage = "reviewed", NEW i \in DOMAIN rvFindings,
                      NEW n \in LinesOf(rvFindings[i])
               PROVE  \E f \in ToSet(rvFiles) : \E h \in DOMAIN f.patch :
                        /\ f.path = rvFindings[i].path /\ f.patch[h].header
                        /\ \/ \E at \in Marked(f.patch[h], OnNewSide) :
                                  n = f.patch[h].start
                                        + Cardinality({k \in Marked(f.patch[h], OnNewSide) : k < at})
                           \/ Misread(f.patch[h], n)
    BY DEF FindingsOnShownLines
  <1>1. n \in ShownLines(rvFindings[i].path)
    BY DEF FindingsShown, InChangedDiff
  <1>2. PICK f \in ToSet(rvFiles) : f.path = rvFindings[i].path /\ NumberedBy(f.patch, n)
    BY <1>1, ShownLine DEF RvDone
  <1>3. PICK h \in DOMAIN f.patch :
          f.patch[h].header /\ (NumberedIn(f.patch[h], n) \/ Misread(f.patch[h], n))
    BY <1>2 DEF NumberedBy
  <1> QED
    BY <1>2, <1>3 DEF NumberedIn, NewAbove

\* Whatever ranges a model draws, a finding of the one-call review is on lines that
\* the head of the pull request has under those numbers, or on numbers that an old-side
\* line shows below one that starts with "NEW " (_new_side_lines and _in_changed_diff,
\* review_pull_request.py).
THEOREM FindingsAlwaysOnShownLines == RvSpec => []FindingsOnShownLines
  <1> DEFINE Inv == FilesOk /\ PackedOk /\ FindingsShown
  <1>1. RvInit => Inv
    BY RvStarts DEF RvInit, FindingsShown
  <1>2. Inv /\ [RvNext]_rvVars => Inv'
    BY FilesStep, PackedStep, ShownStep
  <1>3. Inv => FindingsOnShownLines
    BY ShownFindings
  <1> HIDE DEF Inv
  <1> QED
    BY <1>1, <1>2, <1>3, PTL DEF RvSpec

-----------------------------------------------------------------------------
(* The specialists' findings.                                              *)

MergeOrder == INSTANCE FoldInduction WITH op <- MergesBefore
Placing == INSTANCE FoldInduction WITH op <- PlaceFinding

LEMMA ReportIs ==
    ASSUME NEW r \in Reports
    PROVE  /\ r.path \in Nat /\ r.start \in Nat /\ r.end \in Nat /\ r.words \in Nat
           /\ r.severity \in Nat /\ r.category[1] \in Nat /\ r.start <= r.end
           /\ r \in ReportTypes
  <1>1. r \in ReportTypes /\ r.start <= r.end
    BY DiffReviewAssumption
  <1> QED
    BY <1>1 DEF ReportTypes

\* The merging order, spelled out.
Earlier(a1, a2, a3, a4, a5, b1, b2, b3, b4, b5) ==
    \/ a1 < b1
    \/ a1 = b1 /\ a2 < b2
    \/ a1 = b1 /\ a2 = b2 /\ a3 < b3
    \/ a1 = b1 /\ a2 = b2 /\ a3 = b3 /\ a4 < b4
    \/ a1 = b1 /\ a2 = b2 /\ a3 = b3 /\ a4 = b4 /\ a5 < b5

LEMMA MergesBeforeIs ==
    ASSUME NEW a, NEW b
    PROVE  MergesBefore(a, b) <=>
             Earlier(a.path, a.category[1], a.start, a.end, a.words,
                     b.path, b.category[1], b.start, b.end, b.words)
  <1> DEFINE x == MergeKey(a)
             y == MergeKey(b)
             at(i) == x[i] < y[i] /\ \A j \in 1..(i - 1) : x[j] = y[j]
  <1>1. /\ x[1] = a.path /\ x[2] = a.category[1] /\ x[3] = a.start /\ x[4] = a.end /\ x[5] = a.words
        /\ y[1] = b.path /\ y[2] = b.category[1] /\ y[3] = b.start /\ y[4] = b.end /\ y[5] = b.words
    BY DEF MergeKey, NormaliseCategory
  <1>2. MergesBefore(a, b) <=> \E i \in 1..5 : at(i)
    BY DEF MergesBefore
  <1> HIDE DEF x, y
  <1>3. at(1) <=> x[1] < y[1]
    OBVIOUS
  <1>4. at(2) <=> x[1] = y[1] /\ x[2] < y[2]
    BY 1..(2 - 1) = {1}
  <1>5. at(3) <=> x[1] = y[1] /\ x[2] = y[2] /\ x[3] < y[3]
    BY 1..(3 - 1) = {1, 2}
  <1>6. at(4) <=> x[1] = y[1] /\ x[2] = y[2] /\ x[3] = y[3] /\ x[4] < y[4]
    BY 1..(4 - 1) = {1, 2, 3}
  <1>7. at(5) <=> x[1] = y[1] /\ x[2] = y[2] /\ x[3] = y[3] /\ x[4] = y[4] /\ x[5] < y[5]
    BY 1..(5 - 1) = {1, 2, 3, 4}
  <1> HIDE DEF at
  <1>8. (\E i \in 1..5 : at(i)) <=> at(1) \/ at(2) \/ at(3) \/ at(4) \/ at(5)
    BY 1..5 = {1, 2, 3, 4, 5}
  <1> QED
    BY <1>1, <1>2, <1>3, <1>4, <1>5, <1>6, <1>7, <1>8 DEF Earlier

\* The merging order is a strict weak order of the reported findings.
LEMMA MergeOrderIsWeak ==
    ASSUME NEW s \in Seq(Reports), NEW n \in Nat, DOMAIN s = 1..n
    PROVE  MergeOrder!WeaklyOrdered(s, n)
  <1>1. \A i \in 1..n : /\ s[i].path \in Nat /\ s[i].start \in Nat /\ s[i].end \in Nat
                        /\ s[i].words \in Nat /\ s[i].category[1] \in Nat
    <2> TAKE i \in 1..n
    <2>1. s[i] \in Reports
      OBVIOUS
    <2> QED
      BY <2>1, ReportIs
  <1>2. ASSUME NEW i \in 1..n PROVE ~MergesBefore(s[i], s[i])
    <2>1. PICK a1 \in Nat, a2 \in Nat, a3 \in Nat, a4 \in Nat, a5 \in Nat :
            s[i].path = a1 /\ s[i].category[1] = a2 /\ s[i].start = a3 /\ s[i].end = a4 /\ s[i].words = a5
      BY <1>1
    <2>2. ~Earlier(a1, a2, a3, a4, a5, a1, a2, a3, a4, a5)
      BY DEF Earlier
    <2> QED
      BY <2>1, <2>2, MergesBeforeIs
  <1>3. ASSUME NEW i \in 1..n, NEW j \in 1..n, NEW k \in 1..n
        PROVE  /\ MergesBefore(s[i], s[j]) /\ MergesBefore(s[j], s[k]) => MergesBefore(s[i], s[k])
               /\ MergesBefore(s[i], s[k]) => MergesBefore(s[i], s[j]) \/ MergesBefore(s[j], s[k])
    <2>1. PICK a1 \in Nat, a2 \in Nat, a3 \in Nat, a4 \in Nat, a5 \in Nat :
            s[i].path = a1 /\ s[i].category[1] = a2 /\ s[i].start = a3 /\ s[i].end = a4 /\ s[i].words = a5
      BY <1>1
    <2>2. PICK b1 \in Nat, b2 \in Nat, b3 \in Nat, b4 \in Nat, b5 \in Nat :
            s[j].path = b1 /\ s[j].category[1] = b2 /\ s[j].start = b3 /\ s[j].end = b4 /\ s[j].words = b5
      BY <1>1
    <2>3. PICK c1 \in Nat, c2 \in Nat, c3 \in Nat, c4 \in Nat, c5 \in Nat :
            s[k].path = c1 /\ s[k].category[1] = c2 /\ s[k].start = c3 /\ s[k].end = c4 /\ s[k].words = c5
      BY <1>1
    <2> DEFINE ab == Earlier(a1, a2, a3, a4, a5, b1, b2, b3, b4, b5)
               bc == Earlier(b1, b2, b3, b4, b5, c1, c2, c3, c4, c5)
               ac == Earlier(a1, a2, a3, a4, a5, c1, c2, c3, c4, c5)
    <2>4. (ab /\ bc => ac) /\ (ac => ab \/ bc)
      BY DEF Earlier
    <2>5. /\ MergesBefore(s[i], s[j]) <=> ab
          /\ MergesBefore(s[j], s[k]) <=> bc
          /\ MergesBefore(s[i], s[k]) <=> ac
      <3>1. MergesBefore(s[i], s[j]) <=> ab
        BY <2>1, <2>2, MergesBeforeIs
      <3>2. MergesBefore(s[j], s[k]) <=> bc
        BY <2>2, <2>3, MergesBeforeIs
      <3>3. MergesBefore(s[i], s[k]) <=> ac
        BY <2>1, <2>3, MergesBeforeIs
      <3> QED
        BY <3>1, <3>2, <3>3
    <2> HIDE DEF ab, bc, ac
    <2> QED
      BY <2>4, <2>5
  <1> QED
    BY <1>2, <1>3 DEF MergeOrder!WeaklyOrdered

LEMMA MergingUnsorted ==
    ASSUME NEW s, NEW n \in Nat, MergeOrder!WeaklyOrdered(s, n)
    PROVE  \E p \in [1..n -> 1..n] :
              /\ \A i \in 1..n : \E m \in 1..n : p[m] = i
              /\ MergeOrder!InOrder(s) = [m \in 1..n |-> s[p[m]]]
              /\ \A l, m \in 1..n : p[l] = p[m] => l = m
              /\ \A l, m \in 1..n : l < m => ~MergesBefore(s[p[m]], s[p[l]])
  BY MergeOrder!SortRearranges

\* The findings are taken in order of file, category and first line.
LEMMA MergingOrder ==
    ASSUME NEW s \in Seq(Reports), NEW n \in Nat, DOMAIN s = 1..n
    PROVE  \E p \in [1..n -> 1..n] :
              /\ \A i \in 1..n : \E m \in 1..n : p[m] = i
              /\ Sorted(s, MergesBefore) = [m \in 1..n |-> s[p[m]]]
              /\ \A l, m \in 1..n : l < m => ~MergesBefore(s[p[m]], s[p[l]])
  <1>0. MergeOrder!WeaklyOrdered(s, n)
    BY MergeOrderIsWeak
  <1>1. PICK p \in [1..n -> 1..n] :
              /\ \A i \in 1..n : \E m \in 1..n : p[m] = i
              /\ MergeOrder!InOrder(s) = [m \in 1..n |-> s[p[m]]]
              /\ \A l, m \in 1..n : p[l] = p[m] => l = m
              /\ \A l, m \in 1..n : l < m => ~MergesBefore(s[p[m]], s[p[l]])
    BY <1>0, MergingUnsorted
  <1>2. MergeOrder!InOrder(s) = Sorted(s, MergesBefore)
    BY DEF MergeOrder!InOrder, MergeOrder!Sorted, MergeOrder!PlaceOf, Sorted, PlaceOf,
           MergeOrder!Cardinality, Cardinality
  <1> DEFINE r == Sorted(s, MergesBefore)
  <1>3. r = [m \in 1..n |-> s[p[m]]]
    BY <1>1, <1>2
  <1> HIDE DEF r
  <1>4. \E q \in [1..n -> 1..n] :
              /\ \A i \in 1..n : \E m \in 1..n : q[m] = i
              /\ r = [m \in 1..n |-> s[q[m]]]
              /\ \A l, m \in 1..n : l < m => ~MergesBefore(s[q[m]], s[q[l]])
    BY <1>1, <1>3
  <1> QED
    BY <1>4 DEF r

\* A cluster is some findings.
Clusters == {c \in Seq(Reports) : c # <<>>}

LEMMA ClusterIs ==
    ASSUME NEW c \in Clusters
    PROVE  /\ Len(c) \in Nat \ {0} /\ DOMAIN c = 1..Len(c) /\ 1 \in DOMAIN c
           /\ \A i \in DOMAIN c : /\ c[i] \in Reports /\ c[i].start \in Nat /\ c[i].end \in Nat
                                  /\ c[i].start <= c[i].end
  <1>1. c \in Seq(Reports) /\ c # <<>>
    BY DEF Clusters
  <1>2. Len(c) \in Nat \ {0} /\ DOMAIN c = 1..Len(c) /\ 1 \in DOMAIN c
    BY <1>1
  <1>3. \A i \in DOMAIN c : c[i] \in Reports
    BY <1>1
  <1> QED
    BY <1>2, <1>3, ReportIs

LEMMA HullStartIs ==
    ASSUME NEW c \in Clusters
    PROVE  /\ \E i \in DOMAIN c : HullStart(c) = c[i].start
           /\ \A i \in DOMAIN c : HullStart(c) <= c[i].start
  <1>1. 1 \in DOMAIN c /\ \A i \in DOMAIN c : c[i].start \in Nat
    BY ClusterIs
  <1>2. Starts(c) \subseteq Nat /\ c[1].start \in Starts(c)
    BY <1>1 DEF Starts
  <1>3. \E x \in Starts(c) : \A y \in Starts(c) : x <= y
    BY <1>2, Splitting!Least
  <1>4. HullStart(c) \in Starts(c) /\ \A y \in Starts(c) : HullStart(c) <= y
    BY <1>3 DEF HullStart
  <1> QED
    BY <1>4 DEF Starts

LEMMA HullEndIs ==
    ASSUME NEW c \in Clusters
    PROVE  /\ \E i \in DOMAIN c : HullEnd(c) = c[i].end
           /\ \A i \in DOMAIN c : HullEnd(c) >= c[i].end
  <1>1. PICK n \in Nat : n = Len(c) /\ DOMAIN c = 1..n /\ 1 \in 1..n
    BY ClusterIs
  <1> DEFINE w == [i \in 1..n |-> c[i].end]
  <1>2. w \in [1..n -> Nat] /\ \A i \in 1..n : w[i] = c[i].end
    BY <1>1, ClusterIs
  <1> HIDE DEF w
  <1>3. 1..n \in SUBSET (1..n) /\ 1..n # {}
    BY <1>1
  <1>4. PICK x \in 1..n : \A y \in 1..n : w[y] <= w[x]
    BY <1>2, <1>3, Splitting!Heaviest
  <1>5. c[x].end \in Ends(c) /\ \A y \in Ends(c) : c[x].end >= y
    <2>1. \A i \in 1..n : c[i].end \in Nat /\ c[i].end <= c[x].end
      BY <1>2, <1>4
    <2> QED
      BY <1>1, <2>1 DEF Ends
  <1>6. HullEnd(c) \in Ends(c) /\ \A y \in Ends(c) : HullEnd(c) >= y
    BY <1>5 DEF HullEnd
  <1> QED
    BY <1>6 DEF Ends

LEMMA HullIs ==
    ASSUME NEW c \in Clusters
    PROVE  HullStart(c) \in Nat /\ HullEnd(c) \in Nat /\ HullStart(c) <= HullEnd(c)
  <1>1. PICK i \in DOMAIN c : HullStart(c) = c[i].start
    BY HullStartIs
  <1>2. PICK j \in DOMAIN c : HullEnd(c) = c[j].end
    BY HullEndIs
  <1>3. HullEnd(c) >= c[i].end
    BY HullEndIs
  <1>4. c[i].start \in Nat /\ c[i].end \in Nat /\ c[i].start <= c[i].end /\ c[j].end \in Nat
    BY ClusterIs
  <1> QED
    BY <1>1, <1>2, <1>3, <1>4

LEMMA HullOfOne ==
    ASSUME NEW r \in Reports
    PROVE  <<r>> \in Clusters /\ HullStart(<<r>>) = r.start /\ HullEnd(<<r>>) = r.end
  <1> DEFINE c == <<r>>
  <1>1. c \in Clusters /\ DOMAIN c = {1} /\ c[1] = r
    BY DEF Clusters
  <1> HIDE DEF c
  <1>2. HullStart(c) = r.start /\ HullEnd(c) = r.end
    BY <1>1, HullStartIs, HullEndIs
  <1> QED
    BY <1>1, <1>2 DEF c

\* A finding that starts inside a cluster's lines, or right where they do, extends
\* them at the end only.
LEMMA HullGrows ==
    ASSUME NEW c \in Clusters, NEW r \in Reports, HullStart(c) <= r.start
    PROVE  /\ Append(c, r) \in Clusters
           /\ HullStart(Append(c, r)) = HullStart(c)
           /\ HullEnd(Append(c, r)) = IF r.end > HullEnd(c) THEN r.end ELSE HullEnd(c)
  <1> DEFINE d == Append(c, r)
             last == Len(c) + 1
  <1>1. /\ d \in Seq(Reports) /\ DOMAIN d = DOMAIN c \cup {last}
        /\ \A i \in DOMAIN c : d[i] = c[i]
        /\ d[last] = r
    BY Appended DEF Clusters
  <1>2. d \in Clusters
    <2>1. Len(d) = Len(c) + 1 /\ Len(c) \in Nat
      BY Appended DEF Clusters
    <2> QED
      BY <1>1, <2>1 DEF Clusters
  <1> HIDE DEF d, last
  <1>3. /\ HullStart(c) \in Nat /\ HullEnd(c) \in Nat /\ HullStart(d) \in Nat /\ HullEnd(d) \in Nat
        /\ r.start \in Nat /\ r.end \in Nat
    BY <1>2, HullIs, ReportIs
  <1>4. HullStart(d) = HullStart(c)
    <2>1. PICK i \in DOMAIN c : HullStart(c) = c[i].start
      BY HullStartIs
    <2>2. HullStart(d) <= c[i].start
      BY <1>1, <1>2, HullStartIs
    <2>3. PICK j \in DOMAIN d : HullStart(d) = d[j].start
      BY <1>2, HullStartIs
    <2>4. HullStart(c) <= d[j].start
      BY <1>1, HullStartIs
    <2> QED
      BY <1>3, <2>1, <2>2, <2>3, <2>4
  <1>5. HullEnd(d) >= HullEnd(c) /\ HullEnd(d) >= r.end
    <2>1. PICK i \in DOMAIN c : HullEnd(c) = c[i].end
      BY HullEndIs
    <2>2. \A j \in DOMAIN d : HullEnd(d) >= d[j].end
      BY <1>2, HullEndIs
    <2> QED
      BY <1>1, <2>1, <2>2
  <1>6. HullEnd(d) <= HullEnd(c) \/ HullEnd(d) = r.end
    <2>1. PICK j \in DOMAIN d : HullEnd(d) = d[j].end
      BY <1>2, HullEndIs
    <2>2. CASE j = last
      BY <1>1, <2>1, <2>2
    <2>3. CASE j \in DOMAIN c
      <3>1. HullEnd(c) >= c[j].end /\ HullEnd(d) = c[j].end
        BY <1>1, <2>1, <2>3, HullEndIs
      <3> QED
        BY <1>3, <3>1
    <2> QED
      BY <1>1, <2>2, <2>3
  <1>7. HullEnd(d) = IF r.end > HullEnd(c) THEN r.end ELSE HullEnd(c)
    BY <1>3, <1>5, <1>6
  <1> QED
    BY <1>2, <1>4, <1>7 DEF d

\* One finding of a cluster is as severe as any.
LEMMA RepresentativeIs ==
    ASSUME NEW c \in Clusters
    PROVE  /\ \E i \in DOMAIN c : PickRepresentative(c) = c[i]
           /\ \A i \in DOMAIN c : c[i].severity <= PickRepresentative(c).severity
  <1>1. PICK n \in Nat : n = Len(c) /\ DOMAIN c = 1..n /\ 1 \in 1..n
    BY ClusterIs
  <1>2. \A i \in 1..n : c[i] \in Reports /\ c[i].severity \in Nat /\ c[i].words \in Nat
    <2>1. \A i \in 1..n : c[i] \in Reports
      BY <1>1, ClusterIs
    <2> QED
      BY <2>1, ReportIs
  <1> DEFINE sev == [i \in 1..n |-> c[i].severity]
             len == [i \in 1..n |-> c[i].words]
  <1>3. sev \in [1..n -> Nat] /\ len \in [1..n -> Nat]
        /\ \A i \in 1..n : sev[i] = c[i].severity /\ len[i] = c[i].words
    BY <1>2
  <1> HIDE DEF sev, len
  <1>4. PICK x \in 1..n : \A y \in 1..n : sev[y] <= sev[x]
    <2>1. 1..n \in SUBSET (1..n) /\ 1..n # {}
      BY <1>1
    <2> QED
      BY <1>3, <2>1, Splitting!Heaviest
  <1> DEFINE T == {i \in 1..n : sev[i] = sev[x]}
  <1>5. T \in SUBSET (1..n) /\ T # {} /\ \A i \in T : sev[i] = sev[x]
    OBVIOUS
  <1>6. \A i \in 1..n : sev[i] = sev[x] => i \in T
    OBVIOUS
  <1> HIDE DEF T
  <1>7. PICK z \in T : \A y \in T : len[y] <= len[z]
    BY <1>3, <1>5, Splitting!Heaviest
  <1>8. ASSUME NEW y \in 1..n PROVE Outranks(c[z], c[y])
    <2>1. z \in 1..n /\ sev[z] = sev[x] /\ sev[y] <= sev[x] /\ sev[z] \in Nat /\ sev[y] \in Nat
      BY <1>3, <1>4, <1>5
    <2>2. sev[y] = sev[x] => len[y] <= len[z]
      BY <1>6, <1>7
    <2>3. len[y] \in Nat /\ len[z] \in Nat
      BY <1>3, <2>1
    <2> QED
      BY <1>3, <2>1, <2>2, <2>3 DEF Outranks
  <1>9. \E item \in ToSet(c) : \A other \in ToSet(c) : Outranks(item, other)
    BY <1>1, <1>5, <1>8 DEF ToSet
  <1>10. /\ PickRepresentative(c) \in ToSet(c)
         /\ \A other \in ToSet(c) : Outranks(PickRepresentative(c), other)
    BY <1>9 DEF PickRepresentative
  <1>11. PICK i \in DOMAIN c : PickRepresentative(c) = c[i]
    BY <1>10 DEF ToSet
  <1>12. ASSUME NEW j \in DOMAIN c PROVE c[j].severity <= PickRepresentative(c).severity
    <2>1. Outranks(PickRepresentative(c), c[j])
      BY <1>10 DEF ToSet
    <2>2. c[i].severity \in Nat /\ c[j].severity \in Nat
      BY <1>1, <1>2
    <2> QED
      BY <1>11, <2>1, <2>2 DEF Outranks
  <1> QED
    BY <1>11, <1>12

Hull(c) == HullStart(c) .. HullEnd(c)

\* A cluster of the first k findings of o: of one file and category, and every line
\* from its first to its last is a line of one of its findings.
ClusterOk(o, c, k) ==
    /\ c \in Clusters
    /\ \A i \in DOMAIN c : SameKey(c[i], c[1]) /\ \E l \in 1..k : c[i] = o[l]
    /\ \A n \in Hull(c) : \E i \in DOMAIN c : n \in LinesOf(c[i])

Apart(c, d) == HullEnd(c) < HullStart(d) \/ HullEnd(d) < HullStart(c)

\* After the first k findings of o.
MergeUpTo(o, clusters, k) ==
    /\ clusters \in Seq(Clusters)
    /\ \A j \in DOMAIN clusters : ClusterOk(o, clusters[j], k)
    /\ \A l \in 1..k : \E j \in DOMAIN clusters : \E i \in DOMAIN clusters[j] : clusters[j][i] = o[l]
    /\ \A j, m \in DOMAIN clusters :
         j # m /\ SameKey(clusters[j][1], clusters[m][1]) => Apart(clusters[j], clusters[m])

\* Findings in the merging order.
InMergeOrder(o) ==
    /\ o \in Seq(Reports)
    /\ \A l, m \in DOMAIN o : l < m => ~MergesBefore(o[m], o[l])

\* Of two findings of a file and category, the later one starts no earlier.
LEMMA LaterStartsLater ==
    ASSUME NEW o, InMergeOrder(o), NEW l \in DOMAIN o, NEW m \in DOMAIN o, l < m,
           SameKey(o[l], o[m])
    PROVE  o[l].start <= o[m].start
  <1>1. o[l] \in Reports /\ o[m] \in Reports
    BY DEF InMergeOrder
  <1>2. o[l].start \in Nat /\ o[m].start \in Nat
    BY <1>1, ReportIs
  <1>3. ~MergesBefore(o[m], o[l])
    BY DEF InMergeOrder
  <1>4. o[l].path = o[m].path /\ o[l].category[1] = o[m].category[1]
    BY DEF SameKey, NormaliseCategory
  <1>5. ~(o[m].start < o[l].start)
    BY <1>3, <1>4, MergesBeforeIs DEF Earlier
  <1> QED
    BY <1>2, <1>5

LEMMA KeyIsEquality ==
    ASSUME NEW a, NEW b, NEW c
    PROVE  /\ SameKey(a, b) /\ SameKey(b, c) => SameKey(a, c)
           /\ SameKey(a, b) => SameKey(b, a)
           /\ SameKey(a, a)
  BY DEF SameKey

\* No cluster of the earlier findings starts after the next one does.
LEMMA ClusterStartsBefore ==
    ASSUME NEW o, InMergeOrder(o), NEW k \in DOMAIN o, NEW c, ClusterOk(o, c, k - 1),
           SameKey(o[k], c[1])
    PROVE  HullStart(c) <= o[k].start
  <1>1. c \in Clusters
    BY DEF ClusterOk
  <1>2. PICK i \in DOMAIN c : HullStart(c) = c[i].start
    BY <1>1, HullStartIs
  <1>3. PICK l \in 1..(k - 1) : c[i] = o[l]
    BY DEF ClusterOk
  <1>4. SameKey(o[l], o[k])
    BY <1>3, KeyIsEquality DEF ClusterOk
  <1>5. l \in DOMAIN o /\ l < k
    <2>1. DOMAIN o = 1..Len(o) /\ Len(o) \in Nat
      BY DEF InMergeOrder
    <2> QED
      BY <2>1
  <1> QED
    BY <1>2, <1>3, <1>4, <1>5, LaterStartsLater

LEMMA ClusterKept ==
    ASSUME NEW o, NEW c, NEW k \in Nat \ {0}, ClusterOk(o, c, k - 1)
    PROVE  ClusterOk(o, c, k)
  <1>1. \A l \in 1..(k - 1) : l \in 1..k
    OBVIOUS
  <1> QED
    BY <1>1 DEF ClusterOk

LEMMA NewCluster ==
    ASSUME NEW o, InMergeOrder(o), NEW k \in DOMAIN o
    PROVE  ClusterOk(o, <<o[k]>>, k)
  <1> DEFINE c == <<o[k]>>
  <1>1. o[k] \in Reports /\ k \in 1..k
    BY DEF InMergeOrder
  <1>2. c \in Clusters /\ HullStart(c) = o[k].start /\ HullEnd(c) = o[k].end
    BY <1>1, HullOfOne
  <1>3. DOMAIN c = {1} /\ c[1] = o[k]
    OBVIOUS
  <1> HIDE DEF c
  <1>4. \A n \in Hull(c) : n \in LinesOf(c[1])
    BY <1>2, <1>3 DEF Hull, LinesOf
  <1>5. ClusterOk(o, c, k)
    BY <1>1, <1>2, <1>3, <1>4, KeyIsEquality DEF ClusterOk
  <1> QED
    BY <1>5 DEF c

LEMMA GrownCluster ==
    ASSUME NEW o, InMergeOrder(o), NEW k \in DOMAIN o, NEW c, ClusterOk(o, c, k - 1),
           SameKey(o[k], c[1]), ClusterOverlaps(o[k], c)
    PROVE  /\ ClusterOk(o, Append(c, o[k]), k)
           /\ Append(c, o[k])[1] = c[1]
           /\ HullStart(Append(c, o[k])) = HullStart(c)
           /\ \/ HullEnd(Append(c, o[k])) = HullEnd(c)
              \/ HullEnd(Append(c, o[k])) = o[k].end /\ o[k].end > HullEnd(c)
  <1> DEFINE r == o[k]
             d == Append(c, r)
             last == Len(c) + 1
  <1>1. r \in Reports /\ k \in 1..k /\ k \in Nat
    BY DEF InMergeOrder
  <1>2. r.start \in Nat /\ r.end \in Nat /\ r.start <= r.end
    BY <1>1, ReportIs
  <1>3. c \in Clusters /\ c \in Seq(Reports) /\ 1 \in DOMAIN c
    BY ClusterIs DEF ClusterOk, Clusters
  <1>4. HullStart(c) <= r.start
    BY ClusterStartsBefore
  <1> HIDE DEF r
  <1>5. /\ d \in Clusters /\ HullStart(d) = HullStart(c)
        /\ HullEnd(d) = IF r.end > HullEnd(c) THEN r.end ELSE HullEnd(c)
    BY <1>1, <1>3, <1>4, HullGrows
  <1>6. /\ DOMAIN d = DOMAIN c \cup {last} /\ d[last] = r
        /\ \A i \in DOMAIN c : d[i] = c[i]
    BY <1>1, <1>3, Appended
  <1> HIDE DEF d, last
  <1>7. HullStart(c) \in Nat /\ HullEnd(c) \in Nat /\ r.start <= HullEnd(c)
    BY <1>3, HullIs DEF ClusterOverlaps, r
  <1>8. \A n \in Hull(d) : n \in Hull(c) \/ n \in LinesOf(r)
    BY <1>2, <1>5, <1>7 DEF Hull, LinesOf
  <1>9. \A n \in Hull(d) : \E i \in DOMAIN d : n \in LinesOf(d[i])
    <2> TAKE n \in Hull(d)
    <2>1. CASE n \in Hull(c)
      <3>1. PICK i \in DOMAIN c : n \in LinesOf(c[i])
        BY <2>1 DEF ClusterOk
      <3> QED
        BY <1>6, <3>1
    <2>2. CASE n \in LinesOf(r)
      BY <1>6, <2>2
    <2> QED
      BY <1>8, <2>1, <2>2
  <1>10. \A i \in DOMAIN d : SameKey(d[i], d[1]) /\ \E l \in 1..k : d[i] = o[l]
    <2>1. d[1] = c[1] /\ SameKey(r, c[1]) /\ r = o[k]
      BY <1>3, <1>6 DEF r
    <2>2. ASSUME NEW i \in DOMAIN c PROVE SameKey(c[i], c[1]) /\ \E l \in 1..k : c[i] = o[l]
      <3>1. PICK l \in 1..(k - 1) : c[i] = o[l]
        BY DEF ClusterOk
      <3>2. l \in 1..k
        BY <1>1
      <3> QED
        BY <3>1, <3>2 DEF ClusterOk
    <2> QED
      BY <1>1, <1>6, <2>1, <2>2
  <1>11. ClusterOk(o, d, k)
    BY <1>5, <1>9, <1>10 DEF ClusterOk
  <1> QED
    BY <1>3, <1>5, <1>6, <1>11 DEF d, r

LEMMA ApartIsSymmetric ==
    ASSUME NEW c, NEW d
    PROVE  Apart(c, d) <=> Apart(d, c)
  BY DEF Apart

\* A cluster the next finding does not overlap ends before it.
LEMMA EndsBefore ==
    ASSUME NEW o, InMergeOrder(o), NEW k \in DOMAIN o, NEW c, ClusterOk(o, c, k - 1),
           SameKey(o[k], c[1]), ~ClusterOverlaps(o[k], c)
    PROVE  HullEnd(c) < o[k].start
  <1>1. o[k] \in Reports
    BY DEF InMergeOrder
  <1>2. o[k].start \in Nat /\ o[k].end \in Nat /\ o[k].start <= o[k].end
    BY <1>1, ReportIs
  <1>3. c \in Clusters
    BY DEF ClusterOk
  <1>4. HullStart(c) \in Nat /\ HullEnd(c) \in Nat /\ HullStart(c) <= o[k].start
    BY <1>3, HullIs, ClusterStartsBefore
  <1> QED
    BY <1>2, <1>4 DEF ClusterOverlaps

LEMMA OpenCluster ==
    ASSUME NEW o, InMergeOrder(o), NEW k \in DOMAIN o, NEW cl, MergeUpTo(o, cl, k - 1),
           \A j \in DOMAIN cl : SameKey(o[k], cl[j][1]) => ~ClusterOverlaps(o[k], cl[j])
    PROVE  MergeUpTo(o, Append(cl, <<o[k]>>), k)
  <1> DEFINE c == <<o[k]>>
             all == Append(cl, c)
             last == Len(cl) + 1
  <1>1. o[k] \in Reports /\ k \in Nat \ {0} /\ k \in 1..k
    BY DEF InMergeOrder
  <1>2. c \in Clusters /\ HullStart(c) = o[k].start /\ HullEnd(c) = o[k].end /\ ClusterOk(o, c, k)
    BY <1>1, HullOfOne, NewCluster
  <1>3. DOMAIN c = {1} /\ c[1] = o[k]
    OBVIOUS
  <1> HIDE DEF c
  <1>4. cl \in Seq(Clusters)
    BY DEF MergeUpTo
  <1>5. /\ all \in Seq(Clusters) /\ DOMAIN all = DOMAIN cl \cup {last} /\ all[last] = c
        /\ \A j \in DOMAIN cl : all[j] = cl[j]
    BY <1>2, <1>4, Appended
  <1> HIDE DEF all, last
  <1>6. \A j \in DOMAIN cl : ClusterOk(o, cl[j], k - 1) /\ ClusterOk(o, cl[j], k)
    <2> TAKE j \in DOMAIN cl
    <2>1. ClusterOk(o, cl[j], k - 1)
      BY DEF MergeUpTo
    <2> QED
      BY <1>1, <2>1, ClusterKept
  <1>7. \A j \in DOMAIN all : ClusterOk(o, all[j], k)
    BY <1>2, <1>5, <1>6
  <1>8. \A l \in 1..k : \E j \in DOMAIN all : \E i \in DOMAIN all[j] : all[j][i] = o[l]
    <2> TAKE l \in 1..k
    <2>1. CASE l = k
      BY <1>3, <1>5, <2>1
    <2>2. CASE l # k
      <3>1. l \in 1..(k - 1)
        BY <1>1, <2>2
      <3>2. PICK j \in DOMAIN cl : \E i \in DOMAIN cl[j] : cl[j][i] = o[l]
        BY <3>1 DEF MergeUpTo
      <3>3. j \in DOMAIN all /\ all[j] = cl[j]
        BY <1>5
      <3> QED
        BY <3>2, <3>3
    <2> QED
      BY <2>1, <2>2
  <1>9. ASSUME NEW j \in DOMAIN cl, SameKey(cl[j][1], c[1]) PROVE Apart(cl[j], c)
    <2>1. SameKey(o[k], cl[j][1])
      BY <1>3, <1>9, KeyIsEquality
    <2>2. HullEnd(cl[j]) < o[k].start
      BY <1>6, <2>1, EndsBefore
    <2> QED
      BY <1>2, <2>2 DEF Apart
  <1>10. ASSUME NEW j \in DOMAIN all, NEW m \in DOMAIN all, j # m, SameKey(all[j][1], all[m][1])
         PROVE  Apart(all[j], all[m])
    <2>1. CASE j \in DOMAIN cl /\ m \in DOMAIN cl
      BY <1>5, <1>10, <2>1 DEF MergeUpTo
    <2>2. CASE j \in DOMAIN cl /\ m = last
      BY <1>5, <1>9, <1>10, <2>2
    <2>3. CASE j = last /\ m \in DOMAIN cl
      <3>1. SameKey(cl[m][1], c[1])
        BY <1>5, <1>10, <2>3, KeyIsEquality
      <3> QED
        BY <1>5, <1>9, <2>3, <3>1, ApartIsSymmetric
    <2> QED
      BY <1>5, <1>10, <2>1, <2>2, <2>3
  <1>11. MergeUpTo(o, all, k)
    BY <1>5, <1>7, <1>8, <1>10 DEF MergeUpTo
  <1> QED
    BY <1>11 DEF all, c

LEMMA JoinCluster ==
    ASSUME NEW o, InMergeOrder(o), NEW k \in DOMAIN o, NEW cl, MergeUpTo(o, cl, k - 1),
           NEW first \in DOMAIN cl, SameKey(o[k], cl[first][1]), ClusterOverlaps(o[k], cl[first])
    PROVE  MergeUpTo(o, [cl EXCEPT ![first] = Append(cl[first], o[k])], k)
  <1> DEFINE c == cl[first]
             d == Append(c, o[k])
             all == [cl EXCEPT ![first] = d]
  <1>1. k \in Nat \ {0} /\ k \in 1..k /\ o[k] \in Reports
    BY DEF InMergeOrder
  <1>2. cl \in Seq(Clusters) /\ \A j \in DOMAIN cl : ClusterOk(o, cl[j], k - 1)
    BY DEF MergeUpTo
  <1>3. c \in Clusters /\ c \in Seq(Reports) /\ ClusterOk(o, c, k - 1)
    BY <1>2 DEF ClusterOk, Clusters
  <1> HIDE DEF c
  <1>4. SameKey(o[k], c[1]) /\ ClusterOverlaps(o[k], c)
    BY DEF c
  <1>5. /\ ClusterOk(o, d, k) /\ d[1] = c[1] /\ HullStart(d) = HullStart(c)
        /\ HullEnd(d) = HullEnd(c) \/ (HullEnd(d) = o[k].end /\ o[k].end > HullEnd(c))
    BY <1>3, <1>4, GrownCluster
  <1>6. /\ \A i \in DOMAIN c : i \in DOMAIN d /\ d[i] = c[i]
        /\ \E i \in DOMAIN d : d[i] = o[k]
    BY <1>1, <1>3, Appended
  <1> HIDE DEF d
  <1>7. d \in Clusters
    BY <1>5 DEF ClusterOk
  <1>8. /\ all \in Seq(Clusters) /\ DOMAIN all = DOMAIN cl /\ all[first] = d
        /\ \A j \in DOMAIN cl : j # first => all[j] = cl[j]
    BY <1>2, <1>7
  <1> HIDE DEF all
  <1>9. \A j \in DOMAIN all : ClusterOk(o, all[j], k)
    BY <1>1, <1>2, <1>5, <1>8, ClusterKept
  <1>10. \A l \in 1..k : \E j \in DOMAIN all : \E i \in DOMAIN all[j] : all[j][i] = o[l]
    <2> TAKE l \in 1..k
    <2>1. CASE l = k
      BY <1>6, <1>8, <2>1
    <2>2. CASE l # k
      <3>1. l \in 1..(k - 1)
        BY <1>1, <2>2
      <3>2. PICK j \in DOMAIN cl : \E i \in DOMAIN cl[j] : cl[j][i] = o[l]
        BY <3>1 DEF MergeUpTo
      <3>3. CASE j = first
        BY <1>6, <1>8, <3>2, <3>3 DEF c
      <3>4. CASE j # first
        BY <1>8, <3>2, <3>4
      <3> QED
        BY <3>3, <3>4
    <2> QED
      BY <2>1, <2>2
  <1>11. ASSUME NEW j \in DOMAIN cl, j # first, SameKey(cl[j][1], c[1]) PROVE Apart(cl[j], d)
    <2>1. Apart(cl[j], c)
      BY <1>11 DEF MergeUpTo, c
    <2>2. SameKey(o[k], cl[j][1])
      BY <1>4, <1>11, KeyIsEquality
    <2>3. cl[j] \in Clusters /\ ClusterOk(o, cl[j], k - 1)
      BY <1>2 DEF ClusterOk
    <2>4. /\ HullStart(cl[j]) \in Nat /\ HullEnd(cl[j]) \in Nat
          /\ HullStart(c) \in Nat /\ HullEnd(c) \in Nat
          /\ o[k].start \in Nat /\ o[k].end \in Nat /\ o[k].start <= o[k].end
      BY <1>1, <1>3, <2>3, HullIs, ReportIs
    <2>5. HullStart(cl[j]) <= o[k].start /\ HullStart(c) <= o[k].start
      BY <1>3, <1>4, <2>2, <2>3, ClusterStartsBefore
    <2>6. o[k].start <= HullEnd(c)
      BY <1>4 DEF ClusterOverlaps
    <2>7. HullEnd(cl[j]) < HullStart(c)
      BY <2>1, <2>4, <2>5, <2>6 DEF Apart
    <2> QED
      BY <1>5, <2>7 DEF Apart
  <1>12. ASSUME NEW j \in DOMAIN all, NEW m \in DOMAIN all, j # m, SameKey(all[j][1], all[m][1])
         PROVE  Apart(all[j], all[m])
    <2>1. CASE j # first /\ m # first
      BY <1>8, <1>12, <2>1 DEF MergeUpTo
    <2>2. CASE j # first /\ m = first
      BY <1>5, <1>8, <1>11, <1>12, <2>2
    <2>3. CASE j = first /\ m # first
      <3>1. SameKey(cl[m][1], c[1])
        BY <1>5, <1>8, <1>12, <2>3, KeyIsEquality
      <3> QED
        BY <1>8, <1>11, <2>3, <3>1, ApartIsSymmetric
    <2> QED
      BY <1>12, <2>1, <2>2, <2>3
  <1>13. MergeUpTo(o, all, k)
    BY <1>8, <1>9, <1>10, <1>12 DEF MergeUpTo
  <1> QED
    BY <1>13 DEF all, d, c

LEMMA PlaceStep ==
    ASSUME NEW o, InMergeOrder(o), NEW k \in DOMAIN o, NEW cl, MergeUpTo(o, cl, k - 1)
    PROVE  MergeUpTo(o, PlaceFinding(cl, o[k]), k)
  <1> DEFINE fits == {i \in DOMAIN cl : SameKey(o[k], cl[i][1]) /\ ClusterOverlaps(o[k], cl[i])}
             first == CHOOSE i \in fits : \A j \in fits : i <= j
  <1>1. PlaceFinding(cl, o[k]) =
          IF fits = {} THEN Append(cl, <<o[k]>>) ELSE [cl EXCEPT ![first] = Append(cl[first], o[k])]
    BY DEF PlaceFinding
  <1>2. CASE fits = {}
    <2>1. \A j \in DOMAIN cl : SameKey(o[k], cl[j][1]) => ~ClusterOverlaps(o[k], cl[j])
      BY <1>2
    <2> HIDE DEF fits, first
    <2> QED
      BY <1>1, <1>2, <2>1, OpenCluster
  <1>3. CASE fits # {}
    <2>1. fits \subseteq Nat
      <3>1. cl \in Seq(Clusters)
        BY DEF MergeUpTo
      <3> QED
        BY <3>1
    <2>2. first \in fits
      <3> HIDE DEF fits
      <3>1. \E i \in fits : \A j \in fits : i <= j
        BY <1>3, <2>1, Splitting!Least
      <3> QED
        BY <3>1
    <2> HIDE DEF first
    <2>3. first \in DOMAIN cl /\ SameKey(o[k], cl[first][1]) /\ ClusterOverlaps(o[k], cl[first])
      BY <2>2
    <2>4. PlaceFinding(cl, o[k]) = [cl EXCEPT ![first] = Append(cl[first], o[k])]
      BY <1>1, <1>3
    <2> HIDE DEF fits
    <2>5. MergeUpTo(o, [cl EXCEPT ![first] = Append(cl[first], o[k])], k)
      BY <2>3, JoinCluster
    <2> QED
      BY <2>4, <2>5
  <1> QED
    BY <1>2, <1>3

LEMMA PlacingUnrolls ==
    ASSUME NEW base, NEW o, NEW n, Placing!Sized(o, n)
    PROVE  \E h : /\ h[0] = base
                  /\ \A k \in 1..n : h[k] = PlaceFinding(h[k - 1], o[k])
                  /\ Placing!Folded(base, o) = h[n]
  BY Placing!FoldUnrolls

LEMMA MergeFold ==
    ASSUME NEW o, NEW n, Placing!Sized(o, n), InMergeOrder(o), NEW base, MergeUpTo(o, base, 0)
    PROVE  MergeUpTo(o, FoldLeft(PlaceFinding, base, o), n)
  <1> DEFINE placed == FoldLeft(PlaceFinding, base, o)
  <1>0. n \in Nat /\ DOMAIN o = 1..n
    BY DEF Placing!Sized
  <1>1. PICK h : /\ h[0] = base
                 /\ \A k \in 1..n : h[k] = PlaceFinding(h[k - 1], o[k])
                 /\ Placing!Folded(base, o) = h[n]
    BY PlacingUnrolls
  <1>2. placed = h[n]
    <2>1. Placing!Folded(base, o) = FoldLeft(PlaceFinding, base, o)
      BY DEF Placing!Folded, Placing!FoldLeft, FoldLeft, MapThenFoldSet,
             Placing!MapThenFoldSet, Max, Placing!Max
    <2> QED
      BY <1>1, <2>1
  <1> HIDE DEF placed
  <1> DEFINE S == {k \in 0..n : MergeUpTo(o, h[k], k)}
  <1>3. 0 \in S
    BY <1>0, <1>1
  <1>4. ASSUME NEW k \in 1..n, k - 1 \in S PROVE k \in S
    <2>1. k \in DOMAIN o /\ MergeUpTo(o, h[k - 1], k - 1)
      BY <1>0, <1>4
    <2>2. MergeUpTo(o, PlaceFinding(h[k - 1], o[k]), k)
      BY <2>1, PlaceStep
    <2> QED
      BY <1>1, <2>2
  <1> HIDE DEF S
  <1>5. \A k \in 1..n : k - 1 \in S => k \in S
    BY <1>4
  <1>6. \A k \in 0..n : k \in S
    BY <1>0, <1>3, <1>5, Splitting!UpTo
  <1>7. n \in S
    BY <1>0, <1>6
  <1>8. MergeUpTo(o, placed, n)
    BY <1>2, <1>7 DEF S
  <1> QED
    BY <1>8 DEF placed

LEMMA MergedIs ==
    ASSUME NEW c \in Clusters, \A i \in DOMAIN c : SameKey(c[i], c[1])
    PROVE  /\ SameKey(MergeCluster(c), c[1])
           /\ LinesOf(MergeCluster(c)) = Hull(c)
           /\ \A i \in DOMAIN c : /\ c[i].severity <= MergeCluster(c).severity
                                  /\ c[i].evidence \subseteq MergeCluster(c).evidence
                                  /\ LinesOf(c[i]) \subseteq Hull(c)
  <1> DEFINE r == PickRepresentative(c)
             all == UNION {c[i].evidence : i \in DOMAIN c}
  <1>1. PICK i \in DOMAIN c : r = c[i]
    BY RepresentativeIs
  <1>2. \A j \in DOMAIN c : c[j].severity <= r.severity
    BY RepresentativeIs
  <1>3. r \in ReportTypes /\ SameKey(r, c[1])
    <2>1. c[i] \in Reports
      BY ClusterIs
    <2> QED
      BY <1>1, <2>1, ReportIs
  <1>4. MergeCluster(c) = [r EXCEPT !.start = HullStart(c), !.end = HullEnd(c), !.evidence = all]
    BY DEF MergeCluster
  <1>5. \A j \in DOMAIN c : c[j].evidence \subseteq all
    OBVIOUS
  <1> HIDE DEF r, all
  <1>6. /\ MergeCluster(c).start = HullStart(c) /\ MergeCluster(c).end = HullEnd(c)
        /\ MergeCluster(c).evidence = all /\ MergeCluster(c).severity = r.severity
        /\ MergeCluster(c).path = r.path /\ MergeCluster(c).category = r.category
    BY <1>3, <1>4 DEF ReportTypes
  <1>7. SameKey(MergeCluster(c), c[1])
    BY <1>3, <1>6 DEF SameKey
  <1>8. LinesOf(MergeCluster(c)) = Hull(c)
    BY <1>6 DEF LinesOf, Hull
  <1>9. ASSUME NEW j \in DOMAIN c PROVE LinesOf(c[j]) \subseteq Hull(c)
    <2>1. /\ HullStart(c) \in Nat /\ HullEnd(c) \in Nat /\ c[j].start \in Nat /\ c[j].end \in Nat
          /\ HullStart(c) <= c[j].start /\ HullEnd(c) >= c[j].end
      BY HullIs, HullStartIs, HullEndIs, ClusterIs
    <2> QED
      BY <2>1 DEF LinesOf, Hull
  <1> QED
    BY <1>2, <1>5, <1>6, <1>7, <1>8, <1>9

\* What merging promises of the findings that were reported.
KeepsEveryFinding(raw, merged) ==
    /\ \A i \in DOMAIN raw : \E j \in DOMAIN merged :
         /\ SameKey(raw[i], merged[j]) /\ LinesOf(raw[i]) \subseteq LinesOf(merged[j])
         /\ raw[i].severity <= merged[j].severity
         /\ raw[i].evidence \subseteq merged[j].evidence
    /\ \A j \in DOMAIN merged : \A n \in LinesOf(merged[j]) :
         \E i \in DOMAIN raw : /\ SameKey(raw[i], merged[j])
                               /\ LinesOf(raw[i]) \subseteq LinesOf(merged[j])
                               /\ n \in LinesOf(raw[i])
    /\ \A j, k \in DOMAIN merged :
         j # k /\ SameKey(merged[j], merged[k]) => LinesOf(merged[j]) \cap LinesOf(merged[k]) = {}

LEMMA ClustersKeep ==
    ASSUME NEW o, InMergeOrder(o), NEW n \in Nat, DOMAIN o = 1..n, NEW cl, MergeUpTo(o, cl, n)
    PROVE  KeepsEveryFinding(o, [j \in DOMAIN cl |-> MergeCluster(cl[j])])
  <1> DEFINE merged == [j \in DOMAIN cl |-> MergeCluster(cl[j])]
  <1>1. /\ \A j \in DOMAIN cl : ClusterOk(o, cl[j], n)
        /\ \A l \in 1..n : \E j \in DOMAIN cl : \E i \in DOMAIN cl[j] : cl[j][i] = o[l]
        /\ \A j, m \in DOMAIN cl : j # m /\ SameKey(cl[j][1], cl[m][1]) => Apart(cl[j], cl[m])
    BY DEF MergeUpTo
  <1>2. DOMAIN merged = DOMAIN cl
    OBVIOUS
  <1>3. ASSUME NEW j \in DOMAIN cl
        PROVE  /\ cl[j] \in Clusters /\ SameKey(merged[j], cl[j][1])
               /\ LinesOf(merged[j]) = Hull(cl[j])
               /\ \A i \in DOMAIN cl[j] : /\ SameKey(cl[j][i], merged[j])
                                          /\ cl[j][i].severity <= merged[j].severity
                                          /\ cl[j][i].evidence \subseteq merged[j].evidence
                                          /\ LinesOf(cl[j][i]) \subseteq LinesOf(merged[j])
    <2>1. cl[j] \in Clusters /\ \A i \in DOMAIN cl[j] : SameKey(cl[j][i], cl[j][1])
      BY <1>1 DEF ClusterOk
    <2>2. merged[j] = MergeCluster(cl[j])
      OBVIOUS
    <2> HIDE DEF merged
    <2>3. /\ SameKey(merged[j], cl[j][1]) /\ LinesOf(merged[j]) = Hull(cl[j])
          /\ \A i \in DOMAIN cl[j] : /\ cl[j][i].severity <= merged[j].severity
                                     /\ cl[j][i].evidence \subseteq merged[j].evidence
                                     /\ LinesOf(cl[j][i]) \subseteq Hull(cl[j])
      BY <2>1, <2>2, MergedIs
    <2> QED
      BY <2>1, <2>3, KeyIsEquality
  <1> HIDE DEF merged
  <1>4. ASSUME NEW l \in DOMAIN o
        PROVE  \E j \in DOMAIN merged :
                 /\ SameKey(o[l], merged[j]) /\ LinesOf(o[l]) \subseteq LinesOf(merged[j])
                 /\ o[l].severity <= merged[j].severity
                 /\ o[l].evidence \subseteq merged[j].evidence
    <2>1. PICK j \in DOMAIN cl : \E i \in DOMAIN cl[j] : cl[j][i] = o[l]
      BY <1>1
    <2>2. PICK i \in DOMAIN cl[j] : cl[j][i] = o[l]
      BY <2>1
    <2> QED
      BY <1>2, <1>3, <2>2
  <1>5. ASSUME NEW j \in DOMAIN merged, NEW line \in LinesOf(merged[j])
        PROVE  \E l \in DOMAIN o : /\ SameKey(o[l], merged[j])
                                   /\ LinesOf(o[l]) \subseteq LinesOf(merged[j])
                                   /\ line \in LinesOf(o[l])
    <2>1. j \in DOMAIN cl /\ line \in Hull(cl[j])
      BY <1>2, <1>3
    <2>2. PICK i \in DOMAIN cl[j] : line \in LinesOf(cl[j][i])
      BY <1>1, <2>1 DEF ClusterOk
    <2>3. PICK l \in 1..n : cl[j][i] = o[l]
      BY <1>1, <2>1 DEF ClusterOk
    <2> QED
      BY <1>3, <2>1, <2>2, <2>3
  <1>6. ASSUME NEW j \in DOMAIN merged, NEW m \in DOMAIN merged, j # m,
               SameKey(merged[j], merged[m])
        PROVE  LinesOf(merged[j]) \cap LinesOf(merged[m]) = {}
    <2>1. /\ cl[j] \in Clusters /\ cl[m] \in Clusters
          /\ LinesOf(merged[j]) = Hull(cl[j]) /\ LinesOf(merged[m]) = Hull(cl[m])
          /\ SameKey(cl[j][1], cl[m][1])
      BY <1>2, <1>3, <1>6, KeyIsEquality
    <2>2. Apart(cl[j], cl[m])
      BY <1>1, <1>2, <1>6, <2>1
    <2>3. /\ HullStart(cl[j]) \in Nat /\ HullEnd(cl[j]) \in Nat
          /\ HullStart(cl[m]) \in Nat /\ HullEnd(cl[m]) \in Nat
      BY <2>1, HullIs
    <2>4. Hull(cl[j]) \cap Hull(cl[m]) = {}
      BY <2>2, <2>3 DEF Apart, Hull
    <2> QED
      BY <2>1, <2>4
  <1>7. KeepsEveryFinding(o, merged)
    BY <1>4, <1>5, <1>6 DEF KeepsEveryFinding
  <1> QED
    BY <1>7 DEF merged

\* Merging keeps every finding, in whatever order they were reported
\* (aggregate_findings, aggregate_findings.py).
LEMMA AggregateKeeps ==
    ASSUME NEW raw \in Seq(Reports)
    PROVE  KeepsEveryFinding(raw, AggregateFindings(raw))
  <1>1. PICK n \in Nat : DOMAIN raw = 1..n
    OBVIOUS
  <1> DEFINE o == Sorted(raw, MergesBefore)
             cl == FoldLeft(PlaceFinding, <<>>, o)
             merged == [j \in DOMAIN cl |-> MergeCluster(cl[j])]
  <1>2. AggregateFindings(raw) = merged
    BY DEF AggregateFindings
  <1> HIDE DEF merged, cl
  <1>3. PICK p \in [1..n -> 1..n] :
              /\ \A i \in 1..n : \E m \in 1..n : p[m] = i
              /\ o = [m \in 1..n |-> raw[p[m]]]
              /\ \A l, m \in 1..n : l < m => ~MergesBefore(raw[p[m]], raw[p[l]])
    BY <1>1, MergingOrder
  <1> HIDE DEF o
  <1>4. \A m \in 1..n : p[m] \in 1..n /\ o[m] = raw[p[m]] /\ raw[p[m]] \in Reports
    <2>1. \A m \in 1..n : p[m] \in 1..n
      BY <1>3
    <2>2. \A m \in 1..n : o[m] = raw[p[m]]
      BY <1>3, Zenon
    <2>3. \A i \in 1..n : raw[i] \in Reports
      BY <1>1
    <2> QED
      BY <2>1, <2>2, <2>3
  <1>5. o \in Seq(Reports) /\ DOMAIN o = 1..n
    BY <1>3, <1>4
  <1>6. InMergeOrder(o)
    BY <1>3, <1>4, <1>5 DEF InMergeOrder
  <1>7. MergeUpTo(o, <<>>, 0)
    <2>1. <<>> \in Seq(Clusters) /\ DOMAIN <<>> = {} /\ \A l \in 1..0 : FALSE
      OBVIOUS
    <2> QED
      BY <2>1 DEF MergeUpTo
  <1>8. MergeUpTo(o, cl, n)
    <2>1. Placing!Sized(o, n)
      BY <1>5 DEF Placing!Sized
    <2> QED
      BY <1>6, <1>7, <2>1, MergeFold DEF cl
  <1>9. KeepsEveryFinding(o, merged)
    BY <1>5, <1>6, <1>8, ClustersKeep DEF merged
  <1>10. \A m \in 1..n : \E l \in 1..n : o[l] = raw[m]
    BY <1>3, <1>4
  <1>11. \A l \in 1..n : \E m \in 1..n : o[l] = raw[m]
    BY <1>4
  <1>12. ASSUME NEW i \in DOMAIN raw
         PROVE  \E j \in DOMAIN merged :
                  /\ SameKey(raw[i], merged[j]) /\ LinesOf(raw[i]) \subseteq LinesOf(merged[j])
                  /\ raw[i].severity <= merged[j].severity
                  /\ raw[i].evidence \subseteq merged[j].evidence
    <2>1. PICK l \in DOMAIN o : o[l] = raw[i]
      BY <1>1, <1>5, <1>10
    <2> QED
      BY <1>9, <2>1 DEF KeepsEveryFinding
  <1>13. ASSUME NEW j \in DOMAIN merged, NEW line \in LinesOf(merged[j])
         PROVE  \E i \in DOMAIN raw : /\ SameKey(raw[i], merged[j])
                                      /\ LinesOf(raw[i]) \subseteq LinesOf(merged[j])
                                      /\ line \in LinesOf(raw[i])
    <2>1. PICK l \in DOMAIN o : /\ SameKey(o[l], merged[j])
                                /\ LinesOf(o[l]) \subseteq LinesOf(merged[j])
                                /\ line \in LinesOf(o[l])
      BY <1>9 DEF KeepsEveryFinding
    <2>2. PICK m \in DOMAIN raw : o[l] = raw[m]
      BY <1>1, <1>5, <1>11
    <2> QED
      BY <2>1, <2>2
  <1>14. KeepsEveryFinding(raw, merged)
    BY <1>9, <1>12, <1>13 DEF KeepsEveryFinding
  <1> QED
    BY <1>2, <1>14

LEMMA CollectedIs ==
    ASSUME NEW concerns, NEW returned \in [concerns -> SeqOf(Reports, MaxReported)],
           RunSpecialists(returned)
    PROVE  \E raw \in Seq(Reports) : rvRaw' = raw /\ rvFindings' = AggregateFindings(raw)
  <1> DEFINE of(concern) == IF concern \in DOMAIN returned THEN returned[concern] ELSE <<>>
             raw == of("security") \o of("correctness") \o of("tests") \o of("docs")
  <1>1. \A s \in SeqOf(Reports, MaxReported) : s \in Seq(Reports)
    BY DiffReviewAssumption DEF SeqOf
  <1>2. ASSUME NEW concern PROVE of(concern) \in Seq(Reports)
    <2>1. CASE concern \in DOMAIN returned
      BY <1>1, <2>1
    <2>2. CASE concern \notin DOMAIN returned
      BY <2>2
    <2> QED
      BY <2>1, <2>2
  <1>3. rvRaw' = raw /\ rvFindings' = AggregateFindings(raw)
    BY DEF RunSpecialists
  <1>4. raw \in Seq(Reports)
    <2> HIDE DEF of
    <2>1. /\ of("security") \in Seq(Reports) /\ of("correctness") \in Seq(Reports)
          /\ of("tests") \in Seq(Reports) /\ of("docs") \in Seq(Reports)
      BY <1>2
    <2> QED
      BY <2>1
  <1> HIDE DEF raw
  <1> QED
    BY <1>3, <1>4

\* The merged findings are what merging makes of the collected ones.
MergedOk ==
    rvStage = "merged" => \E raw \in Seq(Reports) : rvRaw = raw /\ rvFindings = AggregateFindings(raw)

LEMMA MergedFrame ==
    ASSUME MergedOk, UNCHANGED rvVars
    PROVE  MergedOk'
  BY DEF MergedOk, rvVars

LEMMA MergedStep ==
    ASSUME MergedOk, [RvNext]_rvVars
    PROVE  MergedOk'
  <1>1. CASE UNCHANGED rvVars
    BY <1>1, MergedFrame
  <1>2. CASE FetchPullRequest
    BY <1>2 DEF FetchPullRequest, Fetching, MergedOk
  <1>3. CASE \E matches \in BOOLEAN : FetchJobSnapshot(matches)
    BY <1>3 DEF FetchJobSnapshot, FetchByRepositoryId, Fetching, Fail, MergedOk
  <1>4. CASE \E change \in Changes : FetchPage(change)
    BY <1>4 DEF FetchPage, MergedOk
  <1>5. CASE LastPage
    BY <1>5 DEF LastPage, MergedOk
  <1>6. CASE FetchFails
    BY <1>6 DEF FetchFails, Fail, MergedOk
  <1>7. CASE \E ends \in [DOMAIN rvFiles -> CloneEnds] : EnsureCompleteDiff(ends)
    BY <1>7 DEF EnsureCompleteDiff, Fail, MergedOk
  <1>8. CASE PackDiff
    BY <1>8 DEF PackDiff, MergedOk
  <1>9. CASE \E heartbeat \in {"none", "active", "cancelled", "invalid_or_expired"},
                raw \in SeqOf(Drafts, MaxReturned) : ReviewPullRequest(heartbeat, raw)
    BY <1>9 DEF ReviewPullRequest, Fail, MergedOk
  <1>10. CASE ModelFails
    BY <1>10 DEF ModelFails, Fail, MergedOk
  <1>11. CASE \E concerns \in Answering :
                \E returned \in [concerns -> SeqOf(Reports, MaxReported)] : RunSpecialists(returned)
    BY <1>11, CollectedIs DEF MergedOk
  <1> QED
    BY <1>1, <1>2, <1>3, <1>4, <1>5, <1>6, <1>7, <1>8, <1>9, <1>10, <1>11 DEF RvNext

LEMMA MergedKeeps ==
    ASSUME MergedOk
    PROVE  MergeKeepsEveryFinding
  <1> SUFFICES ASSUME rvStage = "merged" PROVE MergeKeepsEveryFinding
    BY DEF MergeKeepsEveryFinding
  <1>1. PICK raw \in Seq(Reports) : rvRaw = raw /\ rvFindings = AggregateFindings(raw)
    BY DEF MergedOk
  <1>2. KeepsEveryFinding(rvRaw, rvFindings)
    BY <1>1, AggregateKeeps
  <1> QED
    BY <1>2 DEF KeepsEveryFinding, MergeKeepsEveryFinding

\* Whatever the specialists report and in whatever order, merging loses nothing,
\* invents nothing and leaves no two findings of a file and category on one line
\* (aggregate_findings.py).
THEOREM MergingKeepsEveryFinding == RvSpec => []MergeKeepsEveryFinding
  <1>1. RvInit => MergedOk
    BY DEF RvInit, MergedOk
  <1>2. MergedOk /\ [RvNext]_rvVars => MergedOk'
    BY MergedStep
  <1>3. MergedOk => MergeKeepsEveryFinding
    BY MergedKeeps
  <1> QED
    BY <1>1, <1>2, <1>3, PTL DEF RvSpec

-----------------------------------------------------------------------------
(* Rows of findings.                                                       *)

\* A pushed row belongs to its review, is named after it and is not verified.
LEMMA PushedRow ==
    ASSUME NEW j, NEW row \in PushedRows(j)
    PROVE  row.job = j /\ row.id[1] = j /\ row.verified = FALSE /\ row.run = None
  <1>1. PICK i \in DOMAIN BuildSummaryPayload(j).findings :
          row = Row(FindingId(j, i), j, BuildSummaryPayload(j).findings[i], FALSE, None, FALSE)
    BY DEF PushedRows
  <1>2. FindingId(j, i)[1] = j
    BY DEF FindingId
  <1> QED
    BY <1>1, <1>2 DEF Row

\* The steps that change the table of findings.
LEMMA FindingSteps ==
    ASSUME [RecNext]_recVars
    PROVE  \/ UNCHANGED findings
           \/ \E j \in Pushed, answered \in BOOLEAN : SavePush(j, answered)
           \/ \E j \in Queued, built, verified \in BOOLEAN, method \in {"sandbox", "static"},
                 evidence \in {"sandbox", "asserted", "none"} :
                    ProjectReview(j, built, verified, method, evidence)
  <1>1. ASSUME NEW j \in Pushed, PanelStep(j) \/ CompleteReview(j) \/ AuthorizePush(j)
        PROVE  UNCHANGED findings
    BY <1>1
    DEF PanelStep, OpenPanel, StartAgentReasoning, DeliverNextReasoningChunk,
        ShowOutOfTokens, SelectReview, CompleteReview, AuthorizePush, rowVars
  <1>2. ASSUME PushFails \/ MountDashboard \/ BackToTable PROVE UNCHANGED findings
    BY <1>2 DEF PushFails, MountDashboard, BackToTable, rowVars
  <1>3. ASSUME NEW j \in Queued, RecordEvent(j) \/ RecordModelCall(j)
        PROVE  UNCHANGED findings
    BY <1>3 DEF RecordEvent, RecordModelCall
  <1>4. ASSUME BudgetStep PROVE UNCHANGED findings
    BY <1>4
    DEF BudgetStep, UpsertRepositoryBudget, ReserveSelect, ReserveWrite,
        ReleaseRepositoryReservation, rowVars
  <1>5. ASSUME RepositoryStep PROVE UNCHANGED findings
    BY <1>5
    DEF RepositoryStep, AssignRepository, UnassignRepository, UninstallRepository,
        PurgeHostedRepository, PurgeEnds, rowVars
  <1>6. ASSUME UNCHANGED recVars PROVE UNCHANGED findings
    BY <1>6 DEF recVars, rowVars
  <1> QED
    BY <1>1, <1>2, <1>3, <1>4, <1>5, <1>6 DEF RecNext, PushStep, ProjectionStep

\* A finding that cites a sandbox run is shown as verified, and one shown as verified
\* cites a run unless it is a job's finding projected without a receipt (receipt.py,
\* review_projection.py), although receipts are built from findings as they were before.
THEOREM VerifiedAlwaysRan == RecSpec => []VerifiedMeansRan
  <1>1. RecInit => VerifiedMeansRan
    BY DEF RecInit, VerifiedMeansRan
  <1>2. VerifiedMeansRan /\ [RecNext]_recVars => VerifiedMeansRan'
    <2> SUFFICES ASSUME VerifiedMeansRan, [RecNext]_recVars PROVE VerifiedMeansRan'
      OBVIOUS
    <2>1. ASSUME NEW j \in Pushed, NEW answered \in BOOLEAN, SavePush(j, answered)
          PROVE  VerifiedMeansRan'
      <3>1. \A row \in findings' : row \in findings \/ (row.verified = FALSE /\ row.run = None)
        BY <2>1, PushedRow DEF SavePush, InsertNew
      <3> QED
        BY <3>1 DEF VerifiedMeansRan
    <2>2. ASSUME NEW j \in Queued, NEW built \in BOOLEAN, NEW verified \in BOOLEAN,
                 NEW method \in {"sandbox", "static"},
                 NEW evidence \in {"sandbox", "asserted", "none"},
                 ProjectReview(j, built, verified, method, evidence)
          PROVE  VerifiedMeansRan'
      <3> DEFINE cited == IF evidence = "sandbox" THEN "run" ELSE None
      <3>1. PICK row : /\ row = Row(<<j, 1>>, j, "high", verified, cited, evidence # "none")
                       /\ findings' = findings \union {row}
        BY <2>2 DEF ProjectReview
      <3>2. /\ row.verified = verified /\ row.run = cited
            /\ row.job = j /\ row.receipt = (evidence # "none")
        BY <3>1 DEF Row
      <3>3. evidence # "none" => (verified <=> evidence = "sandbox")
        BY <2>2 DEF ProjectReview, FlagsAgree
      <3>4. evidence = "sandbox" => verified /\ cited # None
        BY <3>3, RecordsAssumption
      <3>5. verified => evidence \in {"sandbox", "none"}
        BY <3>3
      <3>6. cited # None => evidence = "sandbox"
        OBVIOUS
      <3>7. /\ row.run # None => row.verified
            /\ row.verified => row.run # None \/ (row.job \in Queued /\ ~row.receipt)
        BY <3>2, <3>4, <3>5, <3>6
      <3> QED
        BY <3>1, <3>7 DEF VerifiedMeansRan
    <2> QED
      BY <2>1, <2>2, FindingSteps DEF VerifiedMeansRan
  <1> QED
    BY <1>1, <1>2, PTL DEF RecSpec

-----------------------------------------------------------------------------
(* What the terminal lists is what the hosted page shows.                  *)

RowsOf(j) == {f \in findings : f.job = j}

Statuses == {"running", None} \union {o.status : o \in Outcomes}

RecordTypes ==
    /\ wire \in [Pushed -> Int]
    /\ authorized \in [Pushed -> Int]
    /\ outcome \in [Pushed -> Outcomes \union {None}]
    /\ jobs \in [Reviews -> Statuses]
    /\ listed \subseteq Pushed
    /\ dashboard \subseteq listed
    /\ \A row \in findings : row.id[1] = row.job

\* A push that is on its way has fixed its summary; the hosted plane has no row of a
\* review or exactly those of its summary, and all of it once the review is listed,
\* but for a purge.
Recorded(j) ==
    /\ wire[j] > 0 \/ authorized[j] > 0 => outcome[j] # None
    /\ RowsOf(j) # {} => outcome[j] # None /\ RowsOf(j) = PushedRows(j)
    /\ j \in listed =>
          /\ outcome[j] # None
          /\ RowsOf(j) = PushedRows(j)
          /\ RepoOf[j] \notin purged => jobs[j] = outcome[j].status

RecInv == RecordTypes /\ \A j \in Pushed : Recorded(j)

LEMMA RecInitInv == RecInit => RecInv
  <1> SUFFICES ASSUME RecInit PROVE RecInv
    OBVIOUS
  <1>1. RecordTypes
    BY DEF RecInit, RecordTypes, Statuses, Reviews
  <1>2. ASSUME NEW j \in Pushed PROVE Recorded(j)
    BY DEF RecInit, Recorded, RowsOf
  <1> QED
    BY <1>1, <1>2 DEF RecInv

\* The steps that change what the invariant is about.
LEMMA RecordSteps ==
    ASSUME [RecNext]_recVars
    PROVE  \/ /\ UNCHANGED <<wire, authorized, outcome, jobs, findings, listed, purged>>
              /\ dashboard' \in {dashboard, listed}
           \/ \E j \in Pushed : CompleteReview(j) \/ AuthorizePush(j)
           \/ \E j \in Pushed, answered \in BOOLEAN : SavePush(j, answered)
           \/ \E j \in Queued, built, verified \in BOOLEAN, method \in {"sandbox", "static"},
                 evidence \in {"sandbox", "asserted", "none"} :
                    ProjectReview(j, built, verified, method, evidence)
           \/ PurgeEnds
  <1> DEFINE Same ==
        /\ UNCHANGED <<wire, authorized, outcome, jobs, findings, listed, purged>>
        /\ dashboard' \in {dashboard, listed}
  <1>1. ASSUME NEW j \in Pushed, PanelStep(j) PROVE Same
    BY <1>1
    DEF PanelStep, OpenPanel, StartAgentReasoning, DeliverNextReasoningChunk,
        ShowOutOfTokens, SelectReview, pushVars, rowVars, purgeVars, screenVars
  <1>2. ASSUME PushFails \/ MountDashboard \/ BackToTable PROVE Same
    BY <1>2 DEF PushFails, MountDashboard, BackToTable, pushVars, rowVars, purgeVars, screenVars
  <1>3. ASSUME NEW j \in Queued, RecordEvent(j) \/ RecordModelCall(j) PROVE Same
    BY <1>3 DEF RecordEvent, RecordModelCall, terminalVars, screenVars, pushVars, purgeVars
  <1>4. ASSUME BudgetStep PROVE Same
    <2>1. UNCHANGED <<terminalVars, pushVars, rowVars, purgeVars>>
      BY <1>4
      DEF BudgetStep, UpsertRepositoryBudget, ReserveSelect, ReserveWrite,
          ReleaseRepositoryReservation
    <2> QED
      BY <2>1 DEF terminalVars, screenVars, pushVars, rowVars, purgeVars
  <1>5. ASSUME NEW r \in Repositories,
               AssignRepository(r) \/ UnassignRepository(r) \/ UninstallRepository(r)
        PROVE  Same
    BY <1>5
    DEF AssignRepository, UnassignRepository, UninstallRepository, PurgeHostedRepository,
        terminalVars, screenVars, pushVars, rowVars, purgeVars
  <1>6. ASSUME UNCHANGED recVars PROVE Same
    BY <1>6 DEF recVars, terminalVars, screenVars, pushVars, rowVars, purgeVars
  <1> QED
    BY <1>1, <1>2, <1>3, <1>4, <1>5, <1>6
    DEF RecNext, PushStep, ProjectionStep, RepositoryStep

\* The summary of a review, once fixed, names the same rows for good.
LEMMA SameRows ==
    ASSUME NEW j, outcome'[j] = outcome[j]
    PROVE  PushedRows(j)' = PushedRows(j)
  BY DEF PushedRows, BuildSummaryPayload

\* A review none of whose records changes.
LEMMA RecordKept ==
    ASSUME NEW j \in Pushed, Recorded(j),
           wire'[j] > 0 \/ authorized'[j] > 0 => wire[j] > 0 \/ authorized[j] > 0,
           outcome'[j] = outcome[j], RowsOf(j)' = RowsOf(j),
           j \in listed' => j \in listed,
           RepoOf[j] \notin purged' => RepoOf[j] \notin purged /\ jobs'[j] = jobs[j]
    PROVE  Recorded(j)'
  BY SameRows DEF Recorded

LEMMA CompleteRecorded ==
    ASSUME RecInv, NEW i \in Pushed, CompleteReview(i)
    PROVE  RecInv'
  <1>1. /\ UNCHANGED <<authorized, jobs, findings, listed, purged, dashboard>>
        /\ wire' = [wire EXCEPT ![i] = @ + 1]
    BY DEF CompleteReview, screenVars, rowVars, purgeVars
  <1>2. PICK o \in Outcomes \union {None} :
          /\ outcome' = [outcome EXCEPT ![i] = o]
          /\ o # None /\ (outcome[i] # None => o = outcome[i])
    <2>1. outcome[i] \in Outcomes \union {None}
      BY DEF RecInv, RecordTypes
    <2>2. CASE outcome[i] = None
      BY <2>2, RecordsAssumption DEF CompleteReview
    <2>3. CASE outcome[i] # None
      BY <2>1, <2>3 DEF CompleteReview
    <2> QED
      BY <2>2, <2>3
  <1>3. RecordTypes'
    BY <1>1, <1>2 DEF RecInv, RecordTypes
  <1>4. ASSUME NEW j \in Pushed PROVE Recorded(j)'
    <2>1. RowsOf(j)' = RowsOf(j)
      BY <1>1 DEF RowsOf
    <2>2. CASE j # i
      <3>1. outcome'[j] = outcome[j] /\ wire'[j] = wire[j]
        BY <1>1, <1>2, <2>2 DEF RecInv, RecordTypes
      <3> QED
        BY <1>1, <2>1, <3>1, RecordKept DEF RecInv
    <2>3. CASE j = i
      <3>1. outcome'[j] = o
        BY <1>2, <2>3 DEF RecInv, RecordTypes
      <3>2. CASE outcome[j] = None
        BY <1>1, <1>2, <2>1, <3>1, <3>2 DEF RecInv, Recorded
      <3>3. CASE outcome[j] # None
        <4>1. outcome'[j] = outcome[j]
          BY <1>2, <2>3, <3>1, <3>3
        <4> QED
          BY <1>1, <2>1, <3>3, <4>1, SameRows DEF RecInv, Recorded
      <3> QED
        BY <3>2, <3>3
    <2> QED
      BY <2>2, <2>3
  <1> QED
    BY <1>3, <1>4 DEF RecInv

LEMMA AuthorizeRecorded ==
    ASSUME RecInv, NEW i \in Pushed, AuthorizePush(i)
    PROVE  RecInv'
  <1>1. /\ UNCHANGED <<outcome, jobs, findings, listed, purged, dashboard>>
        /\ wire[i] > 0 /\ wire' = [wire EXCEPT ![i] = @ - 1]
        /\ authorized' = [authorized EXCEPT ![i] = @ + 1] \/ authorized' = authorized
    BY DEF AuthorizePush, screenVars, rowVars, purgeVars
  <1>2. RecordTypes'
    BY <1>1 DEF RecInv, RecordTypes
  <1>3. ASSUME NEW j \in Pushed PROVE Recorded(j)'
    <2>1. RowsOf(j)' = RowsOf(j)
      BY <1>1 DEF RowsOf
    <2>2. wire'[j] > 0 \/ authorized'[j] > 0 => wire[j] > 0 \/ authorized[j] > 0
      BY <1>1 DEF RecInv, RecordTypes
    <2> QED
      BY <1>1, <2>1, <2>2, RecordKept DEF RecInv
  <1> QED
    BY <1>2, <1>3 DEF RecInv

\* Saving a push leaves exactly its rows, the first time and every other time.
LEMMA SavedRows ==
    ASSUME RecInv, NEW i \in Pushed, outcome[i] # None,
           findings' = InsertNew(PushedRows(i))
    PROVE  /\ RowsOf(i)' = PushedRows(i)
           /\ \A j : j # i => RowsOf(j)' = RowsOf(j)
           /\ \A row \in findings' : row.id[1] = row.job
  <1>0. findings' = findings \union {row \in PushedRows(i) : \A old \in findings : old.id # row.id}
    BY DEF InsertNew
  <1>1. \A row \in PushedRows(i) : row.job = i /\ row.id[1] = i
    BY PushedRow
  <1>2. \A row \in findings : row.id[1] = row.job
    BY DEF RecInv, RecordTypes
  <1>3. CASE RowsOf(i) = {}
    <2>1. \A old \in findings, row \in PushedRows(i) : old.id # row.id
      BY <1>1, <1>2, <1>3 DEF RowsOf
    <2> QED
      BY <1>0, <1>1, <1>2, <1>3, <2>1 DEF RowsOf
  <1>4. CASE RowsOf(i) # {}
    <2>1. RowsOf(i) = PushedRows(i)
      BY <1>4 DEF RecInv, Recorded
    <2>2. PushedRows(i) \subseteq findings
      BY <2>1 DEF RowsOf
    <2>3. findings' = findings
      BY <1>0, <2>2
    <2> QED
      BY <1>2, <2>1, <2>3 DEF RowsOf
  <1> QED
    BY <1>3, <1>4

LEMMA SaveRecorded ==
    ASSUME RecInv, NEW i \in Pushed, NEW answered \in BOOLEAN, SavePush(i, answered)
    PROVE  RecInv'
  <1>1. /\ UNCHANGED <<outcome, wire, purged, dashboard>>
        /\ authorized[i] > 0 /\ authorized' = [authorized EXCEPT ![i] = @ - 1]
        /\ jobs' = [jobs EXCEPT ![i] = BuildSummaryPayload(i).status]
        /\ findings' = InsertNew(PushedRows(i))
        /\ listed' \in {listed, listed \union {i}}
    BY DEF SavePush, AppendReviewSummary, screenVars, purgeVars
  <1>2. outcome[i] # None /\ outcome[i] \in Outcomes
    BY <1>1 DEF RecInv, RecordTypes, Recorded
  <1>3. BuildSummaryPayload(i).status = outcome[i].status
    BY DEF BuildSummaryPayload
  <1>4. i \in Reviews /\ outcome[i].status \in Statuses
    BY <1>2 DEF Reviews, Statuses
  <1>5. /\ RowsOf(i)' = PushedRows(i)
        /\ \A j : j # i => RowsOf(j)' = RowsOf(j)
        /\ \A row \in findings' : row.id[1] = row.job
    BY <1>1, <1>2, SavedRows
  <1>6. RecordTypes'
    BY <1>1, <1>3, <1>4, <1>5 DEF RecInv, RecordTypes
  <1>7. ASSUME NEW j \in Pushed, j # i PROVE Recorded(j)'
    <2>1. jobs'[j] = jobs[j] /\ authorized'[j] = authorized[j]
      BY <1>1, <1>7 DEF RecInv, RecordTypes, Reviews
    <2> QED
      BY <1>1, <1>5, <1>7, <2>1, RecordKept DEF RecInv
  <1>8. Recorded(i)'
    <2>1. jobs'[i] = outcome'[i].status
      BY <1>1, <1>3, <1>4 DEF RecInv, RecordTypes
    <2>2. RowsOf(i)' = PushedRows(i)'
      BY <1>1, <1>5, SameRows
    <2> QED
      BY <1>1, <1>2, <2>1, <2>2 DEF Recorded
  <1> QED
    BY <1>6, <1>7, <1>8 DEF RecInv

LEMMA ProjectRecorded ==
    ASSUME RecInv, NEW i \in Queued, NEW built, NEW verified, NEW method, NEW evidence,
           ProjectReview(i, built, verified, method, evidence)
    PROVE  RecInv'
  <1>1. UNCHANGED <<wire, authorized, outcome, jobs, listed, purged, dashboard>>
    BY DEF ProjectReview, terminalVars, screenVars, pushVars, purgeVars
  <1> DEFINE row == Row(<<i, 1>>, i, "high", verified,
                        IF evidence = "sandbox" THEN "run" ELSE None, evidence # "none")
  <1>2. row.job = i /\ row.id[1] = i /\ findings' = findings \union {row}
    <2>1. findings' = findings \union {row}
      BY DEF ProjectReview
    <2> QED
      BY <2>1 DEF Row
  <1> HIDE DEF row
  <1>3. RecordTypes'
    BY <1>1, <1>2 DEF RecInv, RecordTypes
  <1>4. ASSUME NEW j \in Pushed PROVE Recorded(j)'
    <2>1. j # i
      BY RecordsAssumption
    <2>2. RowsOf(j)' = RowsOf(j)
      BY <1>2, <2>1 DEF RowsOf
    <2> QED
      BY <1>1, <2>2, RecordKept DEF RecInv
  <1> QED
    BY <1>3, <1>4 DEF RecInv

LEMMA PurgeRecorded ==
    ASSUME RecInv, PurgeEnds
    PROVE  RecInv'
  <1> DEFINE r == purge.repository
  <1>1. UNCHANGED <<wire, authorized, outcome, findings, listed, dashboard>>
    BY DEF PurgeEnds, terminalVars, screenVars, pushVars
  <1>2. \/ UNCHANGED <<jobs, purged>>
        \/ /\ jobs' = [j \in Reviews |-> IF j \in JobsOf(r) THEN None ELSE jobs[j]]
           /\ purged' = purged \union {r}
    BY DEF PurgeEnds
  <1>3. RecordTypes'
    BY <1>1, <1>2 DEF RecInv, RecordTypes, Statuses
  <1>4. ASSUME NEW j \in Pushed PROVE Recorded(j)'
    <2>1. RowsOf(j)' = RowsOf(j)
      BY <1>1 DEF RowsOf
    <2>2. RepoOf[j] \notin purged' => RepoOf[j] \notin purged /\ jobs'[j] = jobs[j]
      BY <1>2 DEF JobsOf, Reviews
    <2> QED
      BY <1>1, <2>1, <2>2, RecordKept DEF RecInv
  <1> QED
    BY <1>3, <1>4 DEF RecInv

LEMMA NextRecorded == RecInv /\ [RecNext]_recVars => RecInv'
  <1> SUFFICES ASSUME RecInv, [RecNext]_recVars PROVE RecInv'
    OBVIOUS
  <1>1. ASSUME UNCHANGED <<wire, authorized, outcome, jobs, findings, listed, purged>>,
               dashboard' \in {dashboard, listed}
        PROVE  RecInv'
    <2>1. RecordTypes'
      BY <1>1 DEF RecInv, RecordTypes
    <2>2. ASSUME NEW j \in Pushed PROVE Recorded(j)'
      <3>1. RowsOf(j)' = RowsOf(j)
        BY <1>1 DEF RowsOf
      <3> QED
        BY <1>1, <3>1, RecordKept DEF RecInv
    <2> QED
      BY <2>1, <2>2 DEF RecInv
  <1> QED
    BY <1>1, CompleteRecorded, AuthorizeRecorded, SaveRecorded, ProjectRecorded,
       PurgeRecorded, RecordSteps

\* n different things are n things.
LEMMA Numbered ==
    ASSUME NEW n \in Nat, NEW T, NEW F \in [1..n -> T],
           \A i, k \in 1..n : F[i] = F[k] => i = k,
           \A t \in T : \E i \in 1..n : F[i] = t
    PROVE  Cardinality(T) = n
  <1>1. F \in Bijection(1..n, T)
    BY DEF Bijection, Injection, Surjection, IsInjective
  <1>2. ExistsBijection(1..n, T)
    BY <1>1 DEF ExistsBijection
  <1>3. IsFiniteSet(1..n) /\ Cardinality(1..n) = IF 1 > n THEN 0 ELSE n - 1 + 1
    BY FS_Interval
  <1>4. Cardinality(1..n) = n
    BY <1>3
  <1> QED
    BY <1>2, <1>3, <1>4, FS_Bijection

\* The rows of a summary, as the two tables count them.
LEMMA SameSummary ==
    ASSUME NEW j, outcome[j] \in Outcomes, NEW status
    PROVE  Summary(status, {FindingSummary(row) : row \in PushedRows(j)})
              = Summary(status, {<<i, outcome[j].findings[i]>> : i \in DOMAIN outcome[j].findings})
  <1>1. PICK s : s = outcome[j].findings
    OBVIOUS
  <1>2. PICK n \in Nat : DOMAIN s = 1..n
    BY <1>1, RecordsAssumption
  <1> DEFINE F == [i \in 1..n |-> <<FindingId(j, i), s[i]>>]
             G == [i \in 1..n |-> <<i, s[i]>>]
             A == {FindingSummary(row) : row \in PushedRows(j)}
             B == {<<i, outcome[j].findings[i]>> : i \in DOMAIN outcome[j].findings}
  <1>3. A = {F[i] : i \in 1..n}
    <2>1. PushedRows(j) = {Row(FindingId(j, i), j, s[i], FALSE, None, FALSE) : i \in 1..n}
      BY <1>1, <1>2 DEF PushedRows, BuildSummaryPayload
    <2>2. \A i \in 1..n :
             FindingSummary(Row(FindingId(j, i), j, s[i], FALSE, None, FALSE)) = F[i]
      BY DEF FindingSummary, Row
    <2> HIDE DEF F
    <2> QED
      BY <2>1, <2>2
  <1>4. B = {G[i] : i \in 1..n}
    BY <1>1, <1>2
  <1>5. Cardinality({F[i] : i \in 1..n}) = n
    <2>1. \A i, k \in 1..n : F[i] = F[k] => i = k
      BY DEF FindingId
    <2>2. F \in [1..n -> {F[i] : i \in 1..n}]
      OBVIOUS
    <2> HIDE DEF F
    <2> QED
      BY <2>1, <2>2, Numbered
  <1>6. Cardinality({G[i] : i \in 1..n}) = n
    <2>1. \A i, k \in 1..n : G[i] = G[k] => i = k
      OBVIOUS
    <2>2. G \in [1..n -> {G[i] : i \in 1..n}]
      OBVIOUS
    <2> HIDE DEF G
    <2> QED
      BY <2>1, <2>2, Numbered
  <1>7. {row[2] : row \in A} = {s[i] : i \in 1..n} /\ {row[2] : row \in B} = {s[i] : i \in 1..n}
    <2>1. \A i \in 1..n : F[i][2] = s[i] /\ G[i][2] = s[i]
      OBVIOUS
    <2> HIDE DEF A, B, F, G
    <2> QED
      BY <1>3, <1>4, <2>1
  <1> HIDE DEF A, B, F, G
  <1>8. Cardinality(A) = Cardinality(B) /\ {row[2] : row \in A} = {row[2] : row \in B}
    BY <1>3, <1>4, <1>5, <1>6, <1>7
  <1>9. Summary(status, A) = Summary(status, B)
    BY <1>8 DEF Summary
  <1> QED
    BY <1>9 DEF A, B

LEMMA ListedIsHosted ==
    ASSUME RecInv, NEW j \in dashboard, RepoOf[j] \notin purged
    PROVE  /\ j \in JobsOf(RepoOf[j])
           /\ ReviewSummaryForJob(j) = ReviewFromPayload(j)
  <1>1. j \in Pushed /\ j \in listed
    BY DEF RecInv, RecordTypes
  <1>2. /\ outcome[j] # None /\ RowsOf(j) = PushedRows(j)
        /\ jobs[j] = outcome[j].status
    BY <1>1 DEF RecInv, Recorded
  <1>3. outcome[j] \in Outcomes /\ outcome[j].status # None
    BY <1>1, <1>2, RecordsAssumption DEF RecInv, RecordTypes
  <1>4. j \in JobsOf(RepoOf[j])
    BY <1>1, <1>2, <1>3 DEF JobsOf, Reviews
  <1>5. ReviewSummaryForJob(j)
           = Summary(outcome[j].status, {FindingSummary(row) : row \in PushedRows(j)})
    BY <1>2 DEF ReviewSummaryForJob, RowsOf
  <1>6. ReviewSummaryForJob(j) = ReviewFromPayload(j)
    BY <1>3, <1>5, SameSummary DEF ReviewFromPayload
  <1> QED
    BY <1>4, <1>6

\* Every review in the terminal's table, and the one it has open, is on the hosted
\* page with the same status, count and worst severity until its repository is purged
\* (push_review_summary.py, review_projection.py, review_dashboard.py), however often
\* its push was retried, delayed past its retry or answered late.
THEOREM AlwaysSavedAsShown == RecSpec => []SavedAsShown
  <1>1. RecInv => SavedAsShown
    <2> SUFFICES ASSUME RecInv, NEW r \in Repositories, r \notin purged,
                        NEW j \in dashboard, RepoOf[j] = r
                 PROVE  /\ j \in DOMAIN ListReviews(Repositories)[r]
                        /\ ListReviews(Repositories)[r][j] = ReviewFromPayload(j)
                        /\ ReviewById({r}, j) = ReviewFromPayload(j)
      BY DEF SavedAsShown, DashboardRepositoriesFromLog
    <2>1. j \in JobsOf(r) /\ ReviewSummaryForJob(j) = ReviewFromPayload(j)
      BY ListedIsHosted
    <2>2. ListReviews(Repositories)[r] = [i \in JobsOf(r) |-> ReviewSummaryForJob(i)]
      BY DEF ListReviews, ReviewsForRepository
    <2>3. jobs[j] # None
      BY <2>1 DEF JobsOf
    <2> QED
      BY <2>1, <2>2, <2>3 DEF ReviewById
  <1> QED
    BY <1>1, RecInitInv, NextRecorded, PTL DEF RecSpec

-----------------------------------------------------------------------------
(* What a budget counts is what its jobs hold.                             *)

Plus(a, b) == a + b

Sums == INSTANCE FoldInduction WITH op <- Plus

LEMMA SameSum ==
    ASSUME NEW f
    PROVE  SumFunction(f) = Sums!SumFunction(f)
  BY DEF SumFunction, SumFunctionOnSet, FoldFunctionOnSet, MapThenFoldSet,
         Sums!SumFunction, Sums!SumFunctionOnSet, Sums!FoldFunctionOnSet, Sums!MapThenFoldSet

LEMMA HeldByNone ==
    ASSUME NEW f, DOMAIN f = {}
    PROVE  SumFunction(f) = 0
  BY SameSum, Sums!SumOfNone

LEMMA HeldByOneMore ==
    ASSUME NEW f, NEW e, NEW x, Sums!OneMore(f, e, x)
    PROVE  /\ SumFunction(f) = SumFunction(e) + f[x]
           /\ SumFunction(e) \in Nat /\ SumFunction(f) \in Nat
  <1>1. /\ Sums!SumFunction(f) = Sums!SumFunction(e) + f[x]
        /\ Sums!SumFunction(e) \in Nat /\ Sums!SumFunction(f) \in Nat
    BY Sums!SumWithOneMore
  <1> QED
    BY <1>1, SameSum

Reservation == [status : {"held", "released"}, amount : Amounts]

HeldIn(r) == {j \in Reviews : Held(j) /\ RepoOf[j] = r}

AmountOf(A, e) == SumFunction([j \in A |-> e[j].amount])

HeldAmount(r) == AmountOf(HeldIn(r), reservations)

Counted(r) == IF budgets[r] = None THEN 0 ELSE budgets[r].reserved

BudgetTypes ==
    /\ budgets \in [Repositories -> {None} \union [limit : Limits, reserved : Nat]]
    /\ reservations \in [Reviews -> {None} \union Reservation]
    /\ asking \in [Callers -> {None} \union Queued]
    /\ purge # None => \A j \in purge.doomed : RepoOf[j] = purge.repository

\* A budget counts what is held, and finitely many jobs hold something; a purge
\* under way touches the reservations of its own repository only.
BudgetInv ==
    /\ BudgetTypes
    /\ \A r \in Repositories : IsFiniteSet(HeldIn(r))
    /\ \A r \in Repositories \ purged : HeldAmount(r) = Counted(r)

LEMMA BudgetInitInv == RecInit => BudgetInv
  <1> SUFFICES ASSUME RecInit PROVE BudgetInv
    OBVIOUS
  <1>1. BudgetTypes
    BY DEF RecInit, BudgetTypes
  <1>2. \A r : HeldIn(r) = {}
    BY DEF RecInit, HeldIn, Held
  <1>3. ASSUME NEW r \in Repositories PROVE HeldAmount(r) = 0 /\ Counted(r) = 0
    <2>1. PICK f : f = [j \in HeldIn(r) |-> reservations[j].amount]
      OBVIOUS
    <2>2. DOMAIN f = {}
      BY <1>2, <2>1
    <2> QED
      BY <2>1, <2>2, HeldByNone DEF HeldAmount, AmountOf, Counted, RecInit
  <1> QED
    BY <1>1, <1>2, <1>3, FS_EmptySet DEF BudgetInv

\* A repository none of whose reservations changes.
LEMMA HeldKept ==
    ASSUME NEW r \in Repositories,
           \A j \in Reviews : RepoOf[j] = r => reservations'[j] = reservations[j]
    PROVE  HeldIn(r)' = HeldIn(r) /\ HeldAmount(r)' = HeldAmount(r)
  <1>1. HeldIn(r)' = HeldIn(r)
    BY DEF HeldIn, Held
  <1>2. \A j \in HeldIn(r) : reservations'[j] = reservations[j]
    BY DEF HeldIn
  <1>3. [j \in HeldIn(r)' |-> reservations'[j].amount] = [j \in HeldIn(r) |-> reservations[j].amount]
    BY <1>1, <1>2
  <1> QED
    BY <1>1, <1>3 DEF HeldAmount, AmountOf

\* The holders A under the reservations e, and x as well under f.
OneMoreHolds(A, e, f, x) ==
    /\ IsFiniteSet(A) /\ x \notin A
    /\ \A j \in A : f[j] = e[j]
    /\ \A j \in A \cup {x} : f[j].amount \in Nat

\* One more held reservation, or one fewer, is one amount more or less.
LEMMA HeldMoves ==
    ASSUME NEW A, NEW e, NEW f, NEW x, OneMoreHolds(A, e, f, x)
    PROVE  /\ AmountOf(A \cup {x}, f) = AmountOf(A, e) + f[x].amount
           /\ AmountOf(A, e) \in Nat
  <1>1. PICK p : p = [j \in A \cup {x} |-> f[j].amount]
    OBVIOUS
  <1>2. PICK q : q = [j \in A |-> e[j].amount]
    OBVIOUS
  <1>3. /\ DOMAIN p = DOMAIN q \cup {x} /\ DOMAIN q = A /\ DOMAIN p = A \cup {x}
        /\ \A y \in DOMAIN q : p[y] = q[y]
        /\ \A y \in DOMAIN p : p[y] \in Nat
        /\ p[x] = f[x].amount
    BY <1>1, <1>2 DEF OneMoreHolds
  <1>4. Sums!OneMore(p, q, x)
    BY <1>3 DEF OneMoreHolds, Sums!OneMore, Sums!IsFiniteSet, IsFiniteSet
  <1>5. SumFunction(p) = SumFunction(q) + p[x] /\ SumFunction(q) \in Nat
    BY <1>4, HeldByOneMore
  <1> QED
    BY <1>1, <1>2, <1>3, <1>5 DEF AmountOf

LEMMA ReserveCounted ==
    ASSUME BudgetInv, NEW c \in Callers, NEW amount \in Amounts, ReserveWrite(c, amount)
    PROVE  BudgetInv'
  <1>0. PICK j, r : j = asking[c] /\ r = RepoOf[j]
    OBVIOUS
  <1>1. /\ UNCHANGED <<purge, purged>> /\ asking' = [asking EXCEPT ![c] = None]
        /\ asking[c] # None
    BY DEF ReserveWrite, purgeVars
  <1>2. j \in Queued /\ j \in Reviews /\ r \in Repositories /\ amount \in Nat
    BY <1>0, <1>1, RecordsAssumption DEF BudgetInv, BudgetTypes, Reviews
  <1>3. asking' \in [Callers -> {None} \union Queued]
    BY <1>1 DEF BudgetInv, BudgetTypes
  <1>4. CASE ~(HasRoom(r, amount) /\ ~KeyTaken(j))
    <2>1. UNCHANGED <<budgets, reservations>>
      BY <1>0, <1>4 DEF ReserveWrite
    <2>2. \A q \in Repositories : HeldIn(q)' = HeldIn(q) /\ HeldAmount(q)' = HeldAmount(q)
      BY <2>1, HeldKept
    <2>3. BudgetTypes'
      BY <1>1, <1>3, <2>1 DEF BudgetInv, BudgetTypes
    <2> QED
      BY <1>1, <2>1, <2>2, <2>3 DEF BudgetInv, Counted
  <1>5. CASE HasRoom(r, amount) /\ ~KeyTaken(j)
    <2>1. /\ budgets' = [budgets EXCEPT ![r].reserved = @ + amount]
          /\ reservations' = [reservations EXCEPT ![j] = [status |-> "held", amount |-> amount]]
          /\ budgets[r] # None /\ reservations[j] = None
      BY <1>0, <1>5 DEF ReserveWrite, HasRoom, KeyTaken
    <2>2. PICK old : old = budgets[r]
      OBVIOUS
    <2>3. /\ old \in [limit : Limits, reserved : Nat]
          /\ old = [limit |-> old.limit, reserved |-> old.reserved]
          /\ old.limit \in Limits /\ old.reserved \in Nat
      BY <1>2, <2>1, <2>2 DEF BudgetInv, BudgetTypes
    <2>4. PICK new : new = [limit |-> old.limit, reserved |-> old.reserved + amount]
      OBVIOUS
    <2>5. /\ new \in [limit : Limits, reserved : Nat] /\ new # None
          /\ new.reserved = old.reserved + amount
      <3>1. old.reserved + amount \in Nat /\ old.limit \in Nat
        <4>1. old.limit \in Nat
          BY <2>3, RecordsAssumption
        <4>2. old.reserved \in Nat
          BY <2>3
        <4> QED
          BY <1>2, <4>1, <4>2
      <3>2. new \in [limit : Limits, reserved : Nat] /\ new \in [limit : Nat, reserved : Nat]
        BY <2>3, <2>4, <3>1
      <3> QED
        BY <2>4, <3>2, RecordsAssumption
    <2>6. budgets' = [budgets EXCEPT ![r] = new]
      <3>1. [old EXCEPT !.reserved = @ + amount] = new
        BY <2>3, <2>4
      <3>2. budgets' = [budgets EXCEPT ![r] = [budgets[r] EXCEPT !.reserved = @ + amount]]
        BY <2>1
      <3> QED
        BY <2>2, <3>1, <3>2
    <2>7. PICK row : row = [status |-> "held", amount |-> amount]
      OBVIOUS
    <2>8. /\ row \in Reservation /\ row # None /\ row.status = "held" /\ row.amount = amount
          /\ reservations' = [reservations EXCEPT ![j] = row]
      BY <1>2, <2>1, <2>7, RecordsAssumption DEF Reservation
    <2>9. BudgetTypes'
      BY <1>1, <1>2, <1>3, <2>5, <2>6, <2>8 DEF BudgetInv, BudgetTypes
    <2>10. ASSUME NEW q \in Repositories, q # r
           PROVE  HeldIn(q)' = HeldIn(q) /\ HeldAmount(q)' = HeldAmount(q) /\ Counted(q)' = Counted(q)
      <3>1. \A i \in Reviews : RepoOf[i] = q => reservations'[i] = reservations[i]
        BY <1>0, <1>2, <2>8, <2>10 DEF BudgetInv, BudgetTypes
      <3>2. budgets'[q] = budgets[q]
        BY <2>6, <2>10 DEF BudgetInv, BudgetTypes
      <3> QED
        BY <3>1, <3>2, HeldKept DEF Counted
    <2>11. HeldIn(r)' = HeldIn(r) \cup {j} /\ j \notin HeldIn(r)
      <3>1. /\ reservations'[j] = row /\ RepoOf[j] = r
            /\ \A i \in Reviews : i # j => reservations'[i] = reservations[i]
        BY <1>0, <1>2, <2>8 DEF BudgetInv, BudgetTypes
      <3>2. \A i \in Reviews : Held(i)' <=> Held(i) \/ i = j
        BY <2>8, <3>1 DEF Held
      <3>3. ~Held(j)
        BY <2>1 DEF Held
      <3> QED
        BY <1>2, <3>1, <3>2, <3>3 DEF HeldIn
    <2>12. IsFiniteSet(HeldIn(r)) /\ IsFiniteSet(HeldIn(r)')
      BY <1>2, <2>11, FS_AddElement DEF BudgetInv
    <2>13. HeldAmount(r)' = HeldAmount(r) + amount
      <3>1. \A i \in HeldIn(r) : reservations'[i] = reservations[i]
        BY <2>8, <2>11 DEF BudgetInv, BudgetTypes, HeldIn
      <3>2. \A i \in HeldIn(r)' : reservations'[i].amount \in Nat
        BY <2>9, RecordsAssumption DEF BudgetTypes, Reservation, HeldIn, Held
      <3>3. reservations'[j].amount = amount
        BY <1>2, <2>8 DEF BudgetInv, BudgetTypes
      <3>4. OneMoreHolds(HeldIn(r), reservations, reservations', j)
        BY <2>11, <2>12, <3>1, <3>2 DEF OneMoreHolds
      <3>5. AmountOf(HeldIn(r) \cup {j}, reservations')
               = AmountOf(HeldIn(r), reservations) + reservations'[j].amount
        BY <3>4, HeldMoves
      <3> QED
        BY <2>11, <3>3, <3>5 DEF HeldAmount
    <2>14. Counted(r)' = new.reserved /\ Counted(r) = old.reserved
      <3>1. budgets'[r] = new /\ budgets[r] = old /\ old # None
        BY <1>2, <2>1, <2>2, <2>6 DEF BudgetInv, BudgetTypes
      <3> QED
        BY <2>5, <3>1 DEF Counted
    <2>15. r \notin purged' => HeldAmount(r)' = Counted(r)'
      BY <1>1, <1>2, <2>5, <2>13, <2>14 DEF BudgetInv
    <2>16. \A q \in Repositories : IsFiniteSet(HeldIn(q)')
      BY <2>10, <2>12 DEF BudgetInv
    <2>17. \A q \in Repositories \ purged' : HeldAmount(q)' = Counted(q)'
      BY <1>1, <2>10, <2>15 DEF BudgetInv
    <2> QED
      BY <2>9, <2>16, <2>17 DEF BudgetInv
  <1> QED
    BY <1>4, <1>5

LEMMA ReleaseCounted ==
    ASSUME BudgetInv, NEW j \in Queued, ReleaseRepositoryReservation(j)
    PROVE  BudgetInv'
  <1>0. PICK r, row, old : r = RepoOf[j] /\ row = reservations[j] /\ old = budgets[r]
    OBVIOUS
  <1>1. /\ UNCHANGED <<asking, purge, purged>> /\ Held(j)
        /\ reservations' = [reservations EXCEPT ![j].status = "released"]
        /\ old # None => old.reserved >= row.amount
        /\ budgets' = [budgets EXCEPT ![r] =
              IF old = None THEN None
              ELSE [limit |-> old.limit, reserved |-> old.reserved - row.amount]]
    <2>1. /\ UNCHANGED <<asking, purge, purged>> /\ Held(j)
          /\ reservations' = [reservations EXCEPT ![j].status = "released"]
      BY DEF ReleaseRepositoryReservation, purgeVars
    <2>2. old # None => old.reserved >= row.amount
      BY <1>0 DEF ReleaseRepositoryReservation
    <2>3. budgets' = [budgets EXCEPT ![RepoOf[j]] =
             IF budgets[RepoOf[j]] = None THEN None
             ELSE [limit |-> budgets[RepoOf[j]].limit,
                   reserved |-> budgets[RepoOf[j]].reserved - reservations[j].amount]]
      BY DEF ReleaseRepositoryReservation
    <2>4. budgets' = [budgets EXCEPT ![r] =
             IF old = None THEN None
              ELSE [limit |-> old.limit, reserved |-> old.reserved - row.amount]]
      BY <1>0, <2>3
    <2> QED
      BY <2>1, <2>2, <2>4
  <1>2. j \in Reviews /\ r \in Repositories
    BY <1>0, RecordsAssumption DEF Reviews
  <1>3. /\ row \in Reservation /\ row # None /\ row.status = "held"
        /\ row.amount \in Amounts /\ row.amount \in Nat
        /\ row = [status |-> "held", amount |-> row.amount]
    BY <1>0, <1>1, <1>2, RecordsAssumption DEF BudgetInv, BudgetTypes, Held, Reservation
  <1>4. PICK done : /\ done = [status |-> "released", amount |-> row.amount]
                    /\ done \in Reservation /\ done.status = "released"
    <2>1. PICK some : some = [status |-> "released", amount |-> row.amount]
      OBVIOUS
    <2>2. some \in Reservation /\ some.status = "released"
      BY <1>3, <2>1 DEF Reservation
    <2> QED
      BY <2>1, <2>2
  <1>5. reservations' = [reservations EXCEPT ![j] = done]
    <2>1. [row EXCEPT !.status = "released"] = done
      BY <1>3, <1>4
    <2>2. reservations' = [reservations EXCEPT ![j] = [reservations[j] EXCEPT !.status = "released"]]
      BY <1>1
    <2> QED
      BY <1>0, <2>1, <2>2
  <1>6. PICK new : /\ budgets' = [budgets EXCEPT ![r] = new]
                   /\ old = None => new = None
                   /\ old # None => new = [limit |-> old.limit, reserved |-> old.reserved - row.amount]
    BY <1>1
  <1>7. old # None => /\ old.limit \in Limits /\ old.reserved \in Nat
                      /\ new \in [limit : Limits, reserved : Nat] /\ new # None
                      /\ new.reserved = old.reserved - row.amount
    <2> SUFFICES ASSUME old # None
                 PROVE  /\ old.limit \in Limits /\ old.reserved \in Nat
                        /\ new \in [limit : Limits, reserved : Nat] /\ new # None
                        /\ new.reserved = old.reserved - row.amount
      OBVIOUS
    <2>1. old.limit \in Limits /\ old.reserved \in Nat
      BY <1>0, <1>2 DEF BudgetInv, BudgetTypes
    <2>2. old.reserved - row.amount \in Nat
      BY <1>1, <1>3, <2>1
    <2>3. old.limit \in Nat
      BY <2>1, RecordsAssumption
    <2>4. new \in [limit : Limits, reserved : Nat] /\ new \in [limit : Nat, reserved : Nat]
      BY <1>6, <2>1, <2>2, <2>3
    <2> QED
      BY <1>6, <2>1, <2>4, RecordsAssumption
  <1>8. BudgetTypes'
    <2>1. new \in {None} \union [limit : Limits, reserved : Nat]
      BY <1>6, <1>7
    <2>2. budgets' \in [Repositories -> {None} \union [limit : Limits, reserved : Nat]]
      BY <1>6, <2>1 DEF BudgetInv, BudgetTypes
    <2>3. reservations' \in [Reviews -> {None} \union Reservation]
      BY <1>4, <1>5 DEF BudgetInv, BudgetTypes
    <2> QED
      BY <1>1, <2>2, <2>3 DEF BudgetInv, BudgetTypes
  <1>9. ASSUME NEW q \in Repositories, q # r
        PROVE  HeldIn(q)' = HeldIn(q) /\ HeldAmount(q)' = HeldAmount(q) /\ Counted(q)' = Counted(q)
    <2>1. \A i \in Reviews : RepoOf[i] = q => reservations'[i] = reservations[i]
      BY <1>0, <1>5, <1>9 DEF BudgetInv, BudgetTypes
    <2>2. budgets'[q] = budgets[q]
      BY <1>6, <1>9 DEF BudgetInv, BudgetTypes
    <2> QED
      BY <2>1, <2>2, HeldKept DEF Counted
  <1>10. HeldIn(r) = HeldIn(r)' \cup {j} /\ j \notin HeldIn(r)'
    <2>1. /\ reservations'[j] = done /\ RepoOf[j] = r
          /\ \A i \in Reviews : i # j => reservations'[i] = reservations[i]
      BY <1>0, <1>2, <1>5 DEF BudgetInv, BudgetTypes
    <2>2. \A i \in Reviews : Held(i)' <=> Held(i) /\ i # j
      BY <1>4, <2>1 DEF Held
    <2> QED
      BY <1>1, <1>2, <2>1, <2>2 DEF HeldIn
  <1>11. IsFiniteSet(HeldIn(r)')
    <2>1. HeldIn(r)' \subseteq HeldIn(r)
      BY <1>10
    <2> QED
      BY <1>2, <2>1, FS_Subset DEF BudgetInv
  <1>12. HeldAmount(r) = HeldAmount(r)' + row.amount /\ HeldAmount(r)' \in Nat
    <2>1. \A i \in HeldIn(r)' : reservations[i] = reservations'[i]
      BY <1>5, <1>10 DEF BudgetInv, BudgetTypes, HeldIn
    <2>2. \A i \in HeldIn(r) : reservations[i].amount \in Nat
      BY RecordsAssumption DEF BudgetInv, BudgetTypes, Reservation, HeldIn, Held
    <2>3. OneMoreHolds(HeldIn(r)', reservations', reservations, j)
      BY <1>10, <1>11, <2>1, <2>2 DEF OneMoreHolds
    <2>4. /\ AmountOf(HeldIn(r)' \cup {j}, reservations)
                = AmountOf(HeldIn(r)', reservations') + reservations[j].amount
          /\ AmountOf(HeldIn(r)', reservations') \in Nat
      BY <2>3, HeldMoves
    <2> QED
      BY <1>0, <1>10, <2>4 DEF HeldAmount
  <1>13. r \notin purged' => HeldAmount(r)' = Counted(r)'
    <2> SUFFICES ASSUME r \notin purged PROVE HeldAmount(r)' = Counted(r)'
      BY <1>1
    <2>1. HeldAmount(r) = Counted(r)
      BY <1>2 DEF BudgetInv
    <2>2. budgets'[r] = new
      BY <1>2, <1>6 DEF BudgetInv, BudgetTypes
    <2>3. CASE old = None
      <3>1. Counted(r) = 0 /\ Counted(r)' = 0
        BY <1>0, <1>6, <2>2, <2>3 DEF Counted
      <3> QED
        BY <1>3, <1>12, <2>1, <3>1
    <2>4. CASE old # None
      <3>1. Counted(r) = old.reserved /\ Counted(r)' = new.reserved
        BY <1>0, <1>7, <2>2, <2>4 DEF Counted
      <3> QED
        BY <1>3, <1>7, <1>12, <2>1, <2>4, <3>1
    <2> QED
      BY <2>3, <2>4
  <1>14. \A q \in Repositories : IsFiniteSet(HeldIn(q)')
    BY <1>9, <1>11 DEF BudgetInv
  <1>15. \A q \in Repositories \ purged' : HeldAmount(q)' = Counted(q)'
    BY <1>1, <1>9, <1>13 DEF BudgetInv
  <1> QED
    BY <1>8, <1>14, <1>15 DEF BudgetInv

LEMMA UpsertCounted ==
    ASSUME BudgetInv, NEW r \in Repositories, NEW limit \in Limits, UpsertRepositoryBudget(r, limit)
    PROVE  BudgetInv'
  <1>1. /\ UNCHANGED <<reservations, asking, purge, purged>>
        /\ budgets' = [budgets EXCEPT ![r] =
               IF @ = None THEN [limit |-> limit, reserved |-> 0] ELSE [@ EXCEPT !.limit = limit]]
    BY DEF UpsertRepositoryBudget, purgeVars
  <1>2. PICK new : /\ budgets' = [budgets EXCEPT ![r] = new]
                   /\ new \in [limit : Limits, reserved : Nat]
                   /\ new.reserved = Counted(r)
    <2>1. CASE budgets[r] = None
      <3>1. PICK made : made = [limit |-> limit, reserved |-> 0]
        OBVIOUS
      <3>2. budgets' = [budgets EXCEPT ![r] = made]
        BY <1>1, <2>1, <3>1
      <3>3. made \in [limit : Limits, reserved : Nat] /\ made.reserved = Counted(r)
        BY <2>1, <3>1 DEF Counted
      <3> QED
        BY <3>2, <3>3
    <2>2. CASE budgets[r] # None
      <3>1. PICK old : old = budgets[r] /\ old \in [limit : Limits, reserved : Nat]
        BY <2>2 DEF BudgetInv, BudgetTypes
      <3>2. PICK made : made = [old EXCEPT !.limit = limit]
        OBVIOUS
      <3>3. made \in [limit : Limits, reserved : Nat] /\ made.reserved = old.reserved
        BY <3>1, <3>2
      <3>4. budgets' = [budgets EXCEPT ![r] = made]
        BY <1>1, <2>2, <3>1, <3>2
      <3> QED
        BY <2>2, <3>1, <3>3, <3>4 DEF Counted
    <2> QED
      BY <2>1, <2>2
  <1>3. BudgetTypes'
    BY <1>1, <1>2 DEF BudgetInv, BudgetTypes
  <1>4. \A q \in Repositories : HeldIn(q)' = HeldIn(q) /\ HeldAmount(q)' = HeldAmount(q)
    BY <1>1, HeldKept
  <1>5. ASSUME NEW q \in Repositories PROVE Counted(q)' = Counted(q)
    <2>1. CASE q = r
      <3>1. budgets'[r] = new
        BY <1>2 DEF BudgetInv, BudgetTypes
      <3>2. new # None
        <4>1. new.reserved \in Nat /\ new.limit \in Limits /\ new.limit \in Nat
          BY <1>2, RecordsAssumption
        <4>2. new = [limit |-> new.limit, reserved |-> new.reserved]
          BY <1>2
        <4>3. new \in [limit : Nat, reserved : Nat]
          BY <4>1, <4>2
        <4> QED
          BY <4>3, RecordsAssumption
      <3> QED
        BY <1>2, <2>1, <3>1, <3>2 DEF Counted
    <2>2. CASE q # r
      <3>1. budgets'[q] = budgets[q]
        BY <1>2, <2>2 DEF BudgetInv, BudgetTypes
      <3> QED
        BY <3>1 DEF Counted
    <2> QED
      BY <2>1, <2>2
  <1> QED
    BY <1>1, <1>3, <1>4, <1>5 DEF BudgetInv

LEMMA PurgeCounted ==
    ASSUME BudgetInv, PurgeEnds
    PROVE  BudgetInv'
  <1>0. PICK r, doomed : r = purge.repository /\ doomed = purge.doomed
    OBVIOUS
  <1>1. purge # None /\ purge' = None /\ UNCHANGED asking /\ \A j \in doomed : RepoOf[j] = r
    BY <1>0 DEF PurgeEnds, BudgetInv, BudgetTypes
  <1>2. CASE UNCHANGED <<budgets, reservations, purged>>
    <2>1. \A q \in Repositories : HeldIn(q)' = HeldIn(q) /\ HeldAmount(q)' = HeldAmount(q)
      BY <1>2, HeldKept
    <2>2. BudgetTypes'
      BY <1>1, <1>2 DEF BudgetInv, BudgetTypes
    <2> QED
      BY <1>2, <2>1, <2>2 DEF BudgetInv, Counted
  <1>3. CASE /\ reservations' = [j \in Reviews |-> IF j \in doomed THEN None ELSE reservations[j]]
             /\ budgets' = [budgets EXCEPT ![r] = None]
             /\ purged' = purged \union {r}
    <2>1. BudgetTypes'
      BY <1>1, <1>3 DEF BudgetInv, BudgetTypes
    <2>2. ASSUME NEW q \in Repositories, q # r
          PROVE  HeldIn(q)' = HeldIn(q) /\ HeldAmount(q)' = HeldAmount(q) /\ Counted(q)' = Counted(q)
      <3>1. \A i \in Reviews : RepoOf[i] = q => reservations'[i] = reservations[i]
        BY <1>1, <1>3, <2>2
      <3>2. budgets'[q] = budgets[q]
        BY <1>3, <2>2 DEF BudgetInv, BudgetTypes
      <3> QED
        BY <3>1, <3>2, HeldKept DEF Counted
    <2>3. ASSUME NEW q \in Repositories PROVE IsFiniteSet(HeldIn(q)')
      <3>1. HeldIn(q)' \subseteq HeldIn(q)
        BY <1>3 DEF HeldIn, Held
      <3> QED
        BY <3>1, FS_Subset DEF BudgetInv
    <2>4. \A q \in Repositories \ purged' : HeldAmount(q)' = Counted(q)'
      BY <1>3, <2>2 DEF BudgetInv
    <2> QED
      BY <2>1, <2>3, <2>4 DEF BudgetInv
  <1> QED
    BY <1>0, <1>2, <1>3 DEF PurgeEnds

LEMMA NextCounted == BudgetInv /\ [RecNext]_recVars => BudgetInv'
  <1> SUFFICES ASSUME BudgetInv, [RecNext]_recVars PROVE BudgetInv'
    OBVIOUS
  <1>1. ASSUME UNCHANGED <<budgets, reservations, purged>>, BudgetTypes' PROVE BudgetInv'
    <2>1. \A q \in Repositories : HeldIn(q)' = HeldIn(q) /\ HeldAmount(q)' = HeldAmount(q)
      BY <1>1, HeldKept
    <2> QED
      BY <1>1, <2>1 DEF BudgetInv, Counted
  <1>2. ASSUME UNCHANGED <<budgets, reservations, asking, purge, purged>> PROVE BudgetInv'
    BY <1>1, <1>2 DEF BudgetInv, BudgetTypes
  <1>3. ASSUME NEW j \in Pushed, PanelStep(j) \/ PushStep(j) PROVE BudgetInv'
    <2>1. UNCHANGED <<budgetVars, purgeVars>>
      BY <1>3
      DEF PanelStep, OpenPanel, StartAgentReasoning, DeliverNextReasoningChunk, ShowOutOfTokens,
          SelectReview, PushStep, CompleteReview, AuthorizePush, SavePush
    <2> QED
      BY <1>2, <2>1 DEF budgetVars, purgeVars
  <1>4. ASSUME PushFails \/ MountDashboard \/ BackToTable PROVE BudgetInv'
    BY <1>2, <1>4 DEF PushFails, MountDashboard, BackToTable, budgetVars, purgeVars
  <1>5. ASSUME NEW j \in Queued, ProjectionStep(j) PROVE BudgetInv'
    BY <1>2, <1>5
    DEF ProjectionStep, RecordEvent, RecordModelCall, ProjectReview, budgetVars, purgeVars
  <1>6. ASSUME NEW c \in Callers, NEW j \in Queued, ReserveSelect(c, j) PROVE BudgetInv'
    BY <1>1, <1>6 DEF ReserveSelect, BudgetInv, BudgetTypes, purgeVars
  <1>7. ASSUME NEW r \in Repositories, AssignRepository(r) \/ UnassignRepository(r) PROVE BudgetInv'
    BY <1>2, <1>7 DEF AssignRepository, UnassignRepository, budgetVars, purgeVars
  <1>8. ASSUME NEW r \in Repositories, UninstallRepository(r) PROVE BudgetInv'
    <2>1. /\ UNCHANGED <<budgets, reservations, asking, purged>>
          /\ purge' = [repository |-> r,
                       doomed |-> {j \in Reviews : reservations[j] # None /\ RepoOf[j] = r}]
      BY <1>8 DEF UninstallRepository, PurgeHostedRepository, budgetVars
    <2>2. purge'.repository = r /\ \A j \in purge'.doomed : RepoOf[j] = r
      BY <2>1
    <2> QED
      BY <1>1, <2>1, <2>2 DEF BudgetInv, BudgetTypes
  <1>9. ASSUME UNCHANGED recVars PROVE BudgetInv'
    BY <1>2, <1>9 DEF recVars, budgetVars, purgeVars
  <1>10. CASE RecNext
    <2>1. CASE BudgetStep
      BY <1>6, <2>1, ReserveCounted, ReleaseCounted, UpsertCounted DEF BudgetStep
    <2>2. CASE RepositoryStep
      BY <1>7, <1>8, <2>2, PurgeCounted DEF RepositoryStep
    <2> QED
      BY <1>3, <1>4, <1>5, <1>10, <2>1, <2>2 DEF RecNext
  <1> QED
    BY <1>9, <1>10

\* What a budget counts as reserved is what its jobs hold, for any number of callers,
\* jobs and repositories, after any interleaving of reservations, releases and purges
\* of other repositories, and two callers' reservations of one job count once
\* (reserve_repository_budget and release_repository_reservation, budget.py;
\* retention.py).
THEOREM ReservedIsAlwaysHeld == RecSpec => []ReservedIsHeld
  <1>1. BudgetInv => ReservedIsHeld
    BY DEF BudgetInv, ReservedIsHeld, HeldAmount, AmountOf, HeldIn, Counted
  <1> QED
    BY <1>1, BudgetInitInv, NextCounted, PTL DEF RecSpec

=============================================================================
