----------------------------- MODULE TerminalProofs -----------------------------
(***************************************************************************)
(* Theorems about a terminal session: that what the user sees in the pane  *)
(* is what scrolled off followed by the screen, and that durable rows      *)
(* stay, for every size of the pane, every ring and every output.          *)
(*                                                                         *)
(* The argument goes from the parts to the whole.  The ring of the grid    *)
(* is the end of what scrolled off (RingStands), and no operation takes    *)
(* back what scrolled off (Later).  No step of a capture moves a durable   *)
(* row (Onward).  Without Codex the durable rows are the end of what       *)
(* scrolled off and was seen (Faithful), so a capture, which takes over    *)
(* the rest and then the screen, makes the journal the end of both.  With  *)
(* Codex, each row of its transcript is durable or waits, on the screen,   *)
(* to become so (Held, Waiting); no capture forgets one, because what      *)
(* waits is never more than a screen holds (RoomToWait).                   *)
(***************************************************************************)
EXTENDS Terminal, SequenceTheorems, FiniteSetTheorems, WellFoundedInduction, TLAPS

-----------------------------------------------------------------------------
(* Operations that leave the ring alone.                                   *)

GridFields ==
    {"rows", "cols", "primary", "alternate", "usingAlternate", "used", "row", "col",
     "primaryKept", "alternateKept", "top", "bottom", "saved", "ring", "head", "count", "drops",
     "left", "hung"}

IsGrid(g) == DOMAIN g = GridFields

\* The size of the grid, its ring and what scrolled off are the same.
SameRing(g, h) ==
    /\ DOMAIN g = GridFields /\ DOMAIN h = GridFields
    /\ h.rows = g.rows /\ h.cols = g.cols
    /\ h.ring = g.ring /\ h.head = g.head /\ h.count = g.count /\ h.drops = g.drops
    /\ h.left = g.left

LEMMA SameItself == ASSUME NEW g, IsGrid(g) PROVE SameRing(g, g)
BY DEF SameRing, IsGrid

LEMMA SameSame ==
    ASSUME NEW g, NEW h, NEW k, SameRing(g, h), SameRing(h, k)
    PROVE  SameRing(g, k)
BY DEF SameRing

LEMMA SameGrid == ASSUME NEW g, NEW h, SameRing(g, h) PROVE IsGrid(h)
BY DEF SameRing, IsGrid

LEMMA MoveToSame ==
    ASSUME NEW g, IsGrid(g), NEW row, NEW col PROVE SameRing(g, MoveTo(g, row, col))
BY DEF SameRing, IsGrid, GridFields, MoveTo

LEMMA WithCellsSame ==
    ASSUME NEW g, IsGrid(g), NEW cells PROVE SameRing(g, WithCells(g, cells))
BY DEF SameRing, IsGrid, GridFields, WithCells

LEMMA WithRowSame == ASSUME NEW g, IsGrid(g), NEW row PROVE SameRing(g, WithRow(g, row))
BY WithCellsSame DEF WithRow

LEMMA CommitActiveSame == ASSUME NEW g, IsGrid(g) PROVE SameRing(g, CommitActive(g))
BY DEF SameRing, IsGrid, GridFields, CommitActive

LEMMA SyncActiveSame == ASSUME NEW g, IsGrid(g) PROVE SameRing(g, SyncActive(g))
BY DEF SameRing, IsGrid, GridFields, SyncActive

LEMMA UsedToSame == ASSUME NEW g, IsGrid(g), NEW rows PROVE SameRing(g, UsedTo(g, rows))
BY DEF SameRing, IsGrid, GridFields, UsedTo

LEMMA SaveCursorSame == ASSUME NEW g, IsGrid(g) PROVE SameRing(g, SaveCursor(g))
BY DEF SameRing, IsGrid, GridFields, SaveCursor

\* A change of the cursor, the used rows, the scroll region or the screen.
LEMMA CursorSet ==
    ASSUME NEW g, IsGrid(g), NEW x, NEW y
    PROVE  /\ SameRing(g, [g EXCEPT !.row = x])
           /\ SameRing(g, [g EXCEPT !.col = x])
           /\ SameRing(g, [g EXCEPT !.used = x])
           /\ SameRing(g, [g EXCEPT !.hung = x])
           /\ SameRing(g, [g EXCEPT !.row = x, !.used = y])
           /\ SameRing(g, [g EXCEPT !.top = x, !.bottom = y])
           /\ SameRing(g, [g EXCEPT !.usingAlternate = x])
BY DEF SameRing, IsGrid, GridFields

LEMMA ClampCursorSame == ASSUME NEW g, IsGrid(g) PROVE SameRing(g, ClampCursor(g))
<1> DEFINE r == Clamp(g.row, 0, g.rows - 1)
           c == Clamp(g.col, 0, g.cols - 1)
<1>1. ClampCursor(g) = CommitActive(MoveTo(g, r, c))
  BY DEF ClampCursor
<1> HIDE DEF r, c
<1>2. SameRing(g, MoveTo(g, r, c))
  BY MoveToSame
<1>3. QED
  BY <1>1, <1>2, SameGrid, CommitActiveSame, SameSame

LEMMA RestoreCursorSame == ASSUME NEW g, IsGrid(g) PROVE SameRing(g, RestoreCursor(g))
<1>1. SameRing(g, MoveTo(g, g.saved.row, g.saved.col))
  BY MoveToSame
<1>2. SameRing(g, ClampCursor(MoveTo(g, g.saved.row, g.saved.col)))
  BY <1>1, SameGrid, ClampCursorSame, SameSame
<1>3. QED
  BY <1>2, SameItself DEF RestoreCursor

LEMMA EnterAlternateSame ==
    ASSUME NEW g, IsGrid(g), NEW save PROVE SameRing(g, EnterAlternate(g, save))
<1> DEFINE a == IF save THEN SaveCursor(g) ELSE g
           kept == CommitActive(a)
           b == [kept EXCEPT !.alternate = BlankCells(g.rows, g.cols),
                             !.alternateKept = Kept(1, 0, 0), !.usingAlternate = TRUE]
<1>1. SameRing(g, a)
  BY SaveCursorSame, SameItself
<1>2. EnterAlternate(g, save) = ClampCursor(SyncActive(b))
  BY DEF EnterAlternate
<1> HIDE DEF a
<1>3. SameRing(g, kept)
  BY <1>1, SameGrid, CommitActiveSame, SameSame
<1> HIDE DEF kept
<1>4. SameRing(kept, b)
  BY <1>3 DEF SameRing, GridFields
<1> HIDE DEF b
<1>5. SameRing(g, SyncActive(b))
  BY <1>3, <1>4, SameGrid, SyncActiveSame, SameSame
<1>6. QED
  BY <1>2, <1>5, SameGrid, ClampCursorSame, SameSame

LEMMA LeaveAlternateSame ==
    ASSUME NEW g, IsGrid(g), NEW save PROVE SameRing(g, LeaveAlternate(g, save))
<1> DEFINE a == IF save THEN SaveCursor(g) ELSE g
           kept == CommitActive(a)
           b == [kept EXCEPT !.usingAlternate = FALSE]
           back == SyncActive(b)
           c == IF save THEN RestoreCursor(back) ELSE back
<1>1. SameRing(g, a)
  BY SaveCursorSame, SameItself
<1>2. LeaveAlternate(g, save) = ClampCursor(c)
  BY DEF LeaveAlternate
<1> HIDE DEF a
<1>3. SameRing(g, kept)
  BY <1>1, SameGrid, CommitActiveSame, SameSame
<1> HIDE DEF kept
<1>4. SameRing(kept, b)
  BY <1>3, SameGrid, CursorSet
<1> HIDE DEF b
<1>5. SameRing(g, back)
  BY <1>3, <1>4, SameGrid, SyncActiveSame, SameSame
<1> HIDE DEF back
<1>6. SameRing(g, c)
  BY <1>5, SameGrid, RestoreCursorSame, SameSame
<1> HIDE DEF c
<1>7. QED
  BY <1>2, <1>6, SameGrid, ClampCursorSame, SameSame

LEMMA SetAlternateSame ==
    ASSUME NEW g, IsGrid(g), NEW enable, NEW save
    PROVE  SameRing(g, SetAlternate(g, enable, save))
BY SameItself, EnterAlternateSame, LeaveAlternateSame DEF SetAlternate

LEMMA EraseDisplaySame ==
    ASSUME NEW g, IsGrid(g), NEW mode PROVE SameRing(g, EraseDisplay(g, mode))
<1> DEFINE cells == BlankCells(g.rows, g.cols)
<1>1. CASE mode = 2 /\ g.usingAlternate
  <2> DEFINE a == MoveTo(WithCells(g, cells), 0, 0)
             b == [a EXCEPT !.used = 1]
  <2>1. EraseDisplay(g, mode) = CommitActive(b)
    BY <1>1 DEF EraseDisplay
  <2>2. SameRing(g, a)
    BY WithCellsSame, MoveToSame, SameGrid, SameSame
  <2> HIDE DEF a
  <2>3. SameRing(a, b)
    BY <2>2, SameGrid, CursorSet
  <2> HIDE DEF b
  <2>4. QED
    BY <2>1, <2>2, <2>3, SameGrid, CommitActiveSame, SameSame
<1>2. CASE ~(mode = 2 /\ g.usingAlternate) /\ mode \in {0, 1, 2}
  <2>1. \E x : EraseDisplay(g, mode) = WithCells(g, x)
    <3>1. CASE mode = 0
      BY <3>1 DEF EraseDisplay
    <3>2. CASE mode = 1
      BY <3>2 DEF EraseDisplay
    <3>3. CASE mode = 2
      <4>1. EraseDisplay(g, mode) = WithCells(g, cells)
        BY <1>2, <3>3 DEF EraseDisplay
      <4>2. QED
        BY <4>1
    <3>4. QED
      BY <1>2, <3>1, <3>2, <3>3
  <2>2. QED
    BY <2>1, WithCellsSame
<1>3. CASE mode \notin {0, 1, 2}
  <2>1. EraseDisplay(g, mode) = g
    BY <1>3 DEF EraseDisplay
  <2>2. QED
    BY <2>1, SameItself
<1>4. QED
  BY <1>1, <1>2, <1>3

-----------------------------------------------------------------------------
(* Sequences and the ring.                                                 *)

IsSeq(s) == \E T : s \in Seq(T)

LEMMA EmptyIsSeq == IsSeq(<<>>) /\ Len(<<>>) = 0
BY EmptySeq DEF IsSeq

LEMMA AppendIsSeq ==
    ASSUME NEW s, IsSeq(s), NEW x
    PROVE  /\ IsSeq(Append(s, x)) /\ Len(s) \in Nat /\ Len(Append(s, x)) = Len(s) + 1
           /\ Append(s, x)[Len(s) + 1] = x
           /\ \A i \in 1..Len(s) : Append(s, x)[i] = s[i]
<1>1. PICK T : s \in Seq(T)
  BY DEF IsSeq
<1> DEFINE U == T \cup {x}
<1>2. s \in Seq(U) /\ x \in U
  BY <1>1, SeqMonotonic
<1> HIDE DEF U
<1>3. /\ Append(s, x) \in Seq(U) /\ Len(s) \in Nat /\ Len(Append(s, x)) = Len(s) + 1
      /\ Append(s, x)[Len(s) + 1] = x
      /\ \A i \in 1..Len(s) : Append(s, x)[i] = s[i]
  BY <1>2
<1>4. QED
  BY <1>3 DEF IsSeq

Places == 0..(ScrollbackRows - 1)

LEMMA RingWraps ==
    ASSUME NEW i \in Nat, i < 2 * ScrollbackRows
    PROVE  i % ScrollbackRows = IF i < ScrollbackRows THEN i ELSE i - ScrollbackRows
<1> DEFINE N == ScrollbackRows
<1>1. N \in Nat \ {0}
  BY GridAssumption
<1> HIDE DEF N
<1>2. i < 2 * N => i % N = IF i < N THEN i ELSE i - N
  <2>1. CASE i < N
    BY <1>1, <2>1
  <2>2. CASE ~(i < N) /\ i < 2 * N
    BY <1>1, <2>2
  <2>3. QED
    BY <2>1, <2>2
<1>3. QED
  BY <1>2 DEF N

LEMMA PlaceIs ==
    ASSUME NEW h \in Places, NEW i \in 0..ScrollbackRows
    PROVE  /\ (h + i) % ScrollbackRows \in Places
           /\ (h + i) % ScrollbackRows =
                  IF h + i < ScrollbackRows THEN h + i ELSE h + i - ScrollbackRows
<1>1. ScrollbackRows \in Nat \ {0} /\ h \in Nat /\ i \in Nat
  BY GridAssumption DEF Places
<1>2. h + i \in Nat /\ h + i < 2 * ScrollbackRows
  BY <1>1 DEF Places
<1>3. (h + i) % ScrollbackRows =
          IF h + i < ScrollbackRows THEN h + i ELSE h + i - ScrollbackRows
  <2> DEFINE x == h + i
             N == ScrollbackRows
  <2>1. x \in Nat /\ x < 2 * N /\ N \in Nat \ {0}
    BY <1>1, <1>2
  <2>2. (h + i) % N = x % N
    OBVIOUS
  <2> HIDE DEF x, N
  <2>3. CASE x < N
    <3>1. x % N = x
      BY <2>1, <2>3
    <3>2. QED
      BY <2>2, <2>3, <3>1 DEF x, N
  <2>4. CASE ~(x < N)
    <3>1. x % N = x - N
      BY <2>1, <2>4
    <3>2. (h + i) % N = x - N
      BY <2>2, <3>1
    <3>3. ~(h + i < ScrollbackRows) /\ x - N = h + i - ScrollbackRows
      BY <1>1, <2>4 DEF x, N
    <3>4. (h + i) % ScrollbackRows = h + i - ScrollbackRows
      BY <3>2, <3>3 DEF N
    <3>5. QED
      BY <3>3, <3>4
  <2>5. QED
    BY <2>3, <2>4
<1>4. QED
  BY <1>1, <1>2, <1>3 DEF Places

\* The ring holds the last rows that scrolled off; drops counts the others.
RingStands(g) ==
    /\ IsGrid(g)
    /\ g.head \in Places /\ g.count \in 0..ScrollbackRows /\ g.drops \in Nat
    /\ DOMAIN g.ring = Places /\ g.ring = [p \in Places |-> g.ring[p]]
    /\ IsSeq(g.left) /\ Len(g.left) = g.count + g.drops
    /\ \A i \in 1..g.count : g.ring[(g.head + (i - 1)) % ScrollbackRows] = g.left[g.drops + i]
    /\ g.rows \in Nat \ {0} /\ g.cols \in Nat \ {0}

LEMMA SameStands ==
    ASSUME NEW g, NEW h, RingStands(g), SameRing(g, h) PROVE RingStands(h)
BY DEF RingStands, SameRing, IsGrid

LEMMA PushStands ==
    ASSUME NEW g, RingStands(g), NEW row
    PROVE  /\ RingStands(PushScrollback(g, row))
           /\ PushScrollback(g, row).left = Append(g.left, row)
           /\ PushScrollback(g, row).drops \in Nat /\ PushScrollback(g, row).drops >= g.drops
           /\ PushScrollback(g, row).rows = g.rows /\ PushScrollback(g, row).cols = g.cols
<1> DEFINE h == PushScrollback(g, row)
           N == ScrollbackRows
           n == g.count
           d == g.drops
           left == Append(g.left, row)
<1>1. N \in Nat \ {0} /\ n \in 0..N /\ d \in Nat /\ g.head \in Places /\ Len(g.left) = n + d
      /\ DOMAIN g = GridFields /\ g.head \in 0..(N - 1)
  BY GridAssumption DEF RingStands, Places, IsGrid
<1>2. /\ IsSeq(left) /\ Len(left) = n + d + 1 /\ left[n + d + 1] = row
      /\ \A i \in 1..(n + d) : left[i] = g.left[i]
  BY <1>1, AppendIsSeq DEF RingStands
<1>3. CASE n < N
  <2> DEFINE p == (g.head + n) % N
  <2>1. /\ IsGrid(h) /\ h.head = g.head /\ h.count = n + 1 /\ h.drops = d /\ h.left = left
        /\ h.rows = g.rows /\ h.cols = g.cols /\ h.ring = [g.ring EXCEPT ![p] = row]
    BY <1>1, <1>3 DEF PushScrollback, IsGrid, GridFields
  <2>2. p \in Places
    BY <1>1, PlaceIs
  <2> HIDE DEF p
  <2>3. /\ DOMAIN h.ring = Places /\ h.ring = [q \in Places |-> h.ring[q]] /\ h.ring[p] = row
        /\ \A q \in Places : q # p => h.ring[q] = g.ring[q]
    BY <2>1, <2>2 DEF RingStands
  <2>4. ASSUME NEW i \in 1..(n + 1)
        PROVE  h.ring[(g.head + (i - 1)) % N] = left[d + i]
    <3>1. CASE i = n + 1
      <4>1. i - 1 = n /\ d + i = n + d + 1
        BY <1>1, <3>1
      <4>2. QED
        BY <1>2, <2>3, <4>1 DEF p
    <3>2. CASE i # n + 1
      <4>1. i \in 1..n /\ d + i \in 1..(n + d) /\ i - 1 \in 0..N /\ n \in 0..N /\ i - 1 # n
            /\ i - 1 < n
        BY <1>1, <3>2
      <4>2. (g.head + (i - 1)) % N \in Places /\ (g.head + (i - 1)) % N # p
        <5> DEFINE q == (g.head + (i - 1)) % N
        <5>1. q = IF g.head + (i - 1) < N THEN g.head + (i - 1) ELSE g.head + (i - 1) - N
          BY <1>1, <4>1, PlaceIs
        <5>2. p = IF g.head + n < N THEN g.head + n ELSE g.head + n - N
          BY <1>1, <4>1, PlaceIs DEF p
        <5>3. q \in Places
          BY <1>1, <4>1, PlaceIs
        <5> HIDE DEF q, n, N
        <5>4. q # p
          BY <1>1, <1>3, <4>1, <5>1, <5>2
        <5>5. QED
          BY <5>3, <5>4 DEF q
      <4>3. g.ring[(g.head + (i - 1)) % N] = g.left[d + i]
        BY <4>1 DEF RingStands
      <4>4. QED
        BY <1>2, <2>3, <4>1, <4>2, <4>3
    <3>3. QED
      BY <3>1, <3>2
  <2>5. Len(left) = (n + 1) + d /\ n + 1 \in 0..N
    BY <1>1, <1>2, <1>3
  <2> HIDE DEF h
  <2>6. RingStands(h)
    BY <1>1, <1>2, <2>1, <2>3, <2>4, <2>5 DEF RingStands
  <2>7. QED
    BY <1>1, <2>1, <2>6 DEF h
<1>4. CASE ~(n < N)
  <2> DEFINE e == (g.head + 1) % N
  <2>1. /\ IsGrid(h) /\ h.head = e /\ h.count = n /\ h.drops = d + 1 /\ h.left = left
        /\ h.rows = g.rows /\ h.cols = g.cols /\ h.ring = [g.ring EXCEPT ![g.head] = row]
    BY <1>1, <1>4 DEF PushScrollback, IsGrid, GridFields
  <2>2. e \in Places /\ e = IF g.head + 1 < N THEN g.head + 1 ELSE g.head + 1 - N
    <3>1. 1 \in 0..N
      BY <1>1
    <3>2. QED
      BY <1>1, <3>1, PlaceIs
  <2>3. /\ DOMAIN h.ring = Places /\ h.ring = [q \in Places |-> h.ring[q]] /\ h.ring[g.head] = row
        /\ \A q \in Places : q # g.head => h.ring[q] = g.ring[q]
    BY <1>1, <2>1, SMTT(30) DEF RingStands
  <2> HIDE DEF e
  <2>4. n = N
    BY <1>1, <1>4
  <2>5. ASSUME NEW i \in 1..n
        PROVE  h.ring[(e + (i - 1)) % N] = left[(d + 1) + i]
    <3> DEFINE q == (e + (i - 1)) % N
    <3>1. i - 1 \in 0..N /\ i \in 0..N
      BY <1>1, <2>4
    <3>2. q \in Places /\ q = IF e + (i - 1) < N THEN e + (i - 1) ELSE e + (i - 1) - N
      BY <2>2, <3>1, PlaceIs
    <3>3. CASE i = n
      <4>1. q = g.head /\ (d + 1) + i = n + d + 1
        <5> DEFINE p == g.head
        <5>1. N \in Nat \ {0} /\ n = N /\ i = n /\ d \in Nat /\ p \in 0..(N - 1) /\ e \in 0..(N - 1)
          BY <1>1, <2>2, <2>4, <3>3 DEF Places
        <5>2. e = IF p + 1 < N THEN p + 1 ELSE p + 1 - N
          BY <2>2
        <5>3. q = IF e + (i - 1) < N THEN e + (i - 1) ELSE e + (i - 1) - N
          BY <3>2
        <5> HIDE DEF q, N, n, d, p
        <5>4. q = p
          BY <5>1, <5>2, <5>3
        <5>5. (d + 1) + i = n + d + 1
          BY <5>1
        <5>6. QED
          BY <5>4, <5>5 DEF p
      <4>2. QED
        BY <1>2, <2>3, <4>1
    <3>4. CASE i # n
      <4>1. i + 1 \in 1..n /\ (d + 1) + i = d + (i + 1) /\ (d + 1) + i \in 1..(n + d)
            /\ (i + 1) - 1 = i
        BY <1>1, <3>4, SMTT(30)
      <4>2. (g.head + i) % N = IF g.head + i < N THEN g.head + i ELSE g.head + i - N
        BY <1>1, <3>1, PlaceIs
      <4>3. q = (g.head + i) % N /\ q # g.head
        <5> DEFINE t == (g.head + i) % N
        <5> HIDE DEF q, N, n, t
        <5>1. t = IF g.head + i < N THEN g.head + i ELSE g.head + i - N
          BY <4>2 DEF t
        <5>2. i < N /\ i >= 1
          BY <1>1, <2>4, <3>4
        <5> DEFINE p == g.head
        <5>3. N \in Nat \ {0} /\ i \in Nat /\ p \in 0..(N - 1) /\ e \in 0..(N - 1)
          BY <1>1, <2>2, <3>1 DEF Places
        <5>4. e = IF p + 1 < N THEN p + 1 ELSE p + 1 - N
          BY <2>2
        <5>5. q = IF e + (i - 1) < N THEN e + (i - 1) ELSE e + (i - 1) - N
          BY <3>2
        <5>6. t = IF p + i < N THEN p + i ELSE p + i - N
          BY <5>1
        <5> HIDE DEF p
        <5>7. q = t /\ q # p
          BY <5>2, <5>3, <5>4, <5>5, <5>6
        <5>8. QED
          BY <5>7 DEF t, p
      <4>4. g.ring[(g.head + i) % N] = g.left[d + (i + 1)]
        BY <4>1 DEF RingStands
      <4>5. QED
        BY <1>2, <2>3, <3>2, <4>1, <4>3, <4>4
    <3>5. QED
      BY <3>3, <3>4
  <2>6. Len(left) = n + (d + 1) /\ d + 1 \in Nat
    BY <1>1, <1>2
  <2> HIDE DEF h
  <2>7. RingStands(h)
    BY <1>1, <1>2, <2>1, <2>2, <2>3, <2>5, <2>6 DEF RingStands
  <2>8. QED
    BY <1>1, <2>1, <2>7 DEF h
<1>5. QED
  BY <1>3, <1>4

-----------------------------------------------------------------------------
(* Operations that may scroll.                                             *)

\* The ring stands, and what had scrolled off is still what came first.
Later(g, h) ==
    /\ RingStands(g) /\ RingStands(h)
    /\ h.rows = g.rows /\ h.cols = g.cols /\ h.drops >= g.drops
    /\ Len(h.left) >= Len(g.left)
    /\ \A i \in 1..Len(g.left) : h.left[i] = g.left[i]

LEMMA StandsGrid == ASSUME NEW g, RingStands(g) PROVE IsGrid(g)
BY DEF RingStands

LEMMA RingNumbers ==
    ASSUME NEW g, RingStands(g)
    PROVE  g.drops \in Nat /\ Len(g.left) \in Nat /\ g.count \in Nat
<1>1. g.count \in Nat /\ g.drops \in Nat
  BY GridAssumption DEF RingStands
<1>2. QED
  BY <1>1 DEF RingStands

LEMMA LaterSame == ASSUME NEW g, NEW h, RingStands(g), SameRing(g, h) PROVE Later(g, h)
<1>1. RingStands(h)
  BY SameStands
<1>2. QED
  BY <1>1, RingNumbers DEF SameRing, Later

LEMMA LaterItself == ASSUME NEW g, RingStands(g) PROVE Later(g, g)
BY StandsGrid, SameItself, LaterSame

LEMMA LaterLater ==
    ASSUME NEW g, NEW h, NEW k, Later(g, h), Later(h, k) PROVE Later(g, k)
<1>1. RingStands(g) /\ RingStands(h) /\ RingStands(k)
  BY DEF Later
<1>2. /\ g.drops \in Nat /\ h.drops \in Nat /\ k.drops \in Nat
      /\ Len(g.left) \in Nat /\ Len(h.left) \in Nat /\ Len(k.left) \in Nat
  BY <1>1, RingNumbers
<1>3. k.drops >= g.drops /\ Len(k.left) >= Len(g.left)
  BY <1>2 DEF Later
<1>4. \A i \in 1..Len(g.left) : i \in 1..Len(h.left)
  BY <1>2 DEF Later
<1>5. QED
  BY <1>1, <1>3, <1>4 DEF Later

LEMMA LaterThen ==
    ASSUME NEW g, NEW h, NEW k, Later(g, h), SameRing(h, k) PROVE Later(g, k)
<1>1. Later(h, k)
  BY LaterSame DEF Later
<1>2. QED
  BY <1>1, LaterLater

LEMMA LaterStands == ASSUME NEW g, NEW h, Later(g, h) PROVE RingStands(h)
BY DEF Later

LEMMA PushLater ==
    ASSUME NEW g, RingStands(g), NEW row PROVE Later(g, PushScrollback(g, row))
<1> DEFINE h == PushScrollback(g, row)
<1>1. /\ RingStands(h) /\ h.left = Append(g.left, row) /\ h.drops >= g.drops
      /\ h.rows = g.rows /\ h.cols = g.cols
  BY PushStands
<1> HIDE DEF h
<1>2. /\ Len(g.left) \in Nat /\ Len(h.left) = Len(g.left) + 1
      /\ \A i \in 1..Len(g.left) : h.left[i] = g.left[i]
  BY <1>1, AppendIsSeq DEF RingStands
<1>3. Len(h.left) >= Len(g.left)
  BY <1>2
<1>4. QED
  BY <1>1, <1>2, <1>3 DEF Later, h

LEMMA ScrollUpLater ==
    ASSUME NEW g, RingStands(g), NEW top, NEW bottom PROVE Later(g, ScrollUp(g, top, bottom))
<1> DEFINE p == IF ~g.usingAlternate /\ top = 0 /\ bottom = g.rows - 1
                THEN PushScrollback(g, g.primary[0]) ELSE g
           cells == Closed(Cells(g), top, bottom, 1, BlankRow(g.cols))
<1>1. ScrollUp(g, top, bottom) = UsedTo(WithCells(p, cells), bottom + 1)
  BY DEF ScrollUp
<1>2. Later(g, p)
  BY PushLater, LaterItself
<1> HIDE DEF p, cells
<1>3. Later(g, WithCells(p, cells))
  BY <1>2, LaterStands, StandsGrid, WithCellsSame, LaterThen
<1>4. QED
  BY <1>1, <1>3, LaterStands, StandsGrid, UsedToSame, LaterThen

LEMMA ScrollDownSame ==
    ASSUME NEW g, IsGrid(g), NEW top, NEW bottom PROVE SameRing(g, ScrollDown(g, top, bottom))
BY WithCellsSame, UsedToSame, SameGrid, SameSame DEF ScrollDown

LEMMA NewlineLater == ASSUME NEW g, RingStands(g) PROVE Later(g, Newline(g))
<1> DEFINE next == g.row + 1
           moved == UsedTo(MoveTo(g, next, 0), next + 1)
           Scrolled(top, bottom) ==
               [ScrollUp(moved, top, bottom) EXCEPT !.row = bottom, !.used = g.rows]
<1>1. Newline(g) \in {Scrolled(RegionTop(g), RegionBottom(g)), Scrolled(0, g.rows - 1), moved}
  BY DEF Newline
<1>2. Later(g, moved)
  <2>1. SameRing(g, MoveTo(g, next, 0))
    BY StandsGrid, MoveToSame
  <2>2. QED
    BY <2>1, UsedToSame, SameGrid, SameSame, LaterSame
<1> HIDE DEF moved
<1>3. \A top, bottom : Later(g, Scrolled(top, bottom))
  <2> TAKE top, bottom
  <2> DEFINE s == ScrollUp(moved, top, bottom)
  <2>1. Later(g, s)
    BY <1>2, LaterStands, ScrollUpLater, LaterLater
  <2> HIDE DEF s
  <2>2. SameRing(s, [s EXCEPT !.row = bottom, !.used = g.rows])
    BY <2>1, LaterStands, StandsGrid, CursorSet
  <2>3. QED
    BY <2>1, <2>2, LaterThen DEF s
<1> HIDE DEF Scrolled
<1>4. QED
  BY <1>1, <1>2, <1>3

LEMMA PutLater == ASSUME NEW g, RingStands(g), NEW ch PROVE Later(g, Put(g, ch))
<1> DEFINE row == [Cells(g)[g.row] EXCEPT ![g.col] = ch]
           u == UsedTo(WithRow(g, row), g.row + 1)
           written == [u EXCEPT !.col = u.col + 1]
<1>1. Put(g, ch) = IF written.col >= g.cols THEN Newline(written) ELSE written
  BY DEF Put
<1> HIDE DEF row
<1>2. SameRing(g, u)
  BY StandsGrid, WithRowSame, UsedToSame, SameGrid, SameSame
<1> HIDE DEF u
<1>3. SameRing(u, written)
  BY <1>2, SameGrid, CursorSet
<1> HIDE DEF written
<1>4. Later(g, written)
  BY <1>2, <1>3, SameSame, LaterSame
<1>5. QED
  BY <1>1, <1>4, LaterStands, NewlineLater, LaterLater

LEMMA TabSame == ASSUME NEW g, IsGrid(g) PROVE SameRing(g, Tab(g))
<1> DEFINE stop == ((g.col \div TabStop) + 1) * TabStop
           row == Cleared(Cells(g)[g.row], g.col, stop - 1, Blank)
           u == UsedTo(WithRow(g, row), g.row + 1)
<1>1. Tab(g) = IF stop >= g.cols THEN [g EXCEPT !.hung = TRUE] ELSE [u EXCEPT !.col = stop]
  BY DEF Tab
<1> HIDE DEF row, stop
<1>2. SameRing(g, u)
  BY WithRowSame, UsedToSame, SameGrid, SameSame
<1> HIDE DEF u
<1>3. SameRing(g, [u EXCEPT !.col = stop])
  BY <1>2, SameGrid, CursorSet, SameSame
<1>4. SameRing(g, [g EXCEPT !.hung = TRUE])
  BY CursorSet
<1>5. QED
  BY <1>1, <1>3, <1>4

LEMMA EditLinesSame ==
    ASSUME NEW g, IsGrid(g), NEW n
    PROVE  SameRing(g, EditLines(g, Opened, n)) /\ SameRing(g, EditLines(g, Closed, n))
<1> DEFINE bottom == RegionBottom(g)
           places == Lesser(n, bottom - g.row + 1)
           o == Opened(Cells(g), g.row, bottom, places, BlankRow(g.cols))
           c == Closed(Cells(g), g.row, bottom, places, BlankRow(g.cols))
<1>1. /\ EditLines(g, Opened, n) \in {g, UsedTo(WithCells(g, o), bottom + 1)}
      /\ EditLines(g, Closed, n) \in {g, UsedTo(WithCells(g, c), bottom + 1)}
  BY DEF EditLines
<1> HIDE DEF o, c, bottom
<1>2. \A cells, rows : SameRing(g, UsedTo(WithCells(g, cells), rows))
  BY WithCellsSame, UsedToSame, SameGrid, SameSame
<1>3. QED
  BY <1>1, <1>2, SameItself

LEMMA EditCharsSame ==
    ASSUME NEW g, IsGrid(g), NEW n
    PROVE  SameRing(g, EditChars(g, Opened, n)) /\ SameRing(g, EditChars(g, Closed, n))
BY WithRowSame DEF EditChars

LEMMA SetRegionSame ==
    ASSUME NEW g, IsGrid(g), NEW first, NEW last PROVE SameRing(g, SetRegion(g, first, last))
<1> DEFINE fits == first > 0 /\ first < last /\ last <= g.rows
           top == IF fits THEN first - 1 ELSE 0
           bottom == IF fits THEN last - 1 ELSE g.rows - 1
           m == MoveTo(g, 0, 0)
<1>1. SetRegion(g, first, last) = [m EXCEPT !.top = top, !.bottom = bottom]
  BY DEF SetRegion
<1>2. SameRing(g, m)
  BY MoveToSame
<1> HIDE DEF m, top, bottom
<1>3. QED
  BY <1>1, <1>2, SameGrid, CursorSet, SameSame

LEMMA ReverseIndexSame == ASSUME NEW g, IsGrid(g) PROVE SameRing(g, ReverseIndex(g))
<1> DEFINE d == ScrollDown(g, RegionTop(g), RegionBottom(g))
<1>1. ReverseIndex(g) \in {[d EXCEPT !.row = RegionTop(g)], [g EXCEPT !.row = g.row - 1]}
  BY DEF ReverseIndex
<1>2. SameRing(g, d)
  BY ScrollDownSame
<1> HIDE DEF d
<1>3. SameRing(g, [d EXCEPT !.row = RegionTop(g)])
  BY <1>2, SameGrid, CursorSet, SameSame
<1>4. SameRing(g, [g EXCEPT !.row = g.row - 1])
  BY CursorSet
<1>5. QED
  BY <1>1, <1>3, <1>4

LEMMA CsiSame ==
    ASSUME NEW g, IsGrid(g), NEW op, op.k \in CsiKinds
    PROVE  SameRing(g, Csi(g, op))
<1> DEFINE h == Csi(g, op)
           up == [g EXCEPT !.row = g.row - op.n]
           at == MoveTo(g, op.n - 1, op.m - 1)
<1>1. SameRing(g, ClampCursor(up)) /\ SameRing(g, ClampCursor(at))
  <2>1. SameRing(g, up) /\ SameRing(g, at)
    BY CursorSet, MoveToSame
  <2> HIDE DEF up, at
  <2>2. QED
    BY <2>1, SameGrid, ClampCursorSame, SameSame
<1> HIDE DEF h
<1>2. CASE op.k \in {"up", "position"}
  <2>1. h = ClampCursor(up) \/ h = ClampCursor(at)
    BY <1>2 DEF Csi, h
  <2>2. QED
    BY <1>1, <2>1 DEF h
<1>3. CASE op.k \in {"down", "line"}
  <2>1. \E x : h = [g EXCEPT !.row = x]
    BY <1>3 DEF Csi, h
  <2>2. \A x : SameRing(g, [g EXCEPT !.row = x])
    BY CursorSet
  <2>3. QED
    BY <2>1, <2>2 DEF h
<1>4. CASE op.k \in {"right", "left", "column"}
  <2>1. \E x : h = [g EXCEPT !.col = x]
    BY <1>4 DEF Csi, h
  <2>2. \A x : SameRing(g, [g EXCEPT !.col = x])
    BY CursorSet
  <2>3. QED
    BY <2>1, <2>2 DEF h
<1>5. CASE op.k \in {"nextLine", "prevLine"}
  <2>1. \E x, y : h = MoveTo(g, x, y)
    BY <1>5 DEF Csi, h
  <2>2. QED
    BY <2>1, MoveToSame DEF h
<1>6. CASE op.k \in {"insertLines", "deleteLines"}
  <2>1. h = EditLines(g, Opened, op.n) \/ h = EditLines(g, Closed, op.n)
    BY <1>6 DEF Csi, h
  <2>2. QED
    BY <2>1, EditLinesSame DEF h
<1>7. CASE op.k \in {"insertChars", "deleteChars"}
  <2>1. h = EditChars(g, Opened, op.n) \/ h = EditChars(g, Closed, op.n)
    BY <1>7 DEF Csi, h
  <2>2. QED
    BY <2>1, EditCharsSame DEF h
<1>8. CASE op.k \in {"eraseChars", "eraseLine"}
  <2>1. h = g \/ \E row : h = WithRow(g, row)
    BY <1>8 DEF Csi, EraseLine, h
  <2>2. QED
    BY <2>1, SameItself, WithRowSame DEF h
<1>9. CASE op.k = "eraseDisplay"
  <2>1. h = EraseDisplay(g, op.n)
    BY <1>9 DEF Csi, h
  <2>2. QED
    BY <2>1, EraseDisplaySame DEF h
<1>10. CASE op.k = "region"
  <2>1. h = SetRegion(g, op.n, op.m)
    BY <1>10 DEF Csi, h
  <2>2. QED
    BY <2>1, SetRegionSame DEF h
<1>11. QED
  BY <1>2, <1>3, <1>4, <1>5, <1>6, <1>7, <1>8, <1>9, <1>10 DEF CsiKinds

LEMMA InterpretLater ==
    ASSUME NEW g, RingStands(g), NEW op, IsOperation(op) PROVE Later(g, Interpret(g, op))
<1> DEFINE h == Interpret(g, op)
<1>1. IsGrid(g)
  BY StandsGrid
<1> HIDE DEF h
<1>2. CASE g.hung
  <2>1. h = g
    BY <1>2 DEF Interpret, h
  <2>2. QED
    BY <2>1, LaterItself DEF h
<1>3. CASE ~g.hung /\ op.k \in CsiKinds
  <2> DEFINE c == Csi(g, op)
  <2>1. h = UsedTo(c, c.row + 1)
    BY <1>3 DEF Interpret, h, CsiKinds
  <2>2. SameRing(g, c)
    BY <1>1, <1>3, CsiSame
  <2> HIDE DEF c
  <2>3. QED
    BY <2>1, <2>2, UsedToSame, SameGrid, SameSame, LaterSame DEF h
<1>4. CASE ~g.hung /\ op.k \in PlainKinds
  <2>1. CASE op.k \in {"put", "newline"}
    <3>1. h = Put(g, op.ch) \/ h = Newline(g)
      BY <1>4, <2>1 DEF Interpret, h, CsiKinds
    <3>2. QED
      BY <3>1, PutLater, NewlineLater DEF h
  <2>2. CASE op.k \in {"return", "back"}
    <3>1. \E x : h = [g EXCEPT !.col = x]
      BY <1>4, <2>2 DEF Interpret, h, CsiKinds
    <3>2. \A x : SameRing(g, [g EXCEPT !.col = x])
      BY <1>1, CursorSet
    <3>3. QED
      BY <3>1, <3>2, LaterSame DEF h
  <2>3. CASE op.k \in {"tab", "reverseIndex", "saveCursor", "restoreCursor"}
    <3>1. h \in {Tab(g), ReverseIndex(g), SaveCursor(g), RestoreCursor(g)}
      BY <1>4, <2>3 DEF Interpret, h, CsiKinds
    <3>2. QED
      BY <1>1, <3>1, TabSame, ReverseIndexSame, SaveCursorSame, RestoreCursorSame, LaterSame
         DEF h
  <2>4. CASE op.k = "alternate"
    <3>1. h = SetAlternate(g, op.n = 1, op.m = 1049)
      BY <1>4, <2>4 DEF Interpret, h, CsiKinds
    <3>2. QED
      BY <1>1, <3>1, SetAlternateSame, LaterSame DEF h
  <2>5. QED
    BY <1>4, <2>1, <2>2, <2>3, <2>4 DEF PlainKinds
<1>5. QED
  BY <1>2, <1>3, <1>4 DEF IsOperation

-----------------------------------------------------------------------------
(* What is fed, the new and the cleared grid.                              *)

\* Induction over the natural numbers, for a set in place of a predicate.
LEMMA Induction ==
    ASSUME NEW S, 0 \in S, \A n \in Nat : n \in S => n + 1 \in S
    PROVE  Nat \subseteq S
<1> DEFINE R == {p \in Nat \X Nat : p[1] < p[2]}
           T == Nat \ S
<1>1. OpToRel(<, Nat) = R
  BY DEF OpToRel
<1>2. IsWellFoundedOn(R, Nat)
  BY <1>1, NatLessThanWellFounded
<1>3. SUFFICES ASSUME T # {} PROVE FALSE
  OBVIOUS
<1> HIDE DEF R
<1>4. PICK x \in T : \A y \in T : ~ (<<y, x>> \in R)
  BY <1>2, <1>3, WFMin
<1>5. x \in Nat /\ x # 0
  OBVIOUS
<1>6. x - 1 \in Nat /\ x - 1 < x /\ (x - 1) + 1 = x
  BY <1>5
<1>7. x - 1 \in T
  BY <1>6
<1>8. QED
  BY <1>4, <1>6, <1>7 DEF R

FedUpTo(g, ops, m, f) ==
    f = [n \in 0..m |-> IF n = 0 THEN g ELSE Interpret(f[n - 1], ops[n])]

\* The function that FeedGrid folds with exists.
LEMMA FedExists ==
    ASSUME NEW g, NEW ops
    PROVE  \A m \in Nat : \E f : FedUpTo(g, ops, m, f)
<1> DEFINE S == {m \in Nat : \E f : FedUpTo(g, ops, m, f)}
<1>1. 0 \in S
  <2> DEFINE f == [n \in 0..0 |-> g]
  <2>1. FedUpTo(g, ops, 0, f)
    BY DEF FedUpTo
  <2>2. QED
    BY <2>1
<1>2. ASSUME NEW m \in Nat, m \in S PROVE m + 1 \in S
  <2>1. PICK f : FedUpTo(g, ops, m, f)
    BY <1>2
  <2> DEFINE last == Interpret(f[m], ops[m + 1])
             h == [n \in 0..(m + 1) |-> IF n = m + 1 THEN last ELSE f[n]]
  <2> HIDE DEF last
  <2>2. ASSUME NEW n \in 0..(m + 1)
        PROVE  h[n] = IF n = 0 THEN g ELSE Interpret(h[n - 1], ops[n])
    <3>1. CASE n = m + 1
      <4>1. n # 0 /\ n - 1 = m /\ n - 1 \in 0..(m + 1) /\ n - 1 # m + 1
        BY <3>1
      <4>2. h[n] = last /\ h[n - 1] = f[m]
        BY <3>1, <4>1
      <4>3. QED
        BY <3>1, <4>1, <4>2 DEF last
    <3>2. CASE n # m + 1
      <4>1. n \in 0..m /\ (n # 0 => n - 1 \in 0..(m + 1) /\ n - 1 # m + 1)
        BY <3>2
      <4>2. h[n] = f[n] /\ (n # 0 => h[n - 1] = f[n - 1])
        BY <3>2, <4>1
      <4>3. f[n] = IF n = 0 THEN g ELSE Interpret(f[n - 1], ops[n])
        BY <2>1, <4>1 DEF FedUpTo
      <4>4. QED
        BY <4>2, <4>3
    <3>3. QED
      BY <3>1, <3>2
  <2>3. FedUpTo(g, ops, m + 1, h)
    BY <2>2 DEF FedUpTo
  <2>4. QED
    BY <2>3
<1> HIDE DEF S
<1>3. Nat \subseteq S
  BY <1>1, <1>2, Induction
<1>4. QED
  BY <1>3 DEF S

LEMMA FeedLater ==
    ASSUME NEW g, RingStands(g), NEW ops, AreOperations(ops)
    PROVE  Later(g, FeedGrid(g, ops))
<1> DEFINE m == Len(ops)
           f == CHOOSE h : FedUpTo(g, ops, m, h)
           S == {n \in Nat : n <= m => Later(g, f[n])}
<1>1. m \in Nat /\ \A i \in 1..m : IsOperation(ops[i])
  BY DEF AreOperations
<1>2. FeedGrid(g, ops) = f[m]
  BY DEF FeedGrid, Folded, FedUpTo
<1>3. FedUpTo(g, ops, m, f)
  BY <1>1, FedExists
<1> HIDE DEF f, m
<1>4. /\ f[0] = g
      /\ \A n \in 0..m : n # 0 => f[n] = Interpret(f[n - 1], ops[n])
  BY <1>1, <1>3 DEF FedUpTo
<1>5. 0 \in S
  BY <1>4, LaterItself
<1>6. ASSUME NEW n \in Nat, n \in S PROVE n + 1 \in S
  <2>1. SUFFICES ASSUME n + 1 <= m PROVE Later(g, f[n + 1])
    OBVIOUS
  <2>2. n <= m /\ n + 1 \in 0..m /\ n + 1 # 0 /\ (n + 1) - 1 = n /\ n + 1 \in 1..m
    BY <1>1, <2>1
  <2>3. Later(g, f[n]) /\ f[n + 1] = Interpret(f[n], ops[n + 1]) /\ IsOperation(ops[n + 1])
    BY <1>1, <1>4, <1>6, <2>2
  <2>4. QED
    BY <2>3, LaterStands, InterpretLater, LaterLater
<1> HIDE DEF S
<1>7. m \in S
  BY <1>1, <1>5, <1>6, Induction
<1>8. QED
  BY <1>1, <1>2, <1>7 DEF S

LEMMA NewStands ==
    ASSUME NEW rows \in Nat \ {0}, NEW cols \in Nat \ {0}
    PROVE  LET g == NewGrid(rows, cols)
           IN RingStands(g) /\ g.left = <<>> /\ g.rows = rows /\ g.cols = cols /\ g.drops = 0
<1> DEFINE g == NewGrid(rows, cols)
<1>1. /\ IsGrid(g) /\ g.rows = rows /\ g.cols = cols /\ g.head = 0 /\ g.count = 0 /\ g.drops = 0
      /\ g.left = <<>> /\ g.ring = [i \in Places |-> BlankRow(cols)]
  BY DEF NewGrid, IsGrid, GridFields, Places
<1> HIDE DEF g
<1>2. ScrollbackRows \in Nat \ {0} /\ 0 \in Places /\ 0 \in 0..ScrollbackRows
  BY GridAssumption DEF Places
<1>3. DOMAIN g.ring = Places /\ g.ring = [p \in Places |-> g.ring[p]]
  BY <1>1
<1>4. RingStands(g)
  BY <1>1, <1>2, <1>3, EmptyIsSeq DEF RingStands
<1>5. QED
  BY <1>1, <1>4 DEF g

LEMMA ClearStands ==
    ASSUME NEW g, RingStands(g)
    PROVE  LET h == ClearGrid(g)
           IN /\ RingStands(h) /\ h.left = <<>> /\ h.drops = 0
              /\ h.rows = g.rows /\ h.cols = g.cols
<1> DEFINE a == MoveTo(WithCells(g, BlankCells(g.rows, g.cols)), 0, 0)
           b == [a EXCEPT !.used = 1, !.head = 0, !.count = 0, !.drops = 0, !.left = <<>>]
           h == ClearGrid(g)
<1>1. h = CommitActive(b)
  BY DEF ClearGrid
<1>2. SameRing(g, a)
  BY StandsGrid, WithCellsSame, MoveToSame, SameGrid, SameSame
<1> HIDE DEF a, h
<1>3. /\ IsGrid(b) /\ b.rows = g.rows /\ b.cols = g.cols /\ b.ring = g.ring
      /\ b.head = 0 /\ b.count = 0 /\ b.drops = 0 /\ b.left = <<>>
  BY <1>2 DEF SameRing, IsGrid, GridFields
<1> HIDE DEF b
<1>4. ScrollbackRows \in Nat \ {0} /\ 0 \in Places /\ 0 \in 0..ScrollbackRows
  BY GridAssumption DEF Places
<1>5. RingStands(b)
  BY <1>3, <1>4, EmptyIsSeq DEF RingStands
<1>6. SameRing(b, h)
  BY <1>1, <1>3, CommitActiveSame
<1>7. RingStands(h) /\ h.left = <<>> /\ h.drops = 0 /\ h.rows = g.rows /\ h.cols = g.cols
  BY <1>3, <1>5, <1>6, SameStands DEF SameRing
<1>8. QED
  BY <1>7 DEF h

-----------------------------------------------------------------------------
(* A resize lays the ring out anew.                                        *)

Fitted(s, cols) == [i \in DOMAIN s |-> Fit(s[i], cols)]

LEMMA FittedIsSeq ==
    ASSUME NEW s, IsSeq(s), NEW cols
    PROVE  /\ IsSeq(Fitted(s, cols)) /\ Len(Fitted(s, cols)) = Len(s)
           /\ \A i \in 1..Len(s) : Fitted(s, cols)[i] = Fit(s[i], cols)
<1> DEFINE f == Fitted(s, cols)
           n == Len(s)
<1>1. n \in Nat /\ DOMAIN s = 1..n
  BY LenProperties DEF IsSeq
<1>2. f = [i \in 1..n |-> Fit(s[i], cols)]
  BY <1>1 DEF Fitted
<1> HIDE DEF f, n
<1> DEFINE T == {f[i] : i \in 1..n}
<1>3. f \in [1..n -> T]
  BY <1>2
<1> HIDE DEF T
<1>4. f \in Seq(T) /\ Len(f) = n
  BY <1>1, <1>3
<1>5. QED
  BY <1>2, <1>4 DEF IsSeq, f, n

LEMMA RefitStands ==
    ASSUME NEW g, RingStands(g), NEW cols
    PROVE  LET r == RefitRing(g, cols)
           IN /\ IsGrid(r) /\ r.head \in Places /\ r.count = g.count /\ r.drops = g.drops
              /\ r.left = IF cols = g.cols THEN g.left ELSE Fitted(g.left, cols)
              /\ DOMAIN r.ring = Places /\ r.ring = [p \in Places |-> r.ring[p]]
              /\ \A i \in 1..r.count :
                     r.ring[(r.head + (i - 1)) % ScrollbackRows] = r.left[r.drops + i]
<1> DEFINE r == RefitRing(g, cols)
<1> HIDE DEF r
<1>1. CASE cols = g.cols
  <2>1. r = g
    BY <1>1 DEF RefitRing, r
  <2>2. QED
    BY <1>1, <2>1 DEF RingStands, r
<1>2. CASE cols # g.cols
  <2> DEFINE ring == [i \in 0..(ScrollbackRows - 1) |->
                          IF i < g.count THEN Fit(Scrollback(g)[i + 1], cols)
                          ELSE BlankRow(cols)]
             left == Fitted(g.left, cols)
  <2>1. /\ IsGrid(r) /\ r.head = 0 /\ r.count = g.count /\ r.drops = g.drops
        /\ r.left = left /\ r.ring = ring
    BY <1>2 DEF RefitRing, r, RingStands, IsGrid, GridFields, Fitted
  <2>2. /\ ScrollbackRows \in Nat \ {0} /\ g.count \in 0..ScrollbackRows /\ g.drops \in Nat
        /\ g.head \in Places /\ g.head \in Nat /\ 0 \in Places
        /\ IsSeq(g.left) /\ Len(g.left) = g.count + g.drops
    BY GridAssumption DEF RingStands, Places
  <2>3. DOMAIN ring = Places /\ ring = [p \in Places |-> ring[p]]
    BY DEF Places
  <2>4. \A i \in 1..(g.count + g.drops) : left[i] = Fit(g.left[i], cols)
    BY <2>2, FittedIsSeq
  <2> HIDE DEF left
  <2>5. ASSUME NEW i \in 1..g.count
        PROVE  ring[(0 + (i - 1)) % ScrollbackRows] = left[g.drops + i]
    <3>1. /\ i - 1 \in 0..ScrollbackRows /\ 0 + (i - 1) = i - 1 /\ i - 1 < ScrollbackRows
          /\ i - 1 < g.count /\ (i - 1) + 1 = i /\ g.drops + i \in 1..(g.count + g.drops)
          /\ g.head + i - 1 = g.head + (i - 1) /\ i - 1 \in 0..(ScrollbackRows - 1)
      BY <2>2
    <3>2. (0 + (i - 1)) % ScrollbackRows = i - 1
      BY <2>2, <3>1, PlaceIs
    <3>3. ring[i - 1] = Fit(Scrollback(g)[i], cols)
      BY <3>1
    <3>4. Scrollback(g)[i] = g.ring[(g.head + i - 1) % ScrollbackRows]
      BY DEF Scrollback
    <3>5. Scrollback(g)[i] = g.ring[(g.head + (i - 1)) % ScrollbackRows]
      BY <3>1, <3>4
    <3>6. g.ring[(g.head + (i - 1)) % ScrollbackRows] = g.left[g.drops + i]
      BY DEF RingStands
    <3>7. left[g.drops + i] = Fit(g.left[g.drops + i], cols)
      BY <2>4, <3>1
    <3> HIDE DEF ring
    <3>8. QED
      BY <3>2, <3>3, <3>5, <3>6, <3>7
  <2> HIDE DEF ring
  <2>6. QED
    BY <1>2, <2>1, <2>2, <2>3, <2>5 DEF left, r
<1>3. QED
  BY <1>1, <1>2

LEMMA ResizeStands ==
    ASSUME NEW g, RingStands(g), NEW rows \in Nat \ {0}, NEW cols \in Nat \ {0}
    PROVE  LET h == ResizeGrid(g, rows, cols)
           IN /\ RingStands(h) /\ h.rows = rows /\ h.cols = cols /\ h.drops = g.drops
              /\ h.left = IF cols = g.cols THEN g.left ELSE Fitted(g.left, cols)
<1> DEFINE h == ResizeGrid(g, rows, cols)
           r == RefitRing(g, cols)
           left == IF cols = g.cols THEN g.left ELSE Fitted(g.left, cols)
<1>1. \E a, b, c, d, e, f, u :
          LET laid == [r EXCEPT !.rows = rows, !.cols = cols,
                           !.primary = a, !.primaryKept = b,
                           !.alternate = c, !.alternateKept = d,
                           !.top = e, !.bottom = f]
          IN h = CommitActive([SyncActive(laid) EXCEPT !.used = u])
  <2> DEFINE primary == PreservedTail(g.primary, g.rows, rows, cols, g.primaryKept)
             alternate == IF g.alternate = <<>>
                          THEN [cells |-> <<>>, kept |-> Kept(1, 0, 0)]
                          ELSE PreservedTail(g.alternate, g.rows, rows, cols, g.alternateKept)
             regionFits == g.bottom \in g.top..(rows - 1)
             a == primary.cells
             b == primary.kept
             c == alternate.cells
             d == alternate.kept
             e == IF regionFits THEN r.top ELSE 0
             f == IF regionFits THEN r.bottom ELSE rows - 1
             laid == [r EXCEPT !.rows = rows, !.cols = cols,
                          !.primary = a, !.primaryKept = b,
                          !.alternate = c, !.alternateKept = d,
                          !.top = e, !.bottom = f]
             synced == SyncActive(laid)
             u == Greater(Clamp(synced.used, 1, rows), synced.row + 1)
  <2>1. h = CommitActive([synced EXCEPT !.used = u])
    BY DEF ResizeGrid
  <2> HIDE DEF h, a, b, c, d, e, f, u, r
  <2>2. QED
    BY <2>1
<1>2. PICK a, b, c, d, e, f, u :
          LET laid == [r EXCEPT !.rows = rows, !.cols = cols,
                           !.primary = a, !.primaryKept = b,
                           !.alternate = c, !.alternateKept = d,
                           !.top = e, !.bottom = f]
          IN h = CommitActive([SyncActive(laid) EXCEPT !.used = u])
  BY <1>1
<1> DEFINE laid == [r EXCEPT !.rows = rows, !.cols = cols,
                        !.primary = a, !.primaryKept = b,
                        !.alternate = c, !.alternateKept = d,
                        !.top = e, !.bottom = f]
           synced == SyncActive(laid)
           last == [synced EXCEPT !.used = u]
<1>3. h = CommitActive(last)
  BY <1>2
<1>4. /\ IsGrid(r) /\ r.head \in Places /\ r.count = g.count /\ r.drops = g.drops
      /\ r.left = left
      /\ DOMAIN r.ring = Places /\ r.ring = [p \in Places |-> r.ring[p]]
      /\ \A i \in 1..r.count :
             r.ring[(r.head + (i - 1)) % ScrollbackRows] = r.left[r.drops + i]
  BY RefitStands
<1>5. IsSeq(left) /\ Len(left) = g.count + g.drops
  BY FittedIsSeq DEF RingStands
<1> HIDE DEF r, left, h
<1>6. /\ IsGrid(laid) /\ laid.rows = rows /\ laid.cols = cols /\ laid.ring = r.ring
      /\ laid.head = r.head /\ laid.count = r.count /\ laid.drops = r.drops /\ laid.left = r.left
  BY <1>4 DEF IsGrid, GridFields
<1> HIDE DEF laid
<1>7. g.count \in 0..ScrollbackRows /\ g.drops \in Nat
  BY DEF RingStands
<1>8. RingStands(laid)
  BY <1>4, <1>5, <1>6, <1>7 DEF RingStands
<1>9. SameRing(laid, synced)
  BY <1>6, SyncActiveSame
<1> HIDE DEF synced
<1>10. SameRing(laid, last)
  BY <1>9, SameGrid, CursorSet, SameSame
<1> HIDE DEF last
<1>11. SameRing(laid, h)
  BY <1>3, <1>10, SameGrid, CommitActiveSame, SameSame
<1>12. /\ RingStands(h) /\ h.rows = rows /\ h.cols = cols /\ h.drops = g.drops
       /\ h.left = left
  BY <1>4, <1>6, <1>8, <1>11, SameStands DEF SameRing
<1>13. QED
  BY <1>12 DEF h, left

-----------------------------------------------------------------------------
(* More about sequences.                                                   *)

LEMMA FunctionIsSeq ==
    ASSUME NEW n \in Nat, NEW f, f = [i \in 1..n |-> f[i]]
    PROVE  IsSeq(f) /\ Len(f) = n
<1> DEFINE T == {f[i] : i \in 1..n}
<1>1. f \in [1..n -> T]
  OBVIOUS
<1> HIDE DEF T
<1>2. f \in Seq(T) /\ Len(f) = n
  BY <1>1
<1>3. QED
  BY <1>2 DEF IsSeq

LEMMA SeqLen == ASSUME NEW s, IsSeq(s) PROVE Len(s) \in Nat /\ DOMAIN s = 1..Len(s)
BY LenProperties DEF IsSeq

LEMMA SeqSame ==
    ASSUME NEW s, NEW t, IsSeq(s), IsSeq(t), Len(s) = Len(t),
           \A i \in 1..Len(s) : s[i] = t[i]
    PROVE  s = t
<1>1. PICK S, T : s \in Seq(S) /\ t \in Seq(T)
  BY DEF IsSeq
<1> DEFINE U == S \cup T
<1>2. s \in Seq(U) /\ t \in Seq(U)
  BY <1>1, SeqMonotonic
<1> HIDE DEF U
<1>3. QED
  BY <1>2, SeqEqual

LEMMA PartIsSeq ==
    ASSUME NEW s, NEW m \in Int, NEW n \in Int
    PROVE  /\ IsSeq(SubSeq(s, m, n)) /\ Len(SubSeq(s, m, n)) = (IF m <= n THEN n - m + 1 ELSE 0)
           /\ \A i \in 1..(n - m + 1) : SubSeq(s, m, n)[i] = s[m + i - 1]
<1> DEFINE T == {s[i] : i \in m..n}
<1>1. \A i \in m..n : s[i] \in T
  OBVIOUS
<1> HIDE DEF T
<1>2. QED
  BY <1>1, SubSeqProperties DEF IsSeq

LEMMA TwoIsSeq ==
    ASSUME NEW s, NEW t, IsSeq(s), IsSeq(t)
    PROVE  /\ IsSeq(s \o t) /\ Len(s \o t) = Len(s) + Len(t)
           /\ \A i \in 1..(Len(s) + Len(t)) :
                  (s \o t)[i] = IF i <= Len(s) THEN s[i] ELSE t[i - Len(s)]
<1>1. PICK S, T : s \in Seq(S) /\ t \in Seq(T)
  BY DEF IsSeq
<1> DEFINE U == S \cup T
<1>2. s \in Seq(U) /\ t \in Seq(U)
  BY <1>1, SeqMonotonic
<1> HIDE DEF U
<1>3. QED
  BY <1>2, ConcatProperties DEF IsSeq

LEMMA OneIsSeq == ASSUME NEW x PROVE IsSeq(<<x>>) /\ Len(<<x>>) = 1 /\ <<x>>[1] = x
<1>1. <<x>> \in Seq({x})
  OBVIOUS
<1>2. QED
  BY <1>1 DEF IsSeq

LEMMA InsertIsSeq ==
    ASSUME NEW s, IsSeq(s), NEW i \in 1..(Len(s) + 1), NEW x
    PROVE  /\ IsSeq(InsertAt(s, i, x)) /\ Len(InsertAt(s, i, x)) = Len(s) + 1
           /\ \A k \in 1..(i - 1) : InsertAt(s, i, x)[k] = s[k]
           /\ InsertAt(s, i, x)[i] = x
<1> DEFINE n == Len(s)
           a == SubSeq(s, 1, i - 1)
           b == SubSeq(s, i, n)
           c == a \o <<x>>
           d == c \o b
<1>1. n \in Nat /\ i \in Nat /\ i >= 1 /\ i <= n + 1
  BY SeqLen
<1>2. InsertAt(s, i, x) = d
  BY DEF InsertAt
<1> HIDE DEF n
<1>3. 1 \in Int /\ i \in Int /\ i - 1 \in Int /\ n \in Int
  BY <1>1
<1>4. /\ IsSeq(a) /\ Len(a) = (IF 1 <= i - 1 THEN (i - 1) - 1 + 1 ELSE 0)
      /\ \A k \in 1..((i - 1) - 1 + 1) : a[k] = s[1 + k - 1]
  BY <1>3, PartIsSeq
<1>5. IsSeq(b) /\ Len(b) = (IF i <= n THEN n - i + 1 ELSE 0)
  BY <1>3, PartIsSeq
<1>6. /\ (IF 1 <= i - 1 THEN (i - 1) - 1 + 1 ELSE 0) = i - 1 /\ (i - 1) - 1 + 1 = i - 1
      /\ (IF i <= n THEN n - i + 1 ELSE 0) = n - i + 1
      /\ \A k \in 1..(i - 1) : 1 + k - 1 = k
  BY <1>1
<1>7. Len(a) = i - 1 /\ Len(b) = n - i + 1 /\ \A k \in 1..(i - 1) : a[k] = s[k]
  BY <1>4, <1>5, <1>6
<1> HIDE DEF a, b
<1>8. /\ IsSeq(c) /\ Len(c) = (i - 1) + 1
      /\ \A k \in 1..((i - 1) + 1) : c[k] = IF k <= i - 1 THEN a[k] ELSE <<x>>[k - (i - 1)]
  <2>1. IsSeq(<<x>>) /\ Len(<<x>>) = 1
    BY OneIsSeq
  <2>2. /\ IsSeq(c) /\ Len(c) = Len(a) + Len(<<x>>)
        /\ \A k \in 1..(Len(a) + Len(<<x>>)) :
               c[k] = IF k <= Len(a) THEN a[k] ELSE <<x>>[k - Len(a)]
    BY <1>4, <2>1, TwoIsSeq
  <2>3. QED
    BY <1>7, <2>1, <2>2
<1>9. (i - 1) + 1 = i
  BY <1>1
<1>10. Len(c) = i /\ (\A k \in 1..(i - 1) : c[k] = s[k]) /\ c[i] = x
  <2>1. ASSUME NEW k \in 1..(i - 1) PROVE c[k] = s[k]
    <3>1. k \in 1..((i - 1) + 1) /\ k <= i - 1
      BY <1>1
    <3>2. QED
      BY <1>7, <1>8, <3>1
  <2>2. c[i] = x
    <3>1. i \in 1..((i - 1) + 1) /\ ~(i <= i - 1) /\ i - (i - 1) = 1
      BY <1>1
    <3>2. QED
      BY <1>8, <3>1, OneIsSeq
  <2>3. QED
    BY <1>8, <1>9, <2>1, <2>2
<1> HIDE DEF c
<1>11. /\ IsSeq(d) /\ Len(d) = i + (n - i + 1)
       /\ \A k \in 1..(i + (n - i + 1)) : d[k] = IF k <= i THEN c[k] ELSE b[k - i]
  <2>1. /\ IsSeq(d) /\ Len(d) = Len(c) + Len(b)
        /\ \A k \in 1..(Len(c) + Len(b)) : d[k] = IF k <= Len(c) THEN c[k] ELSE b[k - Len(c)]
    BY <1>5, <1>8, TwoIsSeq
  <2>2. QED
    BY <1>7, <1>10, <2>1
<1> HIDE DEF d
<1>12. /\ i + (n - i + 1) = n + 1 /\ i \in 1..(i + (n - i + 1))
       /\ \A k \in 1..(i - 1) : k \in 1..(i + (n - i + 1)) /\ k <= i
  BY <1>1
<1>13. IsSeq(d) /\ Len(d) = n + 1 /\ (\A k \in 1..(i - 1) : d[k] = s[k]) /\ d[i] = x
  BY <1>1, <1>10, <1>11, <1>12
<1>14. QED
  BY <1>2, <1>13 DEF n

-----------------------------------------------------------------------------
(* What a journal keeps.                                                   *)

JournalFields == {"cols", "rows", "durable", "live", "pending", "seen", "drops"}

\* Every row is durable or live, some may be both.
JournalStands(j) ==
    /\ DOMAIN j = JournalFields
    /\ IsSeq(j.rows) /\ Len(j.rows) <= ScrollbackRows
    /\ j.durable \in 0..Len(j.rows) /\ j.live \in 0..Len(j.rows)
    /\ Len(j.rows) <= j.durable + j.live
    /\ IsSeq(j.pending) /\ j.seen \in Nat /\ j.drops \in Nat

\* k is j with a row inserted; the oldest row went if there was no room.
Inserted(j, k, index, row) ==
    LET full == Len(j.rows) = ScrollbackRows
        place == IF full THEN Greater(index - 1, 0) ELSE index
    IN /\ DOMAIN k = JournalFields
       /\ k.cols = j.cols /\ k.pending = j.pending /\ k.seen = j.seen
       /\ IsSeq(k.rows) /\ Len(k.rows) = IF full THEN ScrollbackRows ELSE Len(j.rows) + 1
       /\ k.drops = IF full THEN j.drops + 1 ELSE j.drops
       /\ k.durable = IF full THEN Greater(j.durable - 1, 0) ELSE j.durable
       /\ k.live = IF full THEN j.live - Greater(1 - j.durable, 0) ELSE j.live
       /\ place \in Nat /\ place + 1 <= Len(k.rows)
       /\ \A i \in 1..place : k.rows[i] = j.rows[IF full THEN i + 1 ELSE i]
       /\ k.rows[place + 1] = row

LEMMA InsertRowIs ==
    ASSUME NEW j, JournalStands(j), NEW index \in 0..Len(j.rows), NEW row
    PROVE  Inserted(j, InsertRow(j, index, row), index, row)
<1> DEFINE k == InsertRow(j, index, row)
           n == Len(j.rows)
           N == ScrollbackRows
           cut == SubSeq(j.rows, 2, n)
<1>1. /\ DOMAIN j = JournalFields /\ IsSeq(j.rows) /\ n \in Nat /\ n <= N /\ N \in Nat \ {0, 1}
      /\ index \in Nat /\ index <= n
  BY SeqLen, GridAssumption DEF JournalStands
<1>2. CASE n = N
  <2> DEFINE place == Greater(index - 1, 0)
             room == DropFront(j, 1)
  <2>1. k = [room EXCEPT !.rows = InsertAt(room.rows, place + 1, row)]
    BY <1>2 DEF InsertRow
  <2>2. /\ DOMAIN room = JournalFields
        /\ room.cols = j.cols /\ room.pending = j.pending /\ room.seen = j.seen
        /\ room.rows = SubSeq(j.rows, 1 + 1, Len(j.rows)) /\ room.drops = j.drops + 1
        /\ room.durable = Greater(j.durable - 1, 0)
        /\ room.live = j.live - Greater(1 - j.durable, 0)
    BY <1>1 DEF DropFront, JournalFields
  <2>3. room.rows = cut
    BY <2>2
  <2> HIDE DEF room, k, place
  <2>4. place \in Nat /\ place <= N - 1 /\ place + 1 \in 1..((N - 1) + 1) /\ (place + 1) - 1 = place
        /\ place + 1 <= N
    <3>1. N \in Nat \ {0, 1} /\ index \in Nat /\ index <= N
      BY <1>1, <1>2
    <3> HIDE DEF N
    <3>2. QED
      BY <3>1 DEF place, Greater
  <2>5. /\ IsSeq(cut) /\ Len(cut) = N - 1
        /\ \A i \in 1..(N - 1) : cut[i] = j.rows[i + 1]
    <3>1. 2 \in Int /\ n \in Int
      BY <1>1
    <3> HIDE DEF n, N
    <3>2. /\ IsSeq(cut) /\ Len(cut) = (IF 2 <= n THEN n - 2 + 1 ELSE 0)
          /\ \A i \in 1..(n - 2 + 1) : cut[i] = j.rows[2 + i - 1]
      BY <3>1, PartIsSeq
    <3>3. (IF 2 <= n THEN n - 2 + 1 ELSE 0) = N - 1 /\ n - 2 + 1 = N - 1
          /\ \A i \in 1..(N - 1) : 2 + i - 1 = i + 1
      BY <1>1, <1>2
    <3>4. QED
      BY <3>2, <3>3
  <2> HIDE DEF cut
  <2> DEFINE after == InsertAt(cut, place + 1, row)
  <2>6. /\ IsSeq(after) /\ Len(after) = (N - 1) + 1 /\ after[place + 1] = row
        /\ \A i \in 1..((place + 1) - 1) : after[i] = cut[i]
    BY <2>4, <2>5, InsertIsSeq
  <2>7. (N - 1) + 1 = N /\ \A i \in 1..place : i \in 1..(N - 1)
    BY <1>1, <2>4
  <2> HIDE DEF after
  <2>8. /\ DOMAIN k = JournalFields /\ k.rows = after
        /\ k.cols = j.cols /\ k.pending = j.pending /\ k.seen = j.seen
        /\ k.drops = j.drops + 1 /\ k.durable = Greater(j.durable - 1, 0)
        /\ k.live = j.live - Greater(1 - j.durable, 0)
    BY <2>1, <2>2, <2>3 DEF JournalFields, after
  <2>9. \A i \in 1..place : after[i] = j.rows[i + 1]
    BY <2>4, <2>5, <2>6, <2>7
  <2>10. QED
    BY <1>2, <2>4, <2>6, <2>7, <2>8, <2>9 DEF Inserted, k, place
<1>3. CASE n # N
  <2>1. k = [j EXCEPT !.rows = InsertAt(j.rows, index + 1, row)]
    BY <1>3 DEF InsertRow
  <2> HIDE DEF k
  <2> DEFINE after == InsertAt(j.rows, index + 1, row)
  <2>2. index + 1 \in 1..(n + 1) /\ (index + 1) - 1 = index /\ index + 1 <= n + 1
    BY <1>1
  <2>3. /\ IsSeq(after) /\ Len(after) = n + 1 /\ after[index + 1] = row
        /\ \A i \in 1..((index + 1) - 1) : after[i] = j.rows[i]
    BY <1>1, <2>2, InsertIsSeq
  <2> HIDE DEF after
  <2>4. /\ DOMAIN k = JournalFields /\ k.rows = after
        /\ k.cols = j.cols /\ k.pending = j.pending /\ k.seen = j.seen
        /\ k.drops = j.drops /\ k.durable = j.durable /\ k.live = j.live
    BY <1>1, <2>1 DEF JournalFields, after
  <2>5. QED
    BY <1>1, <1>3, <2>2, <2>3, <2>4 DEF Inserted, k
<1>4. QED
  BY <1>2, <1>3

\* k goes on from j: the durable rows of j are still there, less the oldest,
\* which are counted as dropped.
Onward(j, k) ==
    /\ JournalStands(j) /\ JournalStands(k)
    /\ k.cols = j.cols /\ k.drops >= j.drops
    /\ k.durable + (k.drops - j.drops) >= j.durable
    /\ \A i \in 1..j.durable :
           i > k.drops - j.drops => k.rows[i - (k.drops - j.drops)] = j.rows[i]

LEMMA JournalNumbers ==
    ASSUME NEW j, JournalStands(j)
    PROVE  /\ Len(j.rows) \in Nat /\ j.durable \in Nat /\ j.live \in Nat /\ j.drops \in Nat
           /\ j.durable <= Len(j.rows) /\ j.live <= Len(j.rows)
<1>1. Len(j.rows) \in Nat
  BY SeqLen DEF JournalStands
<1>2. QED
  BY <1>1 DEF JournalStands

LEMMA OnwardItself == ASSUME NEW j, JournalStands(j) PROVE Onward(j, j)
<1>1. j.drops - j.drops = 0 /\ \A i \in 1..j.durable : i - 0 = i
  BY JournalNumbers
<1>2. j.drops >= j.drops /\ j.durable + 0 >= j.durable
  BY JournalNumbers
<1>3. QED
  BY <1>1, <1>2 DEF Onward

LEMMA OnwardOnward ==
    ASSUME NEW j, NEW k, NEW l, Onward(j, k), Onward(k, l) PROVE Onward(j, l)
<1> DEFINE d == k.drops - j.drops
           e == l.drops - k.drops
           D == j.durable
           E == k.durable
           F == l.durable
<1>1. JournalStands(j) /\ JournalStands(k) /\ JournalStands(l) /\ l.cols = j.cols
  BY DEF Onward
<1>2. j.drops \in Nat /\ k.drops \in Nat /\ l.drops \in Nat /\ D \in Nat /\ E \in Nat /\ F \in Nat
  BY <1>1, JournalNumbers
<1>3. d \in Nat /\ e \in Nat /\ l.drops - j.drops = d + e /\ l.drops >= j.drops
  BY <1>2 DEF Onward
<1>4. E + d >= D /\ F + e >= E
  BY DEF Onward
<1>5. \A i \in 1..D : i > d => k.rows[i - d] = j.rows[i]
  BY DEF Onward
<1>6. \A i \in 1..E : i > e => l.rows[i - e] = k.rows[i]
  BY DEF Onward
<1> HIDE DEF d, e, D, E, F
<1>7. F + (d + e) >= D
  BY <1>2, <1>3, <1>4
<1>8. ASSUME NEW i \in 1..D, i > d + e PROVE l.rows[i - (d + e)] = j.rows[i]
  <2>1. i - d \in 1..E /\ i - d > e /\ (i - d) - e = i - (d + e) /\ i > d
    BY <1>2, <1>3, <1>4, <1>8
  <2>2. l.rows[(i - d) - e] = k.rows[i - d]
    BY <1>6, <2>1
  <2>3. QED
    BY <1>5, <2>1, <2>2
<1>9. QED
  BY <1>1, <1>3, <1>7, <1>8 DEF Onward, D, F

\* The rows s are the last of the first m rows of W.
EndsAt(s, W, m) ==
    /\ m \in 0..Len(W) /\ Len(s) <= m
    /\ \A i \in 1..Len(s) : s[i] = W[m - Len(s) + i]

\* The next rows of W are those of s.
Follows(s, W, m) ==
    /\ Len(W) \in Nat /\ m + Len(s) <= Len(W)
    /\ \A i \in 1..Len(s) : W[m + i] = s[i]

LEMMA InsertedEnds ==
    ASSUME NEW j, JournalStands(j), NEW k, NEW row, Inserted(j, k, Len(j.rows), row),
           NEW W, NEW m, EndsAt(j.rows, W, m), Len(W) \in Nat, m < Len(W), W[m + 1] = row
    PROVE  EndsAt(k.rows, W, m + 1)
<1> DEFINE n == Len(j.rows)
           N == ScrollbackRows
           l == Len(k.rows)
<1>1. /\ n \in Nat /\ n <= N /\ N \in Nat \ {0} /\ m \in Nat /\ n <= m /\ m + 1 \in 0..Len(W)
  BY JournalNumbers, GridAssumption DEF EndsAt, JournalStands
<1>2. \A i \in 1..n : j.rows[i] = W[m - n + i]
  BY DEF EndsAt
<1>3. CASE n = N
  <2>1. Greater(n - 1, 0) = n - 1
    BY <1>1, <1>3 DEF Greater
  <2>2. l = n /\ k.rows[(n - 1) + 1] = row /\ \A i \in 1..(n - 1) : k.rows[i] = j.rows[i + 1]
    BY <1>3, <2>1 DEF Inserted
  <2> HIDE DEF n, l, N
  <2>3. ASSUME NEW i \in 1..l PROVE k.rows[i] = W[(m + 1) - l + i]
    <3>1. CASE i = n
      <4>1. (n - 1) + 1 = i /\ (m + 1) - l + i = m + 1
        BY <1>1, <2>2, <3>1
      <4>2. QED
        BY <2>2, <4>1
    <3>2. CASE i # n
      <4>1. i \in 1..(n - 1) /\ i + 1 \in 1..n /\ (m + 1) - l + i = m - n + (i + 1)
        BY <1>1, <2>2, <3>2
      <4>2. QED
        BY <1>2, <2>2, <4>1
    <3>3. QED
      BY <3>1, <3>2
  <2>4. l <= m + 1
    BY <1>1, <2>2
  <2>5. QED
    BY <1>1, <2>3, <2>4 DEF EndsAt, l
<1>4. CASE n # N
  <2>1. l = n + 1 /\ k.rows[n + 1] = row /\ \A i \in 1..n : k.rows[i] = j.rows[i]
    BY <1>4 DEF Inserted
  <2> HIDE DEF n, l, N
  <2>2. ASSUME NEW i \in 1..l PROVE k.rows[i] = W[(m + 1) - l + i]
    <3>1. CASE i = n + 1
      <4>1. (m + 1) - l + i = m + 1
        BY <1>1, <2>1, <3>1
      <4>2. QED
        BY <2>1, <3>1, <4>1
    <3>2. CASE i # n + 1
      <4>1. i \in 1..n /\ (m + 1) - l + i = m - n + i
        BY <1>1, <2>1, <3>2
      <4>2. QED
        BY <1>2, <2>1, <4>1
    <3>3. QED
      BY <3>1, <3>2
  <2>3. l <= m + 1
    BY <1>1, <2>1
  <2>4. QED
    BY <1>1, <2>2, <2>3 DEF EndsAt, l
<1>5. QED
  BY <1>3, <1>4

LEMMA AppendDurableOnward ==
    ASSUME NEW j, JournalStands(j), NEW row
    PROVE  /\ Onward(j, AppendDurable(j, row))
           /\ AppendDurable(j, row).pending = j.pending
           /\ AppendDurable(j, row).seen = j.seen
<1> DEFINE i0 == InsertRow(j, j.durable, row)
           k == AppendDurable(j, row)
           n == Len(j.rows)
           N == ScrollbackRows
           D == j.durable
           L == j.live
<1>1. /\ n \in Nat /\ n <= N /\ N \in Nat \ {0, 1} /\ D \in Nat /\ L \in Nat /\ D <= n /\ L <= n
      /\ n <= D + L /\ j.drops \in Nat
  BY JournalNumbers, GridAssumption DEF JournalStands
<1>2. Inserted(j, i0, D, row)
  <2>1. D \in 0..Len(j.rows)
    BY DEF JournalStands
  <2>2. QED
    BY <2>1, InsertRowIs
<1>3. k = [i0 EXCEPT !.durable = Lesser(D + 1, Len(i0.rows))]
  BY DEF AppendDurable
<1> HIDE DEF i0
<1>4. /\ DOMAIN k = JournalFields /\ k.cols = j.cols /\ k.pending = j.pending /\ k.seen = j.seen
      /\ k.rows = i0.rows /\ k.drops = i0.drops /\ k.live = i0.live
      /\ k.durable = Lesser(D + 1, Len(i0.rows))
  BY <1>2, <1>3 DEF Inserted, JournalFields
<1> HIDE DEF k
<1>5. CASE n = N
  <2> DEFINE place == Greater(D - 1, 0)
             cut == Greater(1 - D, 0)
  <2>1. /\ IsSeq(k.rows) /\ Len(k.rows) = N /\ k.drops = j.drops + 1 /\ k.live = L - cut
        /\ \A i \in 1..place : k.rows[i] = j.rows[i + 1]
        /\ k.durable = Lesser(D + 1, N)
    BY <1>2, <1>4, <1>5 DEF Inserted
  <2>2. /\ place \in Nat /\ cut \in Nat /\ (D > 0 => place = D - 1 /\ cut = 0)
        /\ (D = 0 => place = 0 /\ cut = 1)
    BY <1>1 DEF Greater
  <2> HIDE DEF n, N, D, L, place, cut
  <2>3. L - cut \in Nat /\ L - cut <= N
    BY <1>1, <1>5, <2>2
  <2>4. Lesser(D + 1, N) \in Nat /\ Lesser(D + 1, N) <= N /\ Lesser(D + 1, N) >= D
    BY <1>1 DEF Lesser
  <2>5. N <= Lesser(D + 1, N) + (L - cut)
    <3>1. CASE D = 0
      BY <1>1, <1>5, <2>2, <3>1 DEF Lesser
    <3>2. CASE D > 0
      BY <1>1, <1>5, <2>2, <3>2 DEF Lesser
    <3>3. QED
      BY <1>1, <3>1, <3>2
  <2>6. /\ k.durable \in 0..Len(k.rows) /\ k.live \in 0..Len(k.rows)
        /\ Len(k.rows) <= k.durable + k.live /\ k.drops \in Nat /\ Len(k.rows) <= N
    BY <1>1, <2>1, <2>3, <2>4, <2>5
  <2>7. k.drops - j.drops = 1 /\ k.drops >= j.drops
    BY <1>1, <2>1
  <2>8. ASSUME NEW i \in 1..D, i > 1 PROVE k.rows[i - 1] = j.rows[i]
    <3>1. i - 1 \in 1..place /\ (i - 1) + 1 = i
      BY <1>1, <2>2, <2>8
    <3>2. QED
      BY <2>1, <3>1
  <2>9. k.durable + 1 >= D
    BY <1>1, <2>1, <2>4
  <2>10. JournalStands(k)
    BY <1>4, <2>1, <2>6 DEF JournalStands, N
  <2>11. QED
    BY <1>4, <2>7, <2>8, <2>9, <2>10 DEF Onward, D, k
<1>6. CASE n # N
  <2>1. /\ IsSeq(k.rows) /\ Len(k.rows) = n + 1 /\ k.drops = j.drops /\ k.live = L
        /\ \A i \in 1..D : k.rows[i] = j.rows[i]
        /\ k.durable = Lesser(D + 1, n + 1)
    BY <1>2, <1>4, <1>6 DEF Inserted
  <2> HIDE DEF n, N, D, L
  <2>2. Lesser(D + 1, n + 1) = D + 1
    BY <1>1 DEF Lesser
  <2>3. /\ k.durable \in 0..Len(k.rows) /\ k.live \in 0..Len(k.rows)
        /\ Len(k.rows) <= k.durable + k.live /\ k.drops \in Nat /\ Len(k.rows) <= N
    BY <1>1, <1>6, <2>1, <2>2
  <2>4. k.drops - j.drops = 0 /\ k.drops >= j.drops /\ \A i \in 1..D : i - 0 = i
    BY <1>1, <2>1
  <2>5. k.durable + 0 >= D
    BY <1>1, <2>1, <2>2
  <2>6. JournalStands(k)
    BY <1>4, <2>1, <2>3 DEF JournalStands, N
  <2>7. QED
    BY <1>4, <2>1, <2>4, <2>5, <2>6 DEF Onward, D, k
<1>7. QED
  BY <1>5, <1>6

LEMMA AppendUnlessOnward ==
    ASSUME NEW j, JournalStands(j), NEW row
    PROVE  /\ Onward(j, AppendUnlessDurable(j, row))
           /\ AppendUnlessDurable(j, row).pending = j.pending
           /\ AppendUnlessDurable(j, row).seen = j.seen
BY AppendDurableOnward, OnwardItself DEF AppendUnlessDurable

\* Without live rows the row becomes the last.
LEMMA AppendLast ==
    ASSUME NEW j, JournalStands(j), j.live = 0, NEW row
    PROVE  LET k == AppendDurable(j, row)
           IN /\ k.live = 0 /\ k.durable = Len(k.rows)
              /\ k.drops = 0 => j.drops = 0 /\ Len(k.rows) = Len(j.rows) + 1
              /\ \A W, m : /\ EndsAt(j.rows, W, m) /\ Len(W) \in Nat /\ m < Len(W)
                           /\ W[m + 1] = row
                           => EndsAt(k.rows, W, m + 1)
<1> DEFINE i0 == InsertRow(j, j.durable, row)
           k == AppendDurable(j, row)
           n == Len(j.rows)
           N == ScrollbackRows
<1>1. /\ n \in Nat /\ n <= N /\ N \in Nat \ {0, 1} /\ j.durable \in Nat /\ j.durable <= n
      /\ n <= j.durable + 0 /\ j.drops \in Nat
  BY JournalNumbers, GridAssumption DEF JournalStands
<1>2. j.durable = n
  BY <1>1
<1>3. Inserted(j, i0, n, row)
  <2>1. n \in 0..Len(j.rows)
    BY <1>1
  <2>2. QED
    BY <1>2, <2>1, InsertRowIs
<1>4. k = [i0 EXCEPT !.durable = Lesser(n + 1, Len(i0.rows))]
  BY <1>2 DEF AppendDurable
<1> HIDE DEF i0
<1>5. /\ k.rows = i0.rows /\ k.drops = i0.drops /\ k.live = i0.live
      /\ k.durable = Lesser(n + 1, Len(i0.rows))
  BY <1>3, <1>4 DEF Inserted, JournalFields
<1> HIDE DEF k
<1>6. \A W, m : EndsAt(j.rows, W, m) /\ Len(W) \in Nat /\ m < Len(W) /\ W[m + 1] = row
                   => EndsAt(k.rows, W, m + 1)
  BY <1>3, <1>5, InsertedEnds
<1>7. CASE n = N
  <2>1. Len(k.rows) = n /\ k.drops = j.drops + 1 /\ k.live = 0 - Greater(1 - n, 0)
    BY <1>2, <1>3, <1>5, <1>7 DEF Inserted
  <2>2. Greater(1 - n, 0) = 0 /\ Lesser(n + 1, n) = n
    BY <1>1, <1>7 DEF Greater, Lesser
  <2> HIDE DEF n, N
  <2>3. k.live = 0 /\ k.durable = Len(k.rows) /\ k.drops # 0
    BY <1>1, <1>5, <2>1, <2>2
  <2>4. QED
    BY <1>6, <2>3 DEF k
<1>8. CASE n # N
  <2>1. Len(k.rows) = n + 1 /\ k.drops = j.drops /\ k.live = 0
    BY <1>3, <1>5, <1>8 DEF Inserted
  <2>2. Lesser(n + 1, n + 1) = n + 1
    BY <1>1 DEF Lesser
  <2>3. k.durable = Len(k.rows)
    BY <1>5, <2>1, <2>2
  <2>4. QED
    BY <1>6, <2>1, <2>3 DEF k
<1>9. QED
  BY <1>7, <1>8

-----------------------------------------------------------------------------
(* Rows that are appended one by one.                                      *)

LEMMA DurableOnward ==
    ASSUME NEW j, NEW k, Onward(j, k), k.drops = 0, NEW row, IsDurable(j, row)
    PROVE  j.drops = 0 /\ IsDurable(k, row)
<1>1. j.drops \in Nat /\ j.drops <= 0 /\ j.durable \in Nat /\ k.durable \in Nat
  BY JournalNumbers DEF Onward
<1>2. j.drops = 0 /\ k.drops - j.drops = 0 /\ k.durable >= j.durable
  BY <1>1 DEF Onward
<1>3. PICK i \in 1..j.durable : j.rows[i] = row
  BY DEF IsDurable
<1>4. i > 0 /\ i - 0 = i /\ i \in 1..k.durable
  BY <1>1, <1>2
<1>5. k.rows[i] = row
  BY <1>2, <1>3, <1>4 DEF Onward
<1>6. QED
  BY <1>2, <1>4, <1>5 DEF IsDurable

LEMMA AppendedIsDurable ==
    ASSUME NEW j, JournalStands(j), NEW row, AppendDurable(j, row).drops = 0
    PROVE  IsDurable(AppendDurable(j, row), row)
<1> DEFINE k == InsertRow(j, j.durable, row)
           a == AppendDurable(j, row)
           D == j.durable
<1>1. /\ Inserted(j, k, D, row) /\ D \in Nat /\ D <= Len(j.rows)
      /\ Len(j.rows) \in Nat /\ j.drops \in Nat
  <2>1. D \in 0..Len(j.rows)
    BY DEF JournalStands
  <2>2. QED
    BY <2>1, InsertRowIs, JournalNumbers
<1>2. a = [k EXCEPT !.durable = Lesser(D + 1, Len(k.rows))]
  BY DEF AppendDurable
<1> HIDE DEF k, a
<1>3. a.rows = k.rows /\ a.durable = Lesser(D + 1, Len(k.rows)) /\ a.drops = k.drops
  BY <1>1, <1>2 DEF Inserted, JournalFields
<1> HIDE DEF D
<1>4. Len(j.rows) # ScrollbackRows
  <2>1. j.drops + 1 # 0
    BY <1>1
  <2>2. k.drops = 0
    BY <1>3 DEF a
  <2>3. QED
    BY <1>1, <2>1, <2>2 DEF Inserted
<1>5. Len(k.rows) = Len(j.rows) + 1 /\ k.rows[D + 1] = row
  BY <1>1, <1>4 DEF Inserted
<1>6. a.durable = D + 1 /\ D + 1 \in 1..(D + 1)
  BY <1>1, <1>3, <1>5 DEF Lesser
<1>7. QED
  BY <1>3, <1>5, <1>6 DEF IsDurable, a

LEMMA UnlessIsDurable ==
    ASSUME NEW j, JournalStands(j), NEW row, AppendUnlessDurable(j, row).drops = 0
    PROVE  IsDurable(AppendUnlessDurable(j, row), row)
BY AppendedIsDurable DEF AppendUnlessDurable

UnlessUpTo(j, s, m, f) ==
    f = [n \in 0..m |-> IF n = 0 THEN j ELSE AppendUnlessDurable(f[n - 1], s[n])]

\* The function that folds AppendUnlessDurable exists.
LEMMA UnlessUpToExists ==
    ASSUME NEW j, NEW s
    PROVE  \A m \in Nat : \E f : UnlessUpTo(j, s, m, f)
<1> DEFINE S == {m \in Nat : \E f : UnlessUpTo(j, s, m, f)}
<1>1. 0 \in S
  <2> DEFINE f == [n \in 0..0 |-> j]
  <2>1. UnlessUpTo(j, s, 0, f)
    BY DEF UnlessUpTo
  <2>2. QED
    BY <2>1
<1>2. ASSUME NEW m \in Nat, m \in S PROVE m + 1 \in S
  <2>1. PICK f : UnlessUpTo(j, s, m, f)
    BY <1>2
  <2> DEFINE last == AppendUnlessDurable(f[m], s[m + 1])
             h == [n \in 0..(m + 1) |-> IF n = m + 1 THEN last ELSE f[n]]
  <2> HIDE DEF last
  <2>2. ASSUME NEW n \in 0..(m + 1)
        PROVE  h[n] = IF n = 0 THEN j ELSE AppendUnlessDurable(h[n - 1], s[n])
    <3>1. CASE n = m + 1
      <4>1. n # 0 /\ n - 1 = m /\ n - 1 \in 0..(m + 1) /\ n - 1 # m + 1
        BY <3>1
      <4>2. h[n] = last /\ h[n - 1] = f[m]
        BY <3>1, <4>1
      <4>3. QED
        BY <3>1, <4>1, <4>2 DEF last
    <3>2. CASE n # m + 1
      <4>1. n \in 0..m /\ (n # 0 => n - 1 \in 0..(m + 1) /\ n - 1 # m + 1)
        BY <3>2
      <4>2. h[n] = f[n] /\ (n # 0 => h[n - 1] = f[n - 1])
        BY <3>2, <4>1
      <4>3. f[n] = IF n = 0 THEN j ELSE AppendUnlessDurable(f[n - 1], s[n])
        BY <2>1, <4>1 DEF UnlessUpTo
      <4>4. QED
        BY <4>2, <4>3
    <3>3. QED
      BY <3>1, <3>2
  <2>3. UnlessUpTo(j, s, m + 1, h)
    BY <2>2 DEF UnlessUpTo
  <2>4. QED
    BY <2>3
<1> HIDE DEF S
<1>3. Nat \subseteq S
  BY <1>1, <1>2, Induction
<1>4. QED
  BY <1>3 DEF S

LEMMA UnlessFolded ==
    ASSUME NEW j, JournalStands(j), NEW s, Len(s) \in Nat
    PROVE  LET r == Folded(AppendUnlessDurable, j, s)
           IN /\ Onward(j, r) /\ r.pending = j.pending /\ r.seen = j.seen
              /\ r.drops = 0 => \A i \in 1..Len(s) : IsDurable(r, s[i])
<1> DEFINE m == Len(s)
           f == CHOOSE h : UnlessUpTo(j, s, m, h)
           Holds(h, n) == /\ Onward(j, h) /\ h.pending = j.pending /\ h.seen = j.seen
                          /\ h.drops = 0 => \A i \in 1..n : IsDurable(h, s[i])
           S == {n \in Nat : n <= m => Holds(f[n], n)}
<1>1. Folded(AppendUnlessDurable, j, s) = f[m]
  BY DEF Folded, UnlessUpTo
<1>2. UnlessUpTo(j, s, m, f)
  BY UnlessUpToExists
<1>3. m \in Nat
  OBVIOUS
<1> HIDE DEF f, m
<1>4. f[0] = j /\ \A n \in 0..m : n # 0 => f[n] = AppendUnlessDurable(f[n - 1], s[n])
  BY <1>2, <1>3 DEF UnlessUpTo
<1>5. 0 \in S
  BY <1>4, OnwardItself
<1>6. ASSUME NEW n \in Nat, n \in S PROVE n + 1 \in S
  <2>1. SUFFICES ASSUME n + 1 <= m PROVE Holds(f[n + 1], n + 1)
    OBVIOUS
  <2>2. n <= m /\ n + 1 \in 0..m /\ n + 1 # 0 /\ (n + 1) - 1 = n
    BY <1>3, <2>1
  <2>3. Holds(f[n], n) /\ f[n + 1] = AppendUnlessDurable(f[n], s[n + 1])
    BY <1>4, <1>6, <2>2
  <2>4. JournalStands(f[n])
    BY <2>3 DEF Onward
  <2>5. /\ Onward(f[n], f[n + 1]) /\ Onward(j, f[n + 1])
        /\ f[n + 1].pending = j.pending /\ f[n + 1].seen = j.seen
    BY <2>3, <2>4, AppendUnlessOnward, OnwardOnward
  <2>6. ASSUME f[n + 1].drops = 0, NEW i \in 1..(n + 1) PROVE IsDurable(f[n + 1], s[i])
    <3>1. CASE i = n + 1
      BY <2>3, <2>4, <2>6, <3>1, UnlessIsDurable
    <3>2. CASE i # n + 1
      <4>1. i \in 1..n
        BY <3>2
      <4>2. f[n].drops = 0
        <5>1. f[n].drops \in Nat /\ f[n].drops <= 0
          BY <2>5, <2>6, JournalNumbers DEF Onward
        <5>2. QED
          BY <5>1
      <4>3. QED
        BY <2>3, <2>5, <2>6, <4>1, <4>2, DurableOnward
    <3>3. QED
      BY <3>1, <3>2
  <2>7. QED
    BY <2>5, <2>6
<1> HIDE DEF S
<1>7. m \in S
  BY <1>3, <1>5, <1>6, Induction
<1>8. QED
  BY <1>1, <1>3, <1>7 DEF S, m

AppendUpTo(j, s, m, f) ==
    f = [n \in 0..m |-> IF n = 0 THEN j ELSE AppendDurable(f[n - 1], s[n])]

\* The function that folds AppendDurable exists.
LEMMA AppendUpToExists ==
    ASSUME NEW j, NEW s
    PROVE  \A m \in Nat : \E f : AppendUpTo(j, s, m, f)
<1> DEFINE S == {m \in Nat : \E f : AppendUpTo(j, s, m, f)}
<1>1. 0 \in S
  <2> DEFINE f == [n \in 0..0 |-> j]
  <2>1. AppendUpTo(j, s, 0, f)
    BY DEF AppendUpTo
  <2>2. QED
    BY <2>1
<1>2. ASSUME NEW m \in Nat, m \in S PROVE m + 1 \in S
  <2>1. PICK f : AppendUpTo(j, s, m, f)
    BY <1>2
  <2> DEFINE last == AppendDurable(f[m], s[m + 1])
             h == [n \in 0..(m + 1) |-> IF n = m + 1 THEN last ELSE f[n]]
  <2> HIDE DEF last
  <2>2. ASSUME NEW n \in 0..(m + 1)
        PROVE  h[n] = IF n = 0 THEN j ELSE AppendDurable(h[n - 1], s[n])
    <3>1. CASE n = m + 1
      <4>1. n # 0 /\ n - 1 = m /\ n - 1 \in 0..(m + 1) /\ n - 1 # m + 1
        BY <3>1
      <4>2. h[n] = last /\ h[n - 1] = f[m]
        BY <3>1, <4>1
      <4>3. QED
        BY <3>1, <4>1, <4>2 DEF last
    <3>2. CASE n # m + 1
      <4>1. n \in 0..m /\ (n # 0 => n - 1 \in 0..(m + 1) /\ n - 1 # m + 1)
        BY <3>2
      <4>2. h[n] = f[n] /\ (n # 0 => h[n - 1] = f[n - 1])
        BY <3>2, <4>1
      <4>3. f[n] = IF n = 0 THEN j ELSE AppendDurable(f[n - 1], s[n])
        BY <2>1, <4>1 DEF AppendUpTo
      <4>4. QED
        BY <4>2, <4>3
    <3>3. QED
      BY <3>1, <3>2
  <2>3. AppendUpTo(j, s, m + 1, h)
    BY <2>2 DEF AppendUpTo
  <2>4. QED
    BY <2>3
<1> HIDE DEF S
<1>3. Nat \subseteq S
  BY <1>1, <1>2, Induction
<1>4. QED
  BY <1>3 DEF S

\* What comes next in W follows what there is.
LEMMA AppendFolded ==
    ASSUME NEW j, JournalStands(j), j.live = 0, NEW s, Len(s) \in Nat
    PROVE  LET r == Folded(AppendDurable, j, s)
           IN /\ Onward(j, r) /\ r.live = 0 /\ r.pending = j.pending /\ r.seen = j.seen
              /\ r.drops = 0 => j.drops = 0 /\ Len(r.rows) = Len(j.rows) + Len(s)
              /\ \A W, m : EndsAt(j.rows, W, m) /\ Follows(s, W, m)
                               => EndsAt(r.rows, W, m + Len(s))
<1> DEFINE n0 == Len(s)
           f == CHOOSE h : AppendUpTo(j, s, n0, h)
           Ends(h, n) == \A W, m : EndsAt(j.rows, W, m) /\ Follows(s, W, m)
                                       => EndsAt(h.rows, W, m + n)
           Holds(h, n) == /\ Onward(j, h) /\ h.live = 0
                          /\ h.pending = j.pending /\ h.seen = j.seen
                          /\ h.drops = 0 => j.drops = 0 /\ Len(h.rows) = Len(j.rows) + n
                          /\ Ends(h, n)
           S == {n \in Nat : n <= n0 => Holds(f[n], n)}
<1>1. Folded(AppendDurable, j, s) = f[n0]
  BY DEF Folded, AppendUpTo
<1>2. AppendUpTo(j, s, n0, f)
  BY AppendUpToExists
<1>3. n0 \in Nat /\ Len(j.rows) \in Nat
  BY JournalNumbers
<1> HIDE DEF f, n0
<1>4. f[0] = j /\ \A n \in 0..n0 : n # 0 => f[n] = AppendDurable(f[n - 1], s[n])
  BY <1>2, <1>3 DEF AppendUpTo
<1>5. 0 \in S
  <2>1. \A W, m : EndsAt(j.rows, W, m) /\ Follows(s, W, m) => EndsAt(j.rows, W, m + 0)
    <3>1. \A W, m : EndsAt(j.rows, W, m) /\ Follows(s, W, m) => m + 0 = m
      BY DEF EndsAt, Follows
    <3>2. QED
      BY <3>1
  <2>2. Len(j.rows) + 0 = Len(j.rows)
    BY <1>3
  <2>3. Holds(j, 0)
    BY <2>1, <2>2, OnwardItself
  <2>4. QED
    BY <1>4, <2>3
<1>6. ASSUME NEW n \in Nat, n \in S PROVE n + 1 \in S
  <2> DEFINE a == f[n]
             k == f[n + 1]
             x == s[n + 1]
  <2> HIDE DEF Holds
  <2>1. SUFFICES ASSUME n + 1 <= n0 PROVE Holds(k, n + 1)
    OBVIOUS
  <2> USE DEF Holds
  <2>2. n <= n0 /\ n + 1 \in 0..n0 /\ n + 1 # 0 /\ (n + 1) - 1 = n /\ n + 1 \in 1..n0
    BY <1>3, <2>1
  <2>3. Holds(a, n) /\ k = AppendDurable(a, x)
    BY <1>4, <1>6, <2>2
  <2>4. JournalStands(a) /\ a.live = 0 /\ Len(a.rows) \in Nat
    BY <2>3, JournalNumbers DEF Onward
  <2> HIDE DEF a, k, x
  <2>5. Onward(a, k) /\ k.pending = a.pending /\ k.seen = a.seen
    BY <2>3, <2>4, AppendDurableOnward
  <2>6. /\ k.live = 0
        /\ k.drops = 0 => a.drops = 0 /\ Len(k.rows) = Len(a.rows) + 1
        /\ \A W, m : EndsAt(a.rows, W, m) /\ Len(W) \in Nat /\ m < Len(W) /\ W[m + 1] = x
                        => EndsAt(k.rows, W, m + 1)
    BY <2>3, <2>4, AppendLast
  <2>7. Onward(j, k)
    BY <2>3, <2>5, OnwardOnward
  <2>8. k.drops = 0 => j.drops = 0 /\ Len(k.rows) = Len(j.rows) + (n + 1)
    <3>1. SUFFICES ASSUME k.drops = 0
                   PROVE  j.drops = 0 /\ Len(k.rows) = Len(j.rows) + (n + 1)
      OBVIOUS
    <3>2. a.drops = 0 /\ Len(k.rows) = Len(a.rows) + 1
      BY <2>6, <3>1
    <3>3. j.drops = 0 /\ Len(a.rows) = Len(j.rows) + n
      BY <2>3, <3>2
    <3>4. \A l \in Nat : (l + n) + 1 = l + (n + 1)
      OBVIOUS
    <3>5. QED
      BY <1>3, <3>2, <3>3, <3>4
  <2>9. Ends(k, n + 1)
    <3> SUFFICES ASSUME NEW W, NEW m, EndsAt(j.rows, W, m), Follows(s, W, m)
                 PROVE  EndsAt(k.rows, W, m + (n + 1))
      OBVIOUS
    <3>1. /\ Len(W) \in Nat /\ m \in Nat /\ m + n0 <= Len(W)
          /\ \A i \in 1..n0 : W[m + i] = s[i]
      BY DEF EndsAt, Follows, n0
    <3>2. m + n < Len(W) /\ (m + n) + 1 = m + (n + 1)
      BY <1>3, <2>1, <3>1
    <3>3. W[(m + n) + 1] = x
      BY <2>2, <3>1, <3>2 DEF x
    <3>4. EndsAt(a.rows, W, m + n)
      BY <2>3
    <3>5. EndsAt(k.rows, W, (m + n) + 1)
      BY <2>6, <3>1, <3>2, <3>3, <3>4
    <3>6. QED
      BY <3>2, <3>5
  <2> HIDE DEF Ends
  <2>10. QED
    BY <2>3, <2>5, <2>6, <2>7, <2>8, <2>9
<1> HIDE DEF S
<1>7. n0 \in S
  BY <1>3, <1>5, <1>6, Induction
<1>8. QED
  BY <1>1, <1>3, <1>7 DEF S, n0

-----------------------------------------------------------------------------
(* The live rows.                                                          *)

AddLive(acc, row) == [InsertRow(acc, Len(acc.rows), row) EXCEPT !.live = @ + 1]

\* No row is both durable and live.
Exact(j) == JournalStands(j) /\ j.durable + j.live = Len(j.rows)

LEMMA AddLiveIs ==
    ASSUME NEW j, Exact(j), NEW row
    PROVE  LET k == AddLive(j, row)
           IN /\ Onward(j, k) /\ Exact(k) /\ k.pending = j.pending /\ k.seen = j.seen
              /\ k.live <= j.live + 1
              /\ k.durable > 0 => j.durable > 0 /\ k.live = j.live + 1
              /\ k.drops = 0 => j.drops = 0 /\ Len(k.rows) = Len(j.rows) + 1
              /\ \A W, m : /\ EndsAt(j.rows, W, m) /\ Len(W) \in Nat /\ m < Len(W)
                           /\ W[m + 1] = row
                           => EndsAt(k.rows, W, m + 1)
<1> DEFINE i0 == InsertRow(j, Len(j.rows), row)
           k == AddLive(j, row)
           n == Len(j.rows)
           N == ScrollbackRows
           D == j.durable
           L == j.live
<1>1. /\ n \in Nat /\ n <= N /\ N \in Nat \ {0, 1} /\ D \in Nat /\ L \in Nat
      /\ D + L = n /\ j.drops \in Nat /\ JournalStands(j)
  BY JournalNumbers, GridAssumption DEF JournalStands, Exact
<1>2. Inserted(j, i0, n, row)
  <2>1. n \in 0..Len(j.rows)
    BY <1>1
  <2>2. QED
    BY <1>1, <2>1, InsertRowIs
<1>3. k = [i0 EXCEPT !.live = i0.live + 1]
  BY DEF AddLive
<1> HIDE DEF i0
<1>4. /\ DOMAIN k = JournalFields /\ k.cols = j.cols /\ k.pending = j.pending /\ k.seen = j.seen
      /\ k.rows = i0.rows /\ k.drops = i0.drops /\ k.live = i0.live + 1
      /\ k.durable = i0.durable
  BY <1>2, <1>3 DEF Inserted, JournalFields
<1> HIDE DEF k
<1>5. \A W, m : EndsAt(j.rows, W, m) /\ Len(W) \in Nat /\ m < Len(W) /\ W[m + 1] = row
                   => EndsAt(k.rows, W, m + 1)
  BY <1>1, <1>2, <1>4, InsertedEnds
<1>6. CASE n = N
  <2> DEFINE cut == Greater(1 - D, 0)
             rest == Greater(D - 1, 0)
  <2>1. Greater(n - 1, 0) = n - 1
    BY <1>1, <1>6 DEF Greater
  <2>2. /\ IsSeq(k.rows) /\ Len(k.rows) = n /\ k.drops = j.drops + 1 /\ k.live = (L - cut) + 1
        /\ \A i \in 1..(n - 1) : k.rows[i] = j.rows[i + 1]
        /\ k.durable = rest
    BY <1>2, <1>4, <1>6, <2>1 DEF Inserted
  <2>3. /\ cut \in Nat /\ rest \in Nat /\ (D > 0 => rest = D - 1 /\ cut = 0)
        /\ (D = 0 => rest = 0 /\ cut = 1)
    BY <1>1 DEF Greater
  <2> HIDE DEF n, N, D, L, cut, rest
  <2>4. D = 0 \/ D > 0
    BY <1>1
  <2>5. /\ (L - cut) + 1 \in Nat /\ (L - cut) + 1 <= L + 1 /\ rest + ((L - cut) + 1) = n
        /\ rest + 1 >= D
        /\ rest > 0 => D > 0 /\ (L - cut) + 1 = L + 1
    <3>1. CASE D = 0
      BY <1>1, <1>6, <2>3, <3>1
    <3>2. CASE D > 0
      BY <1>1, <2>3, <3>2
    <3>3. QED
      BY <2>4, <3>1, <3>2
  <2>6. rest \in 0..n /\ (L - cut) + 1 \in 0..n /\ n <= rest + ((L - cut) + 1)
    <3> DEFINE x == (L - cut) + 1
    <3>1. x \in Nat /\ rest + x = n
      BY <2>5
    <3> HIDE DEF x
    <3>2. rest \in 0..n /\ x \in 0..n /\ n <= rest + x
      BY <1>1, <2>3, <3>1
    <3>3. QED
      BY <3>2 DEF x
  <2>7. j.drops + 1 \in Nat /\ j.drops + 1 >= j.drops /\ (j.drops + 1) - j.drops = 1
        /\ j.drops + 1 # 0
    BY <1>1
  <2>8. JournalStands(k)
    BY <1>1, <1>4, <2>2, <2>6, <2>7 DEF JournalStands, N
  <2>9. ASSUME NEW i \in 1..D, i > 1 PROVE k.rows[i - 1] = j.rows[i]
    <3>1. i - 1 \in 1..(n - 1) /\ (i - 1) + 1 = i
      BY <1>1, <2>9
    <3>2. QED
      BY <2>2, <3>1
  <2>10. Onward(j, k)
    BY <1>1, <1>4, <2>2, <2>5, <2>7, <2>8, <2>9 DEF Onward, D
  <2>11. Exact(k)
    BY <2>2, <2>5, <2>8 DEF Exact
  <2>12. /\ k.live <= L + 1
         /\ k.durable > 0 => D > 0 /\ k.live = L + 1
         /\ k.drops # 0
    BY <2>2, <2>5, <2>7
  <2>13. QED
    BY <1>4, <1>5, <2>10, <2>11, <2>12 DEF k, D, L
<1>7. CASE n # N
  <2>1. /\ IsSeq(k.rows) /\ Len(k.rows) = n + 1 /\ k.drops = j.drops /\ k.live = L + 1
        /\ \A i \in 1..n : k.rows[i] = j.rows[i]
        /\ k.durable = D
    BY <1>2, <1>4, <1>7 DEF Inserted
  <2> HIDE DEF n, N, D, L
  <2>2. /\ D \in 0..(n + 1) /\ L + 1 \in 0..(n + 1) /\ n + 1 <= D + (L + 1)
        /\ D + (L + 1) = n + 1 /\ n + 1 <= N
    BY <1>1, <1>7
  <2>3. /\ j.drops - j.drops = 0 /\ j.drops >= j.drops /\ D + 0 >= D
        /\ \A i \in 1..D : i - 0 = i /\ i \in 1..n
    BY <1>1
  <2>4. JournalStands(k)
    BY <1>1, <1>4, <2>1, <2>2 DEF JournalStands, N
  <2>5. Onward(j, k)
    BY <1>1, <1>4, <2>1, <2>3, <2>4 DEF Onward, D
  <2>6. Exact(k)
    BY <2>1, <2>2, <2>4 DEF Exact
  <2>7. L + 1 <= L + 1
    BY <1>1
  <2>8. QED
    BY <1>4, <1>5, <2>1, <2>5, <2>6, <2>7 DEF k, D, L, n
<1>8. QED
  BY <1>6, <1>7

\* r is j with the live rows s.
Replaced(j, s, r) ==
    /\ Onward(j, r) /\ Exact(r) /\ r.pending = j.pending /\ r.seen = j.seen
    /\ r.live <= Len(s)
    /\ r.durable > 0 => j.durable > 0 /\ r.live = Len(s)
    /\ r.drops = 0 => j.drops = 0 /\ Len(r.rows) = Len(j.rows) + Len(s)
    /\ \A W, m : EndsAt(j.rows, W, m) /\ Follows(s, W, m) => EndsAt(r.rows, W, m + Len(s))

LiveUpTo(j, s, m, f) ==
    f = [n \in 0..m |-> IF n = 0 THEN j ELSE AddLive(f[n - 1], s[n])]

\* The function that folds AddLive exists.
LEMMA LiveUpToExists ==
    ASSUME NEW j, NEW s
    PROVE  \A m \in Nat : \E f : LiveUpTo(j, s, m, f)
<1> DEFINE S == {m \in Nat : \E f : LiveUpTo(j, s, m, f)}
<1>1. 0 \in S
  <2> DEFINE f == [n \in 0..0 |-> j]
  <2>1. LiveUpTo(j, s, 0, f)
    BY DEF LiveUpTo
  <2>2. QED
    BY <2>1
<1>2. ASSUME NEW m \in Nat, m \in S PROVE m + 1 \in S
  <2>1. PICK f : LiveUpTo(j, s, m, f)
    BY <1>2
  <2> DEFINE last == AddLive(f[m], s[m + 1])
             h == [n \in 0..(m + 1) |-> IF n = m + 1 THEN last ELSE f[n]]
  <2> HIDE DEF last
  <2>2. ASSUME NEW n \in 0..(m + 1)
        PROVE  h[n] = IF n = 0 THEN j ELSE AddLive(h[n - 1], s[n])
    <3>1. CASE n = m + 1
      <4>1. n # 0 /\ n - 1 = m /\ n - 1 \in 0..(m + 1) /\ n - 1 # m + 1
        BY <3>1
      <4>2. h[n] = last /\ h[n - 1] = f[m]
        BY <3>1, <4>1
      <4>3. QED
        BY <3>1, <4>1, <4>2 DEF last
    <3>2. CASE n # m + 1
      <4>1. n \in 0..m /\ (n # 0 => n - 1 \in 0..(m + 1) /\ n - 1 # m + 1)
        BY <3>2
      <4>2. h[n] = f[n] /\ (n # 0 => h[n - 1] = f[n - 1])
        BY <3>2, <4>1
      <4>3. f[n] = IF n = 0 THEN j ELSE AddLive(f[n - 1], s[n])
        BY <2>1, <4>1 DEF LiveUpTo
      <4>4. QED
        BY <4>2, <4>3
    <3>3. QED
      BY <3>1, <3>2
  <2>3. LiveUpTo(j, s, m + 1, h)
    BY <2>2 DEF LiveUpTo
  <2>4. QED
    BY <2>3
<1> HIDE DEF S
<1>3. Nat \subseteq S
  BY <1>1, <1>2, Induction
<1>4. QED
  BY <1>3 DEF S

LEMMA LiveFolded ==
    ASSUME NEW j, Exact(j), j.live = 0, NEW s, Len(s) \in Nat
    PROVE  Replaced(j, s, Folded(AddLive, j, s))
<1> DEFINE n0 == Len(s)
           f == CHOOSE h : LiveUpTo(j, s, n0, h)
           Ends(h, n) == \A W, m : EndsAt(j.rows, W, m) /\ Follows(s, W, m)
                                       => EndsAt(h.rows, W, m + n)
           Holds(h, n) == /\ Onward(j, h) /\ Exact(h)
                          /\ h.pending = j.pending /\ h.seen = j.seen
                          /\ h.live <= n
                          /\ h.durable > 0 => j.durable > 0 /\ h.live = n
                          /\ h.drops = 0 => j.drops = 0 /\ Len(h.rows) = Len(j.rows) + n
                          /\ Ends(h, n)
           S == {n \in Nat : n <= n0 => Holds(f[n], n)}
<1>1. Folded(AddLive, j, s) = f[n0]
  BY DEF Folded, LiveUpTo
<1>2. LiveUpTo(j, s, n0, f)
  BY LiveUpToExists
<1>3. n0 \in Nat /\ Len(j.rows) \in Nat /\ JournalStands(j)
  BY JournalNumbers DEF Exact
<1> HIDE DEF f, n0
<1>4. f[0] = j /\ \A n \in 0..n0 : n # 0 => f[n] = AddLive(f[n - 1], s[n])
  BY <1>2, <1>3 DEF LiveUpTo
<1>5. 0 \in S
  <2>1. \A W, m : EndsAt(j.rows, W, m) /\ Follows(s, W, m) => EndsAt(j.rows, W, m + 0)
    <3>1. \A W, m : EndsAt(j.rows, W, m) /\ Follows(s, W, m) => m + 0 = m
      BY DEF EndsAt, Follows
    <3>2. QED
      BY <3>1
  <2>2. Len(j.rows) + 0 = Len(j.rows)
    BY <1>3
  <2>3. Holds(j, 0)
    BY <1>3, <2>1, <2>2, OnwardItself
  <2>4. QED
    BY <1>4, <2>3
<1>6. ASSUME NEW n \in Nat, n \in S PROVE n + 1 \in S
  <2> DEFINE a == f[n]
             k == f[n + 1]
             x == s[n + 1]
  <2> HIDE DEF Holds
  <2>1. SUFFICES ASSUME n + 1 <= n0 PROVE Holds(k, n + 1)
    OBVIOUS
  <2> USE DEF Holds
  <2>2. n <= n0 /\ n + 1 \in 0..n0 /\ n + 1 # 0 /\ (n + 1) - 1 = n /\ n + 1 \in 1..n0
    BY <1>3, <2>1
  <2>3. Holds(a, n) /\ k = AddLive(a, x)
    BY <1>4, <1>6, <2>2
  <2>4. JournalStands(a) /\ a.live \in Nat /\ a.durable \in Nat
    BY <2>3, JournalNumbers DEF Onward
  <2> HIDE DEF a, k, x
  <2>5. /\ Onward(a, k) /\ Exact(k) /\ k.pending = a.pending /\ k.seen = a.seen
        /\ k.live <= a.live + 1
        /\ k.durable > 0 => a.durable > 0 /\ k.live = a.live + 1
        /\ k.drops = 0 => a.drops = 0 /\ Len(k.rows) = Len(a.rows) + 1
        /\ \A W, m : EndsAt(a.rows, W, m) /\ Len(W) \in Nat /\ m < Len(W) /\ W[m + 1] = x
                        => EndsAt(k.rows, W, m + 1)
    BY <2>3, AddLiveIs
  <2>6. Onward(j, k)
    BY <2>3, <2>5, OnwardOnward
  <2>7. k.drops = 0 => j.drops = 0 /\ Len(k.rows) = Len(j.rows) + (n + 1)
    <3>1. SUFFICES ASSUME k.drops = 0
                   PROVE  j.drops = 0 /\ Len(k.rows) = Len(j.rows) + (n + 1)
      OBVIOUS
    <3>2. a.drops = 0 /\ Len(k.rows) = Len(a.rows) + 1
      BY <2>5, <3>1
    <3>3. j.drops = 0 /\ Len(a.rows) = Len(j.rows) + n
      BY <2>3, <3>2
    <3>4. \A l \in Nat : (l + n) + 1 = l + (n + 1)
      OBVIOUS
    <3>5. QED
      BY <1>3, <3>2, <3>3, <3>4
  <2>8. k.live <= n + 1
    <3>1. k.live \in Nat
      BY <2>5, JournalNumbers DEF Exact
    <3>2. a.live <= n /\ k.live <= a.live + 1
      BY <2>3, <2>5
    <3>3. \A x1, y1 \in Nat : y1 <= n /\ x1 <= y1 + 1 => x1 <= n + 1
      OBVIOUS
    <3>4. QED
      BY <2>4, <3>1, <3>2, <3>3
  <2>9. k.durable > 0 => j.durable > 0 /\ k.live = n + 1
    BY <2>3, <2>5
  <2>10. Ends(k, n + 1)
    <3> SUFFICES ASSUME NEW W, NEW m, EndsAt(j.rows, W, m), Follows(s, W, m)
                 PROVE  EndsAt(k.rows, W, m + (n + 1))
      OBVIOUS
    <3>1. /\ Len(W) \in Nat /\ m \in Nat /\ m + n0 <= Len(W)
          /\ \A i \in 1..n0 : W[m + i] = s[i]
      BY DEF EndsAt, Follows, n0
    <3>2. m + n < Len(W) /\ (m + n) + 1 = m + (n + 1)
      BY <1>3, <2>1, <3>1
    <3>3. W[(m + n) + 1] = x
      BY <2>2, <3>1, <3>2 DEF x
    <3>4. EndsAt(a.rows, W, m + n)
      BY <2>3
    <3>5. EndsAt(k.rows, W, (m + n) + 1)
      BY <2>5, <3>1, <3>2, <3>3, <3>4
    <3>6. QED
      BY <3>2, <3>5
  <2> HIDE DEF Ends
  <2>11. QED
    BY <2>3, <2>5, <2>6, <2>7, <2>8, <2>9, <2>10
<1> HIDE DEF S
<1>7. n0 \in S
  BY <1>3, <1>5, <1>6, Induction
<1>8. QED
  BY <1>1, <1>3, <1>7 DEF S, n0, Replaced

LEMMA FieldsOnward ==
    ASSUME NEW j, JournalStands(j)
    PROVE  /\ \A x : IsSeq(x) => /\ Onward(j, [j EXCEPT !.pending = x])
                                 /\ [j EXCEPT !.pending = x].pending = x
                                 /\ [j EXCEPT !.pending = x].seen = j.seen
                                 /\ [j EXCEPT !.pending = x].live = j.live
                                 /\ [j EXCEPT !.pending = x].rows = j.rows
                                 /\ [j EXCEPT !.pending = x].durable = j.durable
                                 /\ [j EXCEPT !.pending = x].drops = j.drops
           /\ \A n \in Nat : /\ Onward(j, [j EXCEPT !.seen = n])
                             /\ [j EXCEPT !.seen = n].seen = n
                             /\ [j EXCEPT !.seen = n].pending = j.pending
                             /\ [j EXCEPT !.seen = n].live = j.live
                             /\ [j EXCEPT !.seen = n].rows = j.rows
                             /\ [j EXCEPT !.seen = n].durable = j.durable
                             /\ [j EXCEPT !.seen = n].drops = j.drops
<1>1. Onward(j, j)
  BY OnwardItself
<1>2. ASSUME NEW k, DOMAIN k = JournalFields, k.cols = j.cols, k.rows = j.rows,
             k.durable = j.durable, k.live = j.live, k.drops = j.drops,
             IsSeq(k.pending), k.seen \in Nat
      PROVE  Onward(j, k)
  <2>1. JournalStands(k)
    BY <1>2 DEF JournalStands
  <2>2. QED
    BY <1>1, <1>2, <2>1 DEF Onward
<1>3. ASSUME NEW x, IsSeq(x)
      PROVE  /\ Onward(j, [j EXCEPT !.pending = x])
             /\ [j EXCEPT !.pending = x].pending = x
             /\ [j EXCEPT !.pending = x].seen = j.seen
             /\ [j EXCEPT !.pending = x].live = j.live
             /\ [j EXCEPT !.pending = x].rows = j.rows
             /\ [j EXCEPT !.pending = x].durable = j.durable
             /\ [j EXCEPT !.pending = x].drops = j.drops
  <2> DEFINE k == [j EXCEPT !.pending = x]
  <2>1. /\ DOMAIN k = JournalFields /\ k.cols = j.cols /\ k.rows = j.rows
        /\ k.durable = j.durable /\ k.live = j.live /\ k.drops = j.drops
        /\ k.pending = x /\ k.seen = j.seen /\ j.seen \in Nat
    BY DEF JournalStands, JournalFields
  <2> HIDE DEF k
  <2>2. Onward(j, k)
    BY <1>2, <1>3, <2>1
  <2>3. QED
    BY <2>1, <2>2 DEF k
<1>4. ASSUME NEW n \in Nat
      PROVE  /\ Onward(j, [j EXCEPT !.seen = n])
             /\ [j EXCEPT !.seen = n].seen = n
             /\ [j EXCEPT !.seen = n].pending = j.pending
             /\ [j EXCEPT !.seen = n].live = j.live
             /\ [j EXCEPT !.seen = n].rows = j.rows
             /\ [j EXCEPT !.seen = n].durable = j.durable
             /\ [j EXCEPT !.seen = n].drops = j.drops
  <2> DEFINE k == [j EXCEPT !.seen = n]
  <2>1. /\ DOMAIN k = JournalFields /\ k.cols = j.cols /\ k.rows = j.rows
        /\ k.durable = j.durable /\ k.live = j.live /\ k.drops = j.drops
        /\ k.pending = j.pending /\ k.seen = n /\ IsSeq(j.pending)
    BY DEF JournalStands, JournalFields
  <2> HIDE DEF k
  <2>2. Onward(j, k)
    BY <1>2, <2>1
  <2>3. QED
    BY <2>1, <2>2 DEF k
<1>5. QED
  BY <1>3, <1>4

LEMMA DropLiveIs ==
    ASSUME NEW j, JournalStands(j)
    PROVE  LET k == DropLive(j)
           IN /\ Onward(j, k) /\ Exact(k) /\ k.live = 0
              /\ k.pending = j.pending /\ k.seen = j.seen /\ k.drops = j.drops
              /\ k.durable = j.durable /\ k.rows = DurableRows(j)
              /\ Len(DurableRows(j)) = j.durable
              /\ \A i \in 1..j.durable : DurableRows(j)[i] = j.rows[i]
<1> DEFINE k == DropLive(j)
           D == j.durable
           u == DurableRows(j)
<1>1. D \in Nat /\ D <= Len(j.rows) /\ Len(j.rows) \in Nat /\ j.drops \in Nat
  BY JournalNumbers
<1>2. u = SubSeq(j.rows, 1, D)
  BY DEF DurableRows
<1>3. /\ DOMAIN k = JournalFields /\ k.rows = u /\ k.live = 0 /\ k.cols = j.cols
      /\ k.durable = D /\ k.pending = j.pending /\ k.seen = j.seen /\ k.drops = j.drops
  BY DEF DropLive, JournalStands, JournalFields
<1> HIDE DEF k, u, D
<1>4. IsSeq(u) /\ Len(u) = D /\ \A i \in 1..D : u[i] = j.rows[i]
  <2>1. D \in Int /\ 1 \in Int
    BY <1>1
  <2>2. /\ IsSeq(u) /\ Len(u) = (IF 1 <= D THEN D - 1 + 1 ELSE 0)
        /\ \A i \in 1..(D - 1 + 1) : u[i] = j.rows[1 + i - 1]
    BY <1>2, <2>1, PartIsSeq
  <2>3. (IF 1 <= D THEN D - 1 + 1 ELSE 0) = D /\ D - 1 + 1 = D
        /\ \A i \in 1..D : 1 + i - 1 = i
    BY <1>1
  <2>4. QED
    BY <2>2, <2>3
<1>5. /\ D \in 0..D /\ 0 \in 0..D /\ D <= D + 0 /\ D + 0 = D /\ D <= ScrollbackRows
  <2>1. Len(j.rows) <= ScrollbackRows /\ ScrollbackRows \in Nat
    BY GridAssumption DEF JournalStands
  <2>2. QED
    BY <1>1, <2>1
<1>6. IsSeq(j.pending) /\ j.seen \in Nat /\ j.drops \in Nat
  BY DEF JournalStands
<1>7. JournalStands(k)
  BY <1>3, <1>4, <1>5, <1>6 DEF JournalStands
<1>8. Exact(k)
  BY <1>3, <1>4, <1>5, <1>7 DEF Exact
<1>9. j.drops - j.drops = 0 /\ j.drops >= j.drops /\ D + 0 >= D /\ \A i \in 1..D : i - 0 = i
  BY <1>1
<1>10. Onward(j, k)
  BY <1>3, <1>4, <1>7, <1>9 DEF Onward, D
<1>11. QED
  BY <1>3, <1>4, <1>8, <1>10 DEF k, u, D

\* The live rows are replaced by those of the screen.
LEMMA ReplaceLiveIs ==
    ASSUME NEW j, Exact(j), j.live = 0, NEW snap, Len(snap) \in Nat
    PROVE  Replaced(j, snap, ReplaceLiveTail(j, snap))
<1> DEFINE d == DropLive(j)
           r == ReplaceLiveTail(j, snap)
<1>1. r = Folded(AddLive, d, snap)
  BY DEF ReplaceLiveTail, Folded, AddLive
<1> HIDE DEF r
<1>2. JournalStands(j) /\ j.durable = Len(j.rows) /\ Len(j.rows) \in Nat
  <2>1. JournalStands(j) /\ j.durable + j.live = Len(j.rows)
    BY DEF Exact
  <2>2. QED
    BY <2>1, JournalNumbers
<1>3. /\ Onward(j, d) /\ Exact(d) /\ d.live = 0
      /\ d.pending = j.pending /\ d.seen = j.seen /\ d.drops = j.drops
      /\ d.durable = j.durable /\ Len(d.rows) = j.durable /\ IsSeq(d.rows)
      /\ \A i \in 1..j.durable : d.rows[i] = j.rows[i]
  BY <1>2, DropLiveIs DEF Exact, JournalStands
<1> HIDE DEF d
<1>4. d.rows = j.rows
  <2>1. IsSeq(j.rows)
    BY <1>2 DEF JournalStands
  <2>2. QED
    BY <1>2, <1>3, <2>1, SeqSame
<1>5. Replaced(d, snap, r)
  BY <1>1, <1>3, LiveFolded
<1>6. Onward(j, r)
  BY <1>3, <1>5, OnwardOnward DEF Replaced
<1>7. Replaced(j, snap, r)
  BY <1>3, <1>4, <1>5, <1>6 DEF Replaced
<1>8. QED
  BY <1>7 DEF r

\* The rows of the ring that the journal has not seen yet become durable.
LEMMA SyncIs ==
    ASSUME NEW j, JournalStands(j), j.live = 0, NEW g, g.count \in Nat
    PROVE  LET y == SyncScrollback(j, g)
           IN /\ Onward(j, y) /\ Exact(y) /\ y.live = 0
              /\ y.pending = j.pending /\ y.seen = g.count
              /\ j.seen <= g.count /\ y.drops = 0 =>
                     j.drops = 0 /\ Len(y.rows) = Len(j.rows) + (g.count - j.seen)
              /\ \A W : /\ IsSeq(W) /\ j.seen <= g.count /\ g.count <= Len(W)
                        /\ EndsAt(j.rows, W, j.seen)
                        /\ \A i \in 1..g.count : W[i] = Scrollback(g)[i]
                        => EndsAt(y.rows, W, g.count)
<1> DEFINE c == g.count
           seen == IF j.seen > c THEN 0 ELSE j.seen
           s == SubSeq(Scrollback(g), seen + 1, c)
           r == Folded(AppendDurable, j, s)
           y == SyncScrollback(j, g)
<1>1. y = [r EXCEPT !.seen = c]
  BY DEF SyncScrollback
<1>2. j.seen \in Nat /\ c \in Nat
  BY DEF JournalStands
<1> HIDE DEF y, c
<1>3. seen \in Nat /\ seen <= c /\ (j.seen <= c => seen = j.seen)
  BY <1>2
<1> HIDE DEF seen
<1>4. /\ Len(s) = c - seen /\ Len(s) \in Nat
      /\ \A i \in 1..(c - seen) : s[i] = Scrollback(g)[seen + i]
  <2>1. seen + 1 \in Int /\ c \in Int
    BY <1>2, <1>3
  <2>2. /\ Len(s) = (IF seen + 1 <= c THEN c - (seen + 1) + 1 ELSE 0)
        /\ \A i \in 1..(c - (seen + 1) + 1) : s[i] = Scrollback(g)[(seen + 1) + i - 1]
    BY <2>1, PartIsSeq
  <2>3. /\ (IF seen + 1 <= c THEN c - (seen + 1) + 1 ELSE 0) = c - seen
        /\ c - (seen + 1) + 1 = c - seen /\ c - seen \in Nat
        /\ \A i \in 1..(c - seen) : (seen + 1) + i - 1 = seen + i
    BY <1>2, <1>3
  <2> HIDE DEF s
  <2>4. QED
    BY <2>2, <2>3
<1> HIDE DEF s
<1>5. /\ Onward(j, r) /\ r.live = 0 /\ r.pending = j.pending /\ r.seen = j.seen
      /\ r.drops = 0 => j.drops = 0 /\ Len(r.rows) = Len(j.rows) + Len(s)
      /\ \A W, m : EndsAt(j.rows, W, m) /\ Follows(s, W, m) => EndsAt(r.rows, W, m + Len(s))
  BY <1>4, AppendFolded
<1> HIDE DEF r
<1>6. JournalStands(r)
  BY <1>5 DEF Onward
<1>7. /\ Onward(r, y) /\ y.seen = c /\ y.pending = r.pending /\ y.live = r.live
      /\ y.rows = r.rows /\ y.durable = r.durable /\ y.drops = r.drops
  BY <1>1, <1>2, <1>6, FieldsOnward
<1>8. Onward(j, y) /\ JournalStands(y)
  BY <1>5, <1>7, OnwardOnward DEF Onward
<1>9. Exact(y)
  <2>1. y.live = 0
    BY <1>5, <1>7
  <2>2. /\ y.durable \in Nat /\ Len(y.rows) \in Nat /\ y.durable <= Len(y.rows)
        /\ Len(y.rows) <= y.durable + 0
    BY <1>8, <2>1, JournalNumbers DEF JournalStands
  <2>3. y.durable + 0 = Len(y.rows)
    BY <2>2
  <2>4. QED
    BY <1>8, <2>1, <2>3 DEF Exact
<1>10. j.seen <= c /\ y.drops = 0 =>
           j.drops = 0 /\ Len(y.rows) = Len(j.rows) + (c - j.seen)
  BY <1>3, <1>4, <1>5, <1>7
<1>11. ASSUME NEW W, IsSeq(W), j.seen <= c, c <= Len(W), EndsAt(j.rows, W, j.seen),
              \A i \in 1..c : W[i] = Scrollback(g)[i]
       PROVE  EndsAt(y.rows, W, c)
  <2>1. seen = j.seen /\ Len(W) \in Nat /\ seen + Len(s) = c
    BY <1>2, <1>3, <1>4, <1>11, SeqLen
  <2>2. ASSUME NEW i \in 1..Len(s) PROVE W[seen + i] = s[i]
    <3>1. seen + i \in 1..c /\ i \in 1..(c - seen)
      BY <1>2, <1>3, <1>4
    <3>2. QED
      BY <1>4, <1>11, <3>1
  <2>3. Follows(s, W, seen)
    BY <1>11, <2>1, <2>2 DEF Follows
  <2>4. EndsAt(r.rows, W, seen + Len(s))
    BY <1>5, <1>11, <2>1, <2>3
  <2>5. QED
    BY <1>7, <2>1, <2>4
<1>12. QED
  BY <1>5, <1>7, <1>8, <1>9, <1>10, <1>11 DEF y, c

-----------------------------------------------------------------------------
(* What a capture commits.                                                 *)

LeftUpTo(s, gone, m, f) ==
    f = [n \in 0..m |-> IF n = 0 THEN <<>>
                        ELSE IF s[n] \in gone THEN f[n - 1]
                        ELSE Append(f[n - 1], s[n])]

\* The function that Dropping defines by recursion exists.
LEMMA LeftExists ==
    ASSUME NEW s, NEW gone
    PROVE  \A m \in Nat : \E f : LeftUpTo(s, gone, m, f)
<1> DEFINE S == {m \in Nat : \E f : LeftUpTo(s, gone, m, f)}
<1>1. 0 \in S
  <2> DEFINE f == [n \in 0..0 |-> <<>>]
  <2>1. LeftUpTo(s, gone, 0, f)
    BY DEF LeftUpTo
  <2>2. QED
    BY <2>1
<1>2. ASSUME NEW m \in Nat, m \in S PROVE m + 1 \in S
  <2>1. PICK f : LeftUpTo(s, gone, m, f)
    BY <1>2
  <2> DEFINE last == IF s[m + 1] \in gone THEN f[m] ELSE Append(f[m], s[m + 1])
             g == [n \in 0..(m + 1) |-> IF n = m + 1 THEN last ELSE f[n]]
  <2> HIDE DEF last
  <2>2. ASSUME NEW n \in 0..(m + 1)
        PROVE  g[n] = IF n = 0 THEN <<>>
                      ELSE IF s[n] \in gone THEN g[n - 1]
                      ELSE Append(g[n - 1], s[n])
    <3>1. CASE n = m + 1
      <4>1. n # 0 /\ n - 1 = m /\ n - 1 \in 0..(m + 1) /\ n - 1 # m + 1
        BY <3>1
      <4>2. g[n] = last /\ g[n - 1] = f[m]
        BY <3>1, <4>1
      <4>3. QED
        BY <3>1, <4>1, <4>2 DEF last
    <3>2. CASE n # m + 1
      <4>1. n \in 0..m /\ (n # 0 => n - 1 \in 0..(m + 1) /\ n - 1 # m + 1)
        BY <3>2
      <4>2. g[n] = f[n] /\ (n # 0 => g[n - 1] = f[n - 1])
        BY <3>2, <4>1
      <4>3. f[n] = IF n = 0 THEN <<>>
                   ELSE IF s[n] \in gone THEN f[n - 1]
                   ELSE Append(f[n - 1], s[n])
        BY <2>1, <4>1 DEF LeftUpTo
      <4>4. QED
        BY <4>2, <4>3
    <3>3. QED
      BY <3>1, <3>2
  <2>3. LeftUpTo(s, gone, m + 1, g)
    BY <2>2 DEF LeftUpTo
  <2>4. QED
    BY <2>3
<1> HIDE DEF S
<1>3. Nat \subseteq S
  BY <1>1, <1>2, Induction
<1>4. QED
  BY <1>3 DEF S

LEMMA DroppingIsSeq ==
    ASSUME NEW s, Len(s) \in Nat, NEW gone
    PROVE  /\ IsSeq(Dropping(s, gone)) /\ Len(Dropping(s, gone)) \in Nat
           /\ Len(s) = 0 => Dropping(s, gone) = <<>>
<1> DEFINE m == Len(s)
           f == CHOOSE h : LeftUpTo(s, gone, m, h)
           S == {n \in Nat : n <= m => IsSeq(f[n])}
<1>1. Dropping(s, gone) = f[m]
  BY DEF Dropping, LeftUpTo
<1>2. LeftUpTo(s, gone, m, f)
  BY LeftExists
<1>3. m \in Nat
  OBVIOUS
<1> HIDE DEF f, m
<1>4. /\ f[0] = <<>>
      /\ \A n \in 0..m : n # 0 =>
             f[n] = IF s[n] \in gone THEN f[n - 1] ELSE Append(f[n - 1], s[n])
  <2>1. 0 \in 0..m
    BY <1>3
  <2>2. f[0] = <<>>
    BY <1>2, <2>1 DEF LeftUpTo
  <2>3. ASSUME NEW n \in 0..m, n # 0
        PROVE  f[n] = IF s[n] \in gone THEN f[n - 1] ELSE Append(f[n - 1], s[n])
    BY <1>2, <2>3 DEF LeftUpTo
  <2>4. QED
    BY <2>2, <2>3
<1>5. 0 \in S
  BY <1>4, EmptyIsSeq
<1>6. ASSUME NEW n \in Nat, n \in S PROVE n + 1 \in S
  <2>1. SUFFICES ASSUME n + 1 <= m PROVE IsSeq(f[n + 1])
    OBVIOUS
  <2>2. n <= m /\ n + 1 \in 0..m /\ n + 1 # 0 /\ (n + 1) - 1 = n
    BY <1>3, <2>1
  <2>3. IsSeq(f[n])
    BY <1>6, <2>2
  <2>4. f[n + 1] = IF s[n + 1] \in gone THEN f[n] ELSE Append(f[n], s[n + 1])
    BY <1>4, <2>2
  <2>5. QED
    BY <2>3, <2>4, AppendIsSeq
<1> HIDE DEF S
<1>7. m \in S
  BY <1>3, <1>5, <1>6, Induction
<1>8. IsSeq(f[m])
  BY <1>3, <1>7 DEF S
<1>9. QED
  BY <1>1, <1>4, <1>8, SeqLen DEF m

LEMMA CommitSubmittedOnward ==
    ASSUME NEW j, JournalStands(j), NEW snap
    PROVE  /\ Onward(j, CommitSubmittedCommand(j, snap))
           /\ Onward(j, CommitSubmittedPrompt(j, snap))
<1>1. \E x : CommitSubmittedCommand(j, snap) \in {j, AppendDurable(j, x)}
  BY DEF CommitSubmittedCommand, CommitLast
<1>2. \E x : CommitSubmittedPrompt(j, snap) \in {j, AppendDurable(j, x)}
  BY DEF CommitSubmittedPrompt, CommitLast
<1>3. Onward(j, j) /\ \A x : Onward(j, AppendDurable(j, x))
  BY OnwardItself, AppendDurableOnward
<1>4. QED
  BY <1>1, <1>2, <1>3

LEMMA CommitPendingOnward ==
    ASSUME NEW j, JournalStands(j), NEW snap
    PROVE  Onward(j, CommitPending(j, snap))
<1> DEFINE s == Dropping(j.pending, ToSet(snap))
           gone == ToSet(j.pending) \ ToSet(snap)
           r == Folded(AppendUnlessDurable, j, s)
           p == Dropping(r.pending, gone)
<1>1. CommitPending(j, snap) = [r EXCEPT !.pending = p]
  BY DEF CommitPending
<1>2. Len(j.pending) \in Nat
  BY SeqLen DEF JournalStands
<1>3. Len(s) \in Nat
  BY <1>2, DroppingIsSeq
<1> HIDE DEF s, gone
<1>4. Onward(j, r) /\ r.pending = j.pending
  BY <1>3, UnlessFolded
<1> HIDE DEF r
<1>5. IsSeq(p)
  BY <1>2, <1>4, DroppingIsSeq
<1> HIDE DEF p
<1>6. Onward(r, [r EXCEPT !.pending = p])
  BY <1>4, <1>5, FieldsOnward DEF Onward
<1>7. QED
  BY <1>1, <1>4, <1>6, OnwardOnward

LEMMA CommitDisappearedOnward ==
    ASSUME NEW j, JournalStands(j), NEW snap
    PROVE  Onward(j, CommitDisappeared(j, snap))
<1> DEFINE stays == {row \in ToSet(LiveRows(j)) : ~IsTranscript(row) \/ Contains(snap, row)}
           s == Dropping(LiveRows(j), stays)
<1>1. CommitDisappeared(j, snap) \in {j, Folded(AppendUnlessDurable, j, s)}
  BY DEF CommitDisappeared
<1>2. Len(LiveRows(j)) \in Nat
  <2> DEFINE l == Len(j.rows)
  <2>1. l - j.live + 1 \in Int /\ l \in Int
    BY JournalNumbers
  <2>2. IsSeq(SubSeq(j.rows, l - j.live + 1, l))
    BY <2>1, PartIsSeq
  <2>3. QED
    BY <2>2, SeqLen DEF LiveRows
<1> HIDE DEF stays
<1>3. Len(s) \in Nat
  BY <1>2, DroppingIsSeq
<1> HIDE DEF s
<1>4. Onward(j, Folded(AppendUnlessDurable, j, s))
  BY <1>3, UnlessFolded
<1>5. QED
  BY <1>1, <1>4, OnwardItself

\* One row of the screen, if it is to be remembered.
AddPending(acc, row) ==
    IF ~IsTranscript(row) \/ IsDurable(acc, row) \/ Contains(acc.pending, row) THEN acc
    ELSE [acc EXCEPT !.pending =
              Append(IF Len(@) = PendingCap THEN Tail(@) ELSE @, row)]

LEMMA AddPendingOnward ==
    ASSUME NEW j, JournalStands(j), NEW row PROVE Onward(j, AddPending(j, row))
<1> DEFINE p == j.pending
           q == IF Len(p) = PendingCap THEN Tail(p) ELSE p
<1>1. AddPending(j, row) \in {j, [j EXCEPT !.pending = Append(q, row)]}
  BY DEF AddPending
<1>2. IsSeq(q)
  <2>1. PICK T : p \in Seq(T)
    BY DEF JournalStands, IsSeq
  <2>2. CASE Len(p) = PendingCap
    <3>1. p # <<>>
      BY <2>2, EmptyIsSeq, JournalAssumption
    <3>2. Tail(p) \in Seq(T)
      BY <2>1, <3>1, HeadTailProperties
    <3>3. QED
      BY <2>2, <3>2 DEF IsSeq
  <2>3. CASE Len(p) # PendingCap
    BY <2>1, <2>3 DEF IsSeq
  <2>4. QED
    BY <2>2, <2>3
<1> HIDE DEF q
<1> DEFINE r == Append(q, row)
<1>3. IsSeq(r)
  BY <1>2, AppendIsSeq
<1>4. AddPending(j, row) \in {j, [j EXCEPT !.pending = r]}
  BY <1>1
<1> HIDE DEF r
<1>5. Onward(j, [j EXCEPT !.pending = r])
  BY <1>3, FieldsOnward
<1>6. QED
  BY <1>4, <1>5, OnwardItself

PendingUpTo(j, s, m, f) ==
    f = [n \in 0..m |-> IF n = 0 THEN j ELSE AddPending(f[n - 1], s[n])]

\* The function that TrackPending folds with exists.
LEMMA PendingUpToExists ==
    ASSUME NEW j, NEW s
    PROVE  \A m \in Nat : \E f : PendingUpTo(j, s, m, f)
<1> DEFINE S == {m \in Nat : \E f : PendingUpTo(j, s, m, f)}
<1>1. 0 \in S
  <2> DEFINE f == [n \in 0..0 |-> j]
  <2>1. PendingUpTo(j, s, 0, f)
    BY DEF PendingUpTo
  <2>2. QED
    BY <2>1
<1>2. ASSUME NEW m \in Nat, m \in S PROVE m + 1 \in S
  <2>1. PICK f : PendingUpTo(j, s, m, f)
    BY <1>2
  <2> DEFINE last == AddPending(f[m], s[m + 1])
             h == [n \in 0..(m + 1) |-> IF n = m + 1 THEN last ELSE f[n]]
  <2> HIDE DEF last
  <2>2. ASSUME NEW n \in 0..(m + 1)
        PROVE  h[n] = IF n = 0 THEN j ELSE AddPending(h[n - 1], s[n])
    <3>1. CASE n = m + 1
      <4>1. n # 0 /\ n - 1 = m /\ n - 1 \in 0..(m + 1) /\ n - 1 # m + 1
        BY <3>1
      <4>2. h[n] = last /\ h[n - 1] = f[m]
        BY <3>1, <4>1
      <4>3. QED
        BY <3>1, <4>1, <4>2 DEF last
    <3>2. CASE n # m + 1
      <4>1. n \in 0..m /\ (n # 0 => n - 1 \in 0..(m + 1) /\ n - 1 # m + 1)
        BY <3>2
      <4>2. h[n] = f[n] /\ (n # 0 => h[n - 1] = f[n - 1])
        BY <3>2, <4>1
      <4>3. f[n] = IF n = 0 THEN j ELSE AddPending(f[n - 1], s[n])
        BY <2>1, <4>1 DEF PendingUpTo
      <4>4. QED
        BY <4>2, <4>3
    <3>3. QED
      BY <3>1, <3>2
  <2>3. PendingUpTo(j, s, m + 1, h)
    BY <2>2 DEF PendingUpTo
  <2>4. QED
    BY <2>3
<1> HIDE DEF S
<1>3. Nat \subseteq S
  BY <1>1, <1>2, Induction
<1>4. QED
  BY <1>3 DEF S

LEMMA TrackPendingOnward ==
    ASSUME NEW j, JournalStands(j), NEW snap, Len(snap) \in Nat
    PROVE  Onward(j, TrackPending(j, snap))
<1> DEFINE m == Len(snap)
           f == CHOOSE h : PendingUpTo(j, snap, m, h)
           S == {n \in Nat : n <= m => Onward(j, f[n])}
<1>1. TrackPending(j, snap) \in {j, f[m]}
  BY DEF TrackPending, Folded, PendingUpTo, AddPending
<1>2. PendingUpTo(j, snap, m, f)
  BY PendingUpToExists
<1>3. m \in Nat
  OBVIOUS
<1> HIDE DEF f, m
<1>4. f[0] = j /\ \A n \in 0..m : n # 0 => f[n] = AddPending(f[n - 1], snap[n])
  BY <1>2, <1>3 DEF PendingUpTo
<1>5. 0 \in S
  BY <1>4, OnwardItself
<1>6. ASSUME NEW n \in Nat, n \in S PROVE n + 1 \in S
  <2>1. SUFFICES ASSUME n + 1 <= m PROVE Onward(j, f[n + 1])
    OBVIOUS
  <2>2. n <= m /\ n + 1 \in 0..m /\ n + 1 # 0 /\ (n + 1) - 1 = n
    BY <1>3, <2>1
  <2>3. Onward(j, f[n]) /\ f[n + 1] = AddPending(f[n], snap[n + 1])
    BY <1>4, <1>6, <2>2
  <2>4. JournalStands(f[n])
    BY <2>3 DEF Onward
  <2>5. QED
    BY <2>3, <2>4, AddPendingOnward, OnwardOnward
<1> HIDE DEF S
<1>7. m \in S
  BY <1>3, <1>5, <1>6, Induction
<1>8. QED
  BY <1>1, <1>3, <1>7, OnwardItself DEF S

\* A set of places on the screen has a first and a last.
LEMMA Extremes ==
    ASSUME NEW n \in Nat, NEW T, T \subseteq 0..n, T # {}
    PROVE  /\ Max(T) \in T /\ Min(T) \in T
           /\ \A t \in T : Min(T) <= t /\ t <= Max(T)
<1> DEFINE A == {m \in Nat : \A U : U \subseteq 0..m /\ U # {} =>
                                 \E x \in U : \A y \in U : y <= x}
           B == {m \in Nat : \A U : U \subseteq 0..n /\ U # {} /\ (\A u \in U : n - m <= u) =>
                                 \E x \in U : \A y \in U : x <= y}
<1>1. 0 \in A
  OBVIOUS
<1>2. ASSUME NEW m \in Nat, m \in A PROVE m + 1 \in A
  <2>1. SUFFICES ASSUME NEW U, U \subseteq 0..(m + 1), U # {}
                 PROVE  \E x \in U : \A y \in U : y <= x
    OBVIOUS
  <2>2. CASE m + 1 \in U
    BY <2>1, <2>2
  <2>3. CASE m + 1 \notin U
    <3>1. U \subseteq 0..m
      BY <2>1, <2>3
    <3>2. QED
      BY <1>2, <2>1, <3>1
  <2>4. QED
    BY <2>2, <2>3
<1>3. 0 \in B
  <2>1. SUFFICES ASSUME NEW U, U \subseteq 0..n, U # {}, \A u \in U : n - 0 <= u
                 PROVE  \E x \in U : \A y \in U : x <= y
    OBVIOUS
  <2>2. \A u \in U : u = n
    <3>1. n - 0 = n
      OBVIOUS
    <3>2. \A u \in U : u \in 0..n /\ n <= u
      BY <2>1, <3>1
    <3>3. QED
      BY <3>2
  <2>3. n <= n
    OBVIOUS
  <2>4. QED
    BY <2>1, <2>2, <2>3
<1>4. ASSUME NEW m \in Nat, m \in B PROVE m + 1 \in B
  <2>1. SUFFICES ASSUME NEW U, U \subseteq 0..n, U # {}, \A u \in U : n - (m + 1) <= u
                 PROVE  \E x \in U : \A y \in U : x <= y
    OBVIOUS
  <2>2. CASE n - (m + 1) \in U
    BY <2>1, <2>2
  <2>3. CASE n - (m + 1) \notin U
    <3>1. \A u \in U : n - m <= u
      BY <2>1, <2>3
    <3>2. QED
      BY <1>4, <2>1, <3>1
  <2>4. QED
    BY <2>2, <2>3
<1> HIDE DEF A, B
<1>5. n \in A /\ n \in B
  BY <1>1, <1>2, <1>3, <1>4, Induction
<1>6. \E x \in T : \A y \in T : y <= x
  BY <1>5 DEF A
<1>7. \E x \in T : \A y \in T : x <= y
  <2>1. \A u \in T : n - n <= u
    OBVIOUS
  <2>2. QED
    BY <1>5, <2>1 DEF B
<1>8. Max(T) \in T /\ \A t \in T : Max(T) >= t
  BY <1>6 DEF Max
<1>9. Min(T) \in T /\ \A t \in T : Min(T) <= t
  BY <1>7 DEF Min
<1>10. QED
  BY <1>8, <1>9

LEMMA SnapshotIsSeq ==
    ASSUME NEW g, g.rows \in Nat \ {0}
    PROVE  IsSeq(Snapshot(g)) /\ Len(Snapshot(g)) \in Nat
<1> DEFINE text == {r \in 0..(g.rows - 1) : HasText(Cells(g)[r])}
           s == Snapshot(g)
<1>1. CASE text = {}
  BY <1>1, EmptyIsSeq DEF Snapshot
<1>2. CASE text # {}
  <2> DEFINE n == Max(text) - Min(text) + 1
  <2>1. s = [i \in 1..n |-> Cells(g)[Min(text) + i - 1]]
    BY <1>2 DEF Snapshot
  <2>2. g.rows - 1 \in Nat /\ text \subseteq 0..(g.rows - 1)
    OBVIOUS
  <2> HIDE DEF text, s
  <2>3. Max(text) \in text /\ Min(text) \in text /\ Min(text) <= Max(text)
    BY <1>2, <2>2, Extremes
  <2>4. n \in Nat
    <3>1. Max(text) \in Nat /\ Min(text) \in Nat
      <4>1. \A r \in 0..(g.rows - 1) : r \in Nat
        BY <2>2
      <4> DEFINE a == Max(text)
                 b == Min(text)
      <4>2. a \in text /\ b \in text
        BY <2>3
      <4> HIDE DEF a, b
      <4>3. a \in Nat /\ b \in Nat
        BY <2>2, <4>1, <4>2
      <4>4. QED
        BY <4>3 DEF a, b
    <3>2. QED
      BY <2>3, <3>1
  <2> HIDE DEF n
  <2>5. s = [i \in 1..n |-> s[i]]
    BY <2>1
  <2>6. IsSeq(s) /\ Len(s) = n
    BY <2>4, <2>5, FunctionIsSeq
  <2>7. QED
    BY <2>4, <2>6 DEF s
<1>3. QED
  BY <1>1, <1>2

LEMMA CaptureTextOnward ==
    ASSUME NEW j, JournalStands(j), NEW g, g.count \in Nat, NEW snap, Len(snap) \in Nat
    PROVE  Onward(j, CaptureText(j, g, snap))
<1> DEFINE a == CommitSubmittedCommand(j, snap)
           b == CommitSubmittedPrompt(a, snap)
           c == CommitPending(b, snap)
           d == CommitDisappeared(c, snap)
           e == TrackPending(d, snap)
           f == DropLive(e)
           y == SyncScrollback(f, g)
           z == ReplaceLiveTail(y, snap)
<1>1. CaptureText(j, g, snap) = z
  BY DEF CaptureText
<1> HIDE DEF z
<1>2. \A k, l : Onward(k, l) => JournalStands(l)
  BY DEF Onward
<1>3. Onward(j, a)
  BY CommitSubmittedOnward
<1> HIDE DEF a
<1>4. Onward(j, b)
  BY <1>2, <1>3, CommitSubmittedOnward, OnwardOnward
<1> HIDE DEF b
<1>5. Onward(j, c)
  BY <1>2, <1>4, CommitPendingOnward, OnwardOnward
<1> HIDE DEF c
<1>6. Onward(j, d)
  BY <1>2, <1>5, CommitDisappearedOnward, OnwardOnward
<1> HIDE DEF d
<1>7. Onward(j, e)
  BY <1>2, <1>6, TrackPendingOnward, OnwardOnward
<1> HIDE DEF e
<1>8. Onward(e, f) /\ f.live = 0
  BY <1>2, <1>7, DropLiveIs
<1> HIDE DEF f
<1>9. Onward(f, y) /\ Exact(y) /\ y.live = 0
  BY <1>2, <1>8, SyncIs
<1> HIDE DEF y
<1>10. Onward(y, z)
  BY <1>9, ReplaceLiveIs DEF Replaced, z
<1>11. Onward(j, z)
  BY <1>7, <1>8, <1>9, <1>10, OnwardOnward
<1>12. QED
  BY <1>1, <1>11

LEMMA CaptureBlankOnward ==
    ASSUME NEW j, JournalStands(j) PROVE Onward(j, CaptureBlank(j))
<1> DEFINE c == CommitPending(j, <<>>)
<1>1. Onward(j, c)
  BY CommitPendingOnward
<1>2. CaptureBlank(j) \in {j, DropLive(c)}
  BY DEF CaptureBlank
<1> HIDE DEF c
<1>3. Onward(c, DropLive(c))
  BY <1>1, DropLiveIs DEF Onward
<1>4. QED
  BY <1>1, <1>2, <1>3, OnwardItself, OnwardOnward

LEMMA CaptureOnward ==
    ASSUME NEW j, JournalStands(j), NEW g, RingStands(g), j.cols = g.cols
    PROVE  Onward(j, Capture(j, g))
<1>1. Configure(j, g.cols) = j
  BY DEF Configure
<1>2. Capture(j, g) \in {j, CaptureBlank(j), CaptureText(j, g, Snapshot(g))}
  BY <1>1 DEF Capture
<1>3. g.count \in Nat /\ Len(Snapshot(g)) \in Nat
  BY RingNumbers, SnapshotIsSeq DEF RingStands
<1>4. QED
  BY <1>2, <1>3, OnwardItself, CaptureBlankOnward, CaptureTextOnward

-----------------------------------------------------------------------------
(* The journal in another width.                                           *)

LEMMA ConfigureStands ==
    ASSUME NEW j, JournalStands(j), NEW cols, cols # j.cols
    PROVE  LET k == Configure(j, cols)
           IN /\ JournalStands(k) /\ k.cols = cols /\ k.rows = Fitted(j.rows, cols)
              /\ k.durable = j.durable /\ k.live = Len(j.rows) - j.durable
              /\ k.seen = j.seen /\ k.drops = j.drops
              /\ j.pending = <<>> => k.pending = <<>>
<1> DEFINE k == Configure(j, cols)
           p == Restride(j.pending, j.cols, cols)
           n == Len(j.rows)
<1>1. k = [j EXCEPT !.cols = cols, !.live = n - j.durable,
                    !.rows = [i \in DOMAIN j.rows |-> Fit(j.rows[i], cols)], !.pending = p]
  BY DEF Configure
<1> HIDE DEF k, p
<1>2. /\ DOMAIN k = JournalFields /\ k.cols = cols /\ k.rows = Fitted(j.rows, cols)
      /\ k.durable = j.durable /\ k.live = n - j.durable
      /\ k.seen = j.seen /\ k.drops = j.drops /\ k.pending = p
  BY <1>1 DEF JournalStands, JournalFields, Fitted
<1>3. IsSeq(k.rows) /\ Len(k.rows) = n
  BY <1>2, FittedIsSeq DEF JournalStands
<1>4. IsSeq(p) /\ Len(p) = Len(j.pending)
  <2> DEFINE m == Len(j.pending)
  <2>1. m \in Nat /\ DOMAIN j.pending = 1..m
    BY SeqLen DEF JournalStands
  <2>2. DOMAIN p = DOMAIN j.pending /\ p = [i \in DOMAIN j.pending |-> p[i]]
    BY DEF p, Restride
  <2>3. p = [i \in 1..m |-> p[i]]
    BY <2>1, <2>2
  <2> HIDE DEF m
  <2>4. IsSeq(p) /\ Len(p) = m
    BY <2>1, <2>3, FunctionIsSeq
  <2>5. QED
    BY <2>4 DEF m
<1>5. j.pending = <<>> => p = <<>>
  BY <1>4, EmptyIsSeq, SeqSame
<1>6. /\ n \in Nat /\ j.durable \in Nat /\ j.durable <= n /\ n <= ScrollbackRows
      /\ j.seen \in Nat /\ j.drops \in Nat
  BY JournalNumbers DEF JournalStands
<1> HIDE DEF n
<1>7. j.durable \in 0..n /\ n - j.durable \in 0..n /\ n <= j.durable + (n - j.durable)
  BY <1>6
<1>8. JournalStands(k)
  BY <1>2, <1>3, <1>4, <1>6, <1>7 DEF JournalStands
<1>9. QED
  BY <1>2, <1>5, <1>8 DEF k, n

-----------------------------------------------------------------------------
\* What is read off a journal: the end of what has scrolled off and is shown.

LEMMA EndIsSuffix ==
    ASSUME NEW s, NEW W, IsSeq(s), IsSeq(W), EndsAt(s, W, Len(W))
    PROVE  IsSuffix(s, W) /\ (Len(s) = Len(W) => s = W)
<1> DEFINE l == Len(s)
           n == Len(W)
           a == Reverse(s)
           b == Reverse(W)
<1>1. l \in Nat /\ n \in Nat /\ l <= n
  BY SeqLen DEF EndsAt
<1>2. \A i \in 1..l : s[i] = W[n - l + i]
  BY DEF EndsAt
<1>3. a = [i \in 1..l |-> s[(l - i) + 1]] /\ b = [i \in 1..n |-> W[(n - i) + 1]]
  BY DEF Reverse
<1> HIDE DEF a, b, l, n
<1>4. a = [i \in 1..l |-> a[i]] /\ b = [i \in 1..n |-> b[i]]
  BY <1>3
<1>5. IsSeq(a) /\ Len(a) = l /\ IsSeq(b) /\ Len(b) = n
  BY <1>1, <1>4, FunctionIsSeq
<1>6. /\ IsSeq(SubSeq(a, 1, l)) /\ Len(SubSeq(a, 1, l)) = l
      /\ IsSeq(SubSeq(b, 1, l)) /\ Len(SubSeq(b, 1, l)) = l
      /\ \A i \in 1..l : SubSeq(a, 1, l)[i] = a[i] /\ SubSeq(b, 1, l)[i] = b[i]
  <2>1. /\ IsSeq(SubSeq(a, 1, l)) /\ Len(SubSeq(a, 1, l)) = (IF 1 <= l THEN l - 1 + 1 ELSE 0)
        /\ \A i \in 1..(l - 1 + 1) : SubSeq(a, 1, l)[i] = a[1 + i - 1]
    BY <1>1, PartIsSeq
  <2>2. /\ IsSeq(SubSeq(b, 1, l)) /\ Len(SubSeq(b, 1, l)) = (IF 1 <= l THEN l - 1 + 1 ELSE 0)
        /\ \A i \in 1..(l - 1 + 1) : SubSeq(b, 1, l)[i] = b[1 + i - 1]
    BY <1>1, PartIsSeq
  <2>3. (IF 1 <= l THEN l - 1 + 1 ELSE 0) = l /\ l - 1 + 1 = l /\ \A i \in 1..l : 1 + i - 1 = i
    BY <1>1
  <2>4. QED
    BY <2>1, <2>2, <2>3
<1>7. ASSUME NEW i \in 1..l PROVE a[i] = b[i]
  <2>1. (l - i) + 1 \in 1..l /\ n - l + ((l - i) + 1) = (n - i) + 1 /\ i \in 1..n
    BY <1>1
  <2>2. a[i] = s[(l - i) + 1] /\ b[i] = W[(n - i) + 1]
    BY <1>3, <2>1
  <2>3. QED
    BY <1>2, <2>1, <2>2
<1>8. SubSeq(a, 1, l) = SubSeq(b, 1, l)
  BY <1>6, <1>7, SeqSame
<1>9. IsPrefix(a, b)
  BY <1>1, <1>5, <1>8 DEF IsPrefix
<1>10. ASSUME l = n PROVE s = W
  <2>1. \A i \in 1..l : n - l + i = i
    BY <1>1, <1>10
  <2>2. QED
    BY <1>2, <1>10, <2>1, SeqSame DEF l, n
<1>11. QED
  BY <1>9, <1>10 DEF IsSuffix, a, b, l, n

LEMMA EndsPrefix ==
    ASSUME NEW s, NEW V, NEW W, IsSeq(V), IsSeq(W), Len(V) <= Len(W),
           \A i \in 1..Len(V) : W[i] = V[i], NEW m, EndsAt(s, V, m), Len(s) \in Nat
    PROVE  EndsAt(s, W, m)
<1>1. Len(V) \in Nat /\ Len(W) \in Nat /\ m \in 0..Len(V) /\ Len(s) <= m
  BY SeqLen DEF EndsAt
<1>2. ASSUME NEW i \in 1..Len(s) PROVE s[i] = W[m - Len(s) + i]
  <2>1. m - Len(s) + i \in 1..Len(V)
    BY <1>1
  <2>2. s[i] = V[m - Len(s) + i]
    BY DEF EndsAt
  <2>3. QED
    BY <2>1, <2>2
<1>3. m \in 0..Len(W)
  BY <1>1
<1>4. QED
  BY <1>1, <1>2, <1>3 DEF EndsAt

\* Without Codex: nothing is remembered, and the durable rows are the last of
\* those that scrolled off and were seen.
Faithful(j, left) ==
    /\ j.pending = <<>> /\ Exact(j)
    /\ j.seen <= Len(left) /\ EndsAt(DurableRows(j), left, j.seen)
    /\ j.drops = 0 => j.durable = j.seen
    /\ ~LooksLikeCodex(LiveRows(j))

LEMMA FaithfulLater ==
    ASSUME NEW j, NEW g, NEW h, Later(g, h), Faithful(j, g.left)
    PROVE  Faithful(j, h.left)
<1>1. IsSeq(g.left) /\ IsSeq(h.left) /\ Len(g.left) <= Len(h.left)
      /\ \A i \in 1..Len(g.left) : h.left[i] = g.left[i]
  BY DEF Later, RingStands
<1>2. Len(DurableRows(j)) \in Nat
  <2>1. JournalStands(j)
    BY DEF Faithful, Exact
  <2>2. Len(DurableRows(j)) = j.durable
    BY <2>1, DropLiveIs
  <2>3. QED
    BY <2>1, <2>2, JournalNumbers
<1>3. EndsAt(DurableRows(j), h.left, j.seen)
  BY <1>1, <1>2, EndsPrefix DEF Faithful
<1>4. j.seen <= Len(h.left)
  <2>1. j.seen \in Nat /\ Len(g.left) \in Nat /\ Len(h.left) \in Nat
    BY <1>1, SeqLen DEF Faithful, Exact, JournalStands
  <2>2. QED
    BY <1>1, <2>1 DEF Faithful
<1>5. QED
  BY <1>3, <1>4 DEF Faithful

\* Nothing folded leaves all as it is.
LEMMA NothingFolded ==
    ASSUME NEW j, NEW s, Len(s) = 0
    PROVE  Folded(AppendUnlessDurable, j, s) = j
<1> DEFINE f == CHOOSE h : UnlessUpTo(j, s, Len(s), h)
<1>1. Folded(AppendUnlessDurable, j, s) = f[Len(s)]
  BY DEF Folded, UnlessUpTo
<1>2. UnlessUpTo(j, s, 0, f)
  BY UnlessUpToExists
<1> HIDE DEF f
<1>3. f[0] = j
  BY <1>2 DEF UnlessUpTo
<1>4. QED
  BY <1>1, <1>3

\* All that a capture without Codex does before it looks at the ring is none.
Unchanged(j, k) ==
    /\ JournalStands(k) /\ k.rows = j.rows /\ k.durable = j.durable /\ k.live = j.live
    /\ k.pending = <<>> /\ k.seen = j.seen /\ k.drops = j.drops

LEMMA PlainCapture ==
    ASSUME NEW j, JournalStands(j), j.pending = <<>>, ~LooksLikeCodex(LiveRows(j)),
           NEW snap, ~LooksLikeCodex(snap), NEW g
    PROVE  \E k : /\ Unchanged(j, k)
                  /\ CaptureText(j, g, snap) =
                         ReplaceLiveTail(SyncScrollback(DropLive(k), g), snap)
<1> DEFINE c == CommitPending(j, snap)
<1>1. ~HasRowWith(snap, Header) /\ ~HasRowWith(snap, Working)
  BY DEF LooksLikeCodex
<1>2. CommitSubmittedCommand(j, snap) = j
  BY <1>1 DEF CommitSubmittedCommand
<1>3. CommitSubmittedPrompt(j, snap) = j
  BY <1>1 DEF CommitSubmittedPrompt
<1>4. Unchanged(j, c)
  <2> DEFINE s == Dropping(j.pending, ToSet(snap))
             p == Dropping(j.pending, ToSet(j.pending) \ ToSet(snap))
             x == Folded(AppendUnlessDurable, j, s)
  <2>1. s = <<>> /\ p = <<>>
    BY EmptyIsSeq, DroppingIsSeq
  <2>2. c = [x EXCEPT !.pending = Dropping(x.pending, ToSet(j.pending) \ ToSet(snap))]
    BY DEF CommitPending
  <2> HIDE DEF s, p
  <2>3. x = j
    BY <2>1, EmptyIsSeq, NothingFolded
  <2> HIDE DEF x, c
  <2>4. c = [j EXCEPT !.pending = p]
    BY <2>2, <2>3 DEF p
  <2>5. /\ c.rows = j.rows /\ c.durable = j.durable /\ c.live = j.live
        /\ c.pending = <<>> /\ c.seen = j.seen /\ c.drops = j.drops
    BY <2>1, <2>4 DEF JournalStands, JournalFields
  <2>6. JournalStands(c)
    BY <2>1, <2>4, EmptyIsSeq, FieldsOnward DEF Onward
  <2>7. QED
    BY <2>5, <2>6 DEF Unchanged
<1> HIDE DEF c
<1>5. LiveRows(c) = LiveRows(j)
  BY <1>4 DEF Unchanged, LiveRows
<1>6. CommitDisappeared(c, snap) = c
  BY <1>5 DEF CommitDisappeared
<1>7. TrackPending(c, snap) = c
  BY DEF TrackPending
<1>8. CaptureText(j, g, snap) = ReplaceLiveTail(SyncScrollback(DropLive(c), g), snap)
  BY <1>2, <1>3, <1>6, <1>7 DEF CaptureText, c
<1>9. QED
  BY <1>4, <1>8

\* The live rows are the last ones.
LEMMA LiveRowsAre ==
    ASSUME NEW j, JournalStands(j)
    PROVE  /\ IsSeq(LiveRows(j)) /\ Len(LiveRows(j)) = j.live
           /\ \A i \in 1..j.live : /\ LiveRows(j)[i] = j.rows[Len(j.rows) - j.live + i]
                                   /\ Len(j.rows) - j.live + i \in 1..Len(j.rows)
<1> DEFINE l == Len(j.rows)
           L == j.live
           v == LiveRows(j)
<1>1. l \in Nat /\ L \in Nat /\ L <= l
  BY JournalNumbers
<1>2. v = SubSeq(j.rows, l - L + 1, l)
  BY DEF LiveRows
<1> HIDE DEF v, l, L
<1>3. l - L + 1 \in Int /\ l \in Int
  BY <1>1
<1>4. /\ IsSeq(v) /\ Len(v) = (IF l - L + 1 <= l THEN l - (l - L + 1) + 1 ELSE 0)
      /\ \A i \in 1..(l - (l - L + 1) + 1) : v[i] = j.rows[(l - L + 1) + i - 1]
  BY <1>2, <1>3, PartIsSeq
<1>5. l - (l - L + 1) + 1 = L /\ (IF l - L + 1 <= l THEN l - (l - L + 1) + 1 ELSE 0) = L
      /\ \A i \in 1..L : (l - L + 1) + i - 1 = l - L + i /\ l - L + i \in 1..l
  BY <1>1
<1>6. IsSeq(v) /\ Len(v) = L /\ \A i \in 1..L : v[i] = j.rows[l - L + i] /\ l - L + i \in 1..l
  BY <1>4, <1>5
<1>7. QED
  BY <1>6 DEF v, l, L

\* The rows of the screen are the last rows of the journal, so these do not
\* look like Codex if the screen does not.
LEMMA LiveAreShown ==
    ASSUME NEW r, Exact(r), NEW snap, Len(snap) \in Nat, r.live <= Len(snap),
           NEW W, EndsAt(r.rows, W, Len(W)), NEW c \in Nat, Len(W) = c + Len(snap),
           \A i \in 1..Len(snap) : W[c + i] = snap[i],
           DOMAIN snap = 1..Len(snap), ~LooksLikeCodex(snap)
    PROVE  ~LooksLikeCodex(LiveRows(r))
<1> DEFINE l == Len(r.rows)
           L == r.live
           n == Len(snap)
           v == LiveRows(r)
<1>1. l \in Nat /\ L \in Nat /\ L <= l /\ L <= n /\ n \in Nat /\ l <= Len(W) /\ Len(W) = c + n
  BY JournalNumbers DEF Exact, EndsAt
<1>2. IsSeq(v) /\ Len(v) = L /\ \A i \in 1..L : v[i] = r.rows[l - L + i]
  BY LiveRowsAre DEF Exact
<1>3. ASSUME NEW i \in 1..L PROVE \E k \in 1..n : v[i] = snap[k]
  <2> DEFINE k == n - L + i
  <2>1. k \in 1..n /\ l - L + i \in 1..l /\ Len(W) - l + (l - L + i) = c + k
    <3> HIDE DEF l, L, n
    <3>1. QED
      BY <1>1
  <2>2. r.rows[l - L + i] = W[Len(W) - l + (l - L + i)]
    BY <2>1 DEF EndsAt
  <2> HIDE DEF l, L, k
  <2>3. QED
    BY <1>2, <2>1, <2>2
<1>4. DOMAIN v = 1..L
  BY <1>2, SeqLen
<1>5. \A phrase : HasRowWith(v, phrase) => HasRowWith(snap, phrase)
  BY <1>3, <1>4 DEF HasRowWith
<1> HIDE DEF v
<1>6. QED
  BY <1>5 DEF LooksLikeCodex, v

\* What the user sees in the pane.
ShownBy(j, left, snap) ==
    LET whole == left \o snap
    IN /\ IsSuffix(j.rows, whole)
       /\ j.drops = 0 => j.rows = whole

LEMMA CaptureTextFaithful ==
    ASSUME NEW g, RingStands(g), g.drops = 0, NEW j, Faithful(j, g.left), NEW snap, IsSeq(snap),
           ~LooksLikeCodex(snap)
    PROVE  /\ Faithful(CaptureText(j, g, snap), g.left)
           /\ ShownBy(CaptureText(j, g, snap), g.left, snap)
<1> DEFINE left == g.left
           W == left \o snap
           n == Len(snap)
           c == Len(left)
<1>1. /\ IsSeq(left) /\ IsSeq(snap) /\ c \in Nat /\ n \in Nat /\ DOMAIN snap = 1..n
      /\ JournalStands(j) /\ j.seen \in Nat /\ j.seen <= c
  BY SeqLen DEF RingStands, Faithful, Exact, JournalStands
<1>2. /\ IsSeq(W) /\ Len(W) = c + n
      /\ \A i \in 1..c : W[i] = left[i]
      /\ \A i \in 1..n : W[c + i] = snap[i]
  <2>1. /\ IsSeq(W) /\ Len(W) = c + n
        /\ \A i \in 1..(c + n) : W[i] = IF i <= c THEN left[i] ELSE snap[i - c]
    BY <1>1, TwoIsSeq
  <2> HIDE DEF W, c, n, left
  <2>2. \A i \in 1..c : i \in 1..(c + n) /\ i <= c
    BY <1>1
  <2>3. \A i \in 1..n : c + i \in 1..(c + n) /\ ~(c + i <= c) /\ (c + i) - c = i
    BY <1>1
  <2>4. QED
    BY <2>1, <2>2, <2>3
<1>3. g.count = c /\ \A i \in 1..c : left[i] = Scrollback(g)[i]
  <2>1. g.count \in Nat /\ g.head \in Nat /\ c = g.count + 0 /\ g.drops = 0
    BY GridAssumption DEF RingStands, Places
  <2>2. g.count = c
    BY <2>1
  <2>3. ASSUME NEW i \in 1..g.count PROVE left[i] = Scrollback(g)[i]
    <3>1. g.drops + i = i /\ g.head + (i - 1) = g.head + i - 1
      BY <2>1
    <3>2. g.ring[(g.head + (i - 1)) % ScrollbackRows] = left[g.drops + i]
      BY DEF RingStands
    <3>3. QED
      BY <3>1, <3>2 DEF Scrollback
  <2>4. QED
    BY <2>2, <2>3
<1> HIDE DEF W, n, c
<1>4. PICK e : /\ Unchanged(j, e)
               /\ CaptureText(j, g, snap) =
                      ReplaceLiveTail(SyncScrollback(DropLive(e), g), snap)
  BY <1>1, PlainCapture DEF Faithful
<1> DEFINE f == DropLive(e)
           y == SyncScrollback(f, g)
           z == ReplaceLiveTail(y, snap)
<1>5. /\ JournalStands(f) /\ f.live = 0 /\ f.pending = <<>> /\ f.seen = j.seen
      /\ f.drops = j.drops /\ f.rows = DurableRows(j) /\ Len(f.rows) = j.durable
  <2>1. JournalStands(e) /\ DurableRows(e) = DurableRows(j)
    BY <1>4 DEF Unchanged, DurableRows
  <2>2. QED
    BY <1>4, <2>1, DropLiveIs DEF Unchanged, Exact
<1> HIDE DEF f
<1>6. EndsAt(f.rows, W, j.seen)
  <2>1. Len(f.rows) \in Nat /\ EndsAt(f.rows, left, j.seen)
    BY <1>5, JournalNumbers DEF Faithful
  <2>2. c <= Len(W)
    BY <1>1, <1>2
  <2>3. QED
    BY <1>1, <1>2, <2>1, <2>2, EndsPrefix DEF c
<1>7. /\ Exact(y) /\ y.live = 0 /\ y.pending = f.pending /\ y.seen = c
      /\ y.drops = 0 => f.drops = 0 /\ Len(y.rows) = Len(f.rows) + (c - j.seen)
      /\ EndsAt(y.rows, W, c)
  <2>1. c <= Len(W) /\ \A i \in 1..c : W[i] = Scrollback(g)[i]
    BY <1>1, <1>2, <1>3
  <2>2. g.count \in Nat /\ f.seen <= g.count
    BY <1>1, <1>3, <1>5
  <2>3. QED
    BY <1>1, <1>2, <1>3, <1>5, <1>6, <2>1, <2>2, SyncIs
<1> HIDE DEF y
<1>8. Follows(snap, W, c)
  BY <1>1, <1>2 DEF Follows, n
<1>9. /\ Exact(z) /\ z.pending = <<>> /\ z.seen = c /\ z.live <= n
      /\ z.durable > 0 => z.live = n
      /\ z.drops = 0 => y.drops = 0 /\ Len(z.rows) = Len(y.rows) + n
      /\ EndsAt(z.rows, W, c + n)
  <2>1. Replaced(y, snap, z)
    BY <1>1, <1>7, ReplaceLiveIs DEF n
  <2>2. QED
    BY <1>5, <1>7, <1>8, <2>1 DEF Replaced, n
<1>10. CaptureText(j, g, snap) = z
  BY <1>4 DEF y, f
<1> HIDE DEF z
<1>11. EndsAt(z.rows, W, Len(W)) /\ IsSeq(z.rows) /\ JournalStands(z)
  BY <1>2, <1>9 DEF Exact, JournalStands
<1> DEFINE D == z.durable
           L == z.live
           l == Len(z.rows)
<1>12. /\ D \in Nat /\ L \in Nat /\ l \in Nat /\ D + L = l /\ l <= c + n
       /\ \A i \in 1..l : z.rows[i] = W[(c + n) - l + i]
  BY <1>2, <1>9, <1>11, JournalNumbers DEF EndsAt, Exact
<1>13. z.drops = 0 => j.durable = j.seen /\ l = j.durable + (c - j.seen) + n
  BY <1>5, <1>7, <1>9 DEF Faithful
<1>14. j.durable \in Nat
  BY <1>1, JournalNumbers
<1> HIDE DEF D, L, l
<1>15. z.drops = 0 => l = c + n
  BY <1>1, <1>13, <1>14
<1>16. ShownBy(z, left, snap)
  <2>1. IsSuffix(z.rows, W) /\ (Len(z.rows) = Len(W) => z.rows = W)
    BY <1>2, <1>11, EndIsSuffix
  <2>2. QED
    BY <1>2, <1>15, <2>1 DEF ShownBy, W, l
<1>17. ~LooksLikeCodex(LiveRows(z))
  BY <1>1, <1>2, <1>9, <1>11, LiveAreShown DEF n
<1>18. Len(DurableRows(z)) = D /\ \A i \in 1..D : DurableRows(z)[i] = z.rows[i]
  BY <1>11, DropLiveIs DEF D
<1>19. z.live <= n /\ (D > 0 => L = n)
  BY <1>9 DEF D, L
<1>20. L <= n
  BY <1>19 DEF L
<1>21. D <= c
  BY <1>1, <1>12, <1>19
<1>22. ASSUME NEW i \in 1..D PROVE DurableRows(z)[i] = left[c - D + i]
  <2>1. i \in 1..l /\ (c + n) - l + i = c - D + i /\ c - D + i \in 1..c
    BY <1>1, <1>12, <1>19, <1>21
  <2>2. QED
    BY <1>2, <1>12, <1>18, <2>1
<1>23. EndsAt(DurableRows(z), left, c)
  <2>1. c \in 0..Len(left) /\ Len(DurableRows(z)) <= c
    BY <1>1, <1>18, <1>21 DEF c
  <2>2. QED
    BY <1>18, <1>22, <2>1 DEF EndsAt
<1>24. ASSUME z.drops = 0 PROVE D = c
  <2>1. D + L = c + n /\ D \in Nat /\ L \in Nat /\ c \in Nat /\ n \in Nat
    BY <1>1, <1>12, <1>15, <1>24
  <2>2. CASE D > 0
    <3>1. L = n
      BY <1>19, <2>2
    <3>2. QED
      BY <2>1, <3>1
  <2>3. CASE D = 0
    BY <1>20, <2>1, <2>3
  <2>4. QED
    BY <2>1, <2>2, <2>3
<1>25. z.seen <= Len(left) /\ z.seen = c
  BY <1>1, <1>9 DEF c
<1>26. Faithful(z, left)
  BY <1>9, <1>17, <1>23, <1>24, <1>25 DEF Faithful, D
<1>27. QED
  BY <1>10, <1>16, <1>26

LEMMA CaptureFaithful ==
    ASSUME NEW g, RingStands(g), g.drops = 0, NEW j, Faithful(j, g.left), j.cols = g.cols,
           g.usingAlternate \/ ~LooksLikeCodex(Snapshot(g))
    PROVE  /\ Faithful(Capture(j, g), g.left)
           /\ ~g.usingAlternate /\ Snapshot(g) # <<>> =>
                  ShownBy(Capture(j, g), g.left, Snapshot(g))
<1>1. Configure(j, g.cols) = j
  BY DEF Configure
<1>2. CaptureBlank(j) = j
  BY DEF CaptureBlank, Faithful
<1>3. IsSeq(Snapshot(g))
  BY SnapshotIsSeq DEF RingStands
<1>4. CASE g.usingAlternate
  BY <1>4 DEF Capture
<1>5. CASE ~g.usingAlternate /\ Snapshot(g) = <<>>
  BY <1>1, <1>2, <1>5 DEF Capture
<1>6. CASE ~g.usingAlternate /\ Snapshot(g) # <<>>
  BY <1>1, <1>3, <1>6, CaptureTextFaithful DEF Capture
<1>7. QED
  BY <1>4, <1>5, <1>6

\* A phrase of a row in another width was in the row.
LEMMA FitHas ==
    ASSUME NEW row, NEW cols, NEW phrase, phrase # Blank, Has(Fit(row, cols), phrase)
    PROVE  Has(row, phrase)
BY DEF Has, Fit

LEMMA ConfigureFaithful ==
    ASSUME NEW j, NEW left, IsSeq(left), Faithful(j, left), NEW cols, cols # j.cols
    PROVE  Faithful(Configure(j, cols), Fitted(left, cols))
<1> DEFINE k == Configure(j, cols)
           W == Fitted(left, cols)
           m == j.seen
           D == j.durable
<1>1. JournalStands(j) /\ Exact(j)
  BY DEF Faithful, Exact
<1>2. /\ JournalStands(k) /\ k.rows = Fitted(j.rows, cols) /\ k.durable = D
      /\ k.live = Len(j.rows) - D /\ k.seen = m /\ k.drops = j.drops /\ k.pending = <<>>
  BY <1>1, ConfigureStands DEF Faithful
<1> HIDE DEF k
<1>3. /\ IsSeq(k.rows) /\ Len(k.rows) = Len(j.rows)
      /\ \A i \in 1..Len(j.rows) : k.rows[i] = Fit(j.rows[i], cols)
  BY <1>1, <1>2, FittedIsSeq DEF JournalStands
<1>4. IsSeq(W) /\ Len(W) = Len(left) /\ \A i \in 1..Len(left) : W[i] = Fit(left[i], cols)
  BY FittedIsSeq
<1>5. /\ Len(j.rows) \in Nat /\ D \in Nat /\ D <= Len(j.rows) /\ Len(left) \in Nat /\ m \in Nat
      /\ D + j.live = Len(j.rows) /\ j.live \in Nat /\ m <= Len(left)
  BY <1>1, JournalNumbers, SeqLen DEF Exact, JournalStands, Faithful
<1> HIDE DEF W, D, m
<1>6. k.live = j.live
  BY <1>2, <1>5
<1>7. Exact(k)
  BY <1>2, <1>3, <1>5, <1>6 DEF Exact
<1>8. EndsAt(DurableRows(k), W, m)
  <2>1. /\ Len(DurableRows(k)) = D /\ Len(DurableRows(j)) = D
        /\ \A i \in 1..D : DurableRows(k)[i] = k.rows[i]
        /\ \A i \in 1..D : DurableRows(j)[i] = j.rows[i]
    BY <1>1, <1>2, DropLiveIs DEF D
  <2>2. EndsAt(DurableRows(j), left, m)
    BY DEF Faithful, m
  <2>3. D <= m /\ \A i \in 1..D : j.rows[i] = left[m - D + i]
    BY <2>1, <2>2 DEF EndsAt
  <2>4. ASSUME NEW i \in 1..D PROVE DurableRows(k)[i] = W[m - D + i]
    <3>1. i \in 1..Len(j.rows) /\ m - D + i \in 1..Len(left)
      BY <1>5, <2>3
    <3>2. DurableRows(k)[i] = Fit(j.rows[i], cols)
      BY <1>3, <2>1, <3>1
    <3>3. W[m - D + i] = Fit(left[m - D + i], cols)
      BY <1>4, <3>1
    <3>4. QED
      BY <2>3, <3>2, <3>3
  <2>5. m \in 0..Len(W)
    BY <1>4, <1>5
  <2>6. QED
    BY <2>1, <2>3, <2>4, <2>5 DEF EndsAt
<1>9. ~LooksLikeCodex(LiveRows(k))
  <2> DEFINE v == LiveRows(j)
             w == LiveRows(k)
             L == j.live
  <2>1. IsSeq(v) /\ IsSeq(w) /\ DOMAIN v = 1..L /\ DOMAIN w = 1..L
    BY <1>1, <1>2, <1>6, LiveRowsAre, SeqLen
  <2>2. ASSUME NEW i \in 1..L PROVE w[i] = Fit(v[i], cols)
    <3>1. v[i] = j.rows[Len(j.rows) - L + i] /\ Len(j.rows) - L + i \in 1..Len(j.rows)
      BY <1>1, LiveRowsAre
    <3>2. w[i] = k.rows[Len(j.rows) - L + i]
      BY <1>2, <1>3, <1>6, LiveRowsAre
    <3>3. QED
      BY <1>3, <3>1, <3>2
  <2> HIDE DEF v, w
  <2>3. \A phrase : phrase # Blank /\ HasRowWith(w, phrase) => HasRowWith(v, phrase)
    <3>1. SUFFICES ASSUME NEW phrase, phrase # Blank, HasRowWith(w, phrase)
                   PROVE  HasRowWith(v, phrase)
      OBVIOUS
    <3>2. PICK i \in 1..L : Has(w[i], phrase)
      BY <2>1, <3>1 DEF HasRowWith
    <3>3. Has(v[i], phrase)
      BY <2>2, <3>1, <3>2, FitHas
    <3>4. QED
      BY <2>1, <3>3 DEF HasRowWith
  <2>4. Header # Blank /\ Working # Blank /\ Modal # Blank
    BY DEF Header, Working, Modal, Blank
  <2>5. ~LooksLikeCodex(v)
    BY DEF Faithful, v
  <2>6. QED
    BY <2>3, <2>4, <2>5 DEF LooksLikeCodex, w
<1>10. k.drops = 0 => k.durable = k.seen
  BY <1>2 DEF Faithful, D, m
<1>11. QED
  BY <1>2, <1>4, <1>5, <1>7, <1>8, <1>9, <1>10 DEF Faithful, W, k, D, m

\* A screen and its journal, and whether the screen was ever Codex's.
SessionStands(s) ==
    /\ DOMAIN s = {"grid", "journal", "history"}
    /\ DOMAIN s.history = {"codex", "transcript", "writes", "resizes"}
    /\ RingStands(s.grid) /\ JournalStands(s.journal) /\ s.journal.cols = s.grid.cols
    /\ ~s.history.codex /\ s.grid.drops = 0 => Faithful(s.journal, s.grid.left)

Shown(s) ==
    LET snap == Snapshot(s.grid)
    IN ~s.grid.usingAlternate /\ ~s.history.codex /\ s.grid.drops = 0 /\ snap # <<>> =>
           ShownBy(s.journal, s.grid.left, snap)

LEMMA CapturedStands ==
    ASSUME NEW s, SessionStands(s)
    PROVE  /\ SessionStands(Captured(s)) /\ Shown(Captured(s))
           /\ Onward(s.journal, Captured(s).journal)
<1> DEFINE c == Captured(s)
           g == s.grid
           j == s.journal
           snap == Snapshot(g)
           codex == ~g.usingAlternate /\ LooksLikeCodex(snap)
           shown == {row \in ToSet(snap) : IsTranscript(row)}
           h == IF codex THEN SeenCodex(s.history, shown) ELSE s.history
<1>1. c = [s EXCEPT !.journal = Capture(j, g), !.history = h]
  BY DEF Captured
<1> HIDE DEF h
<1>2. /\ DOMAIN c = {"grid", "journal", "history"}
      /\ c.grid = g /\ c.journal = Capture(j, g) /\ c.history = h
  BY <1>1 DEF SessionStands
<1> HIDE DEF c
<1>3. /\ DOMAIN h = {"codex", "transcript", "writes", "resizes"}
      /\ ~h.codex => ~s.history.codex /\ ~codex
  <2>1. CASE codex
    BY <2>1 DEF h, SeenCodex, SessionStands
  <2>2. CASE ~codex
    BY <2>2 DEF h, SessionStands
  <2>3. QED
    BY <2>1, <2>2
<1>4. RingStands(g) /\ JournalStands(j) /\ j.cols = g.cols
  BY DEF SessionStands
<1>5. Onward(j, Capture(j, g))
  BY <1>4, CaptureOnward
<1>6. JournalStands(Capture(j, g)) /\ Capture(j, g).cols = g.cols
  BY <1>4, <1>5 DEF Onward
<1>7. ASSUME ~h.codex, g.drops = 0
      PROVE  /\ Faithful(Capture(j, g), g.left)
             /\ ~g.usingAlternate /\ snap # <<>> => ShownBy(Capture(j, g), g.left, snap)
  <2>1. Faithful(j, g.left) /\ (g.usingAlternate \/ ~LooksLikeCodex(snap))
    BY <1>3, <1>7 DEF SessionStands
  <2>2. QED
    BY <1>4, <1>7, <2>1, CaptureFaithful
<1> HIDE DEF g, j, snap
<1>8. SessionStands(c)
  BY <1>2, <1>3, <1>4, <1>6, <1>7 DEF SessionStands
<1>9. Shown(c)
  BY <1>2, <1>7 DEF Shown, snap
<1>10. QED
  BY <1>2, <1>5, <1>8, <1>9 DEF c, j

LEMMA FedStands ==
    ASSUME NEW s, SessionStands(s), NEW ops, AreOperations(ops)
    PROVE  /\ SessionStands(Fed(s, ops)) /\ Shown(Fed(s, ops))
           /\ Onward(s.journal, Fed(s, ops).journal)
<1> DEFINE h == FeedGrid(s.grid, ops)
           t == [s EXCEPT !.grid = h]
<1>1. Later(s.grid, h)
  BY FeedLater DEF SessionStands
<1> HIDE DEF h
<1>2. /\ DOMAIN t = {"grid", "journal", "history"}
      /\ t.grid = h /\ t.journal = s.journal /\ t.history = s.history
  BY DEF SessionStands
<1>3. Fed(s, ops) = Captured(t)
  BY DEF Fed, h
<1> HIDE DEF t
<1>4. h.drops = 0 => s.grid.drops = 0
  BY <1>1 DEF Later, RingStands
<1>5. ~s.history.codex /\ h.drops = 0 => Faithful(s.journal, h.left)
  BY <1>1, <1>4, FaithfulLater DEF SessionStands
<1>6. SessionStands(t)
  BY <1>1, <1>2, <1>5 DEF SessionStands, Later
<1>7. QED
  BY <1>2, <1>3, <1>6, CapturedStands

LEMMA ResizedStands ==
    ASSUME NEW s, SessionStands(s), NEW rows \in Nat \ {0}, NEW cols \in Nat \ {0}, NEW h,
           DOMAIN h = {"codex", "transcript", "writes", "resizes"}, h.codex = s.history.codex,
           NEW t, t = [grid |-> ResizeGrid(s.grid, rows, cols),
                       journal |-> Configure(s.journal, cols), history |-> h]
    PROVE  /\ SessionStands(t) /\ t.journal.cols = cols
           /\ cols = s.grid.cols => t.journal = s.journal
<1> DEFINE g == ResizeGrid(s.grid, rows, cols)
           j == Configure(s.journal, cols)
           left == IF cols = s.grid.cols THEN s.grid.left ELSE Fitted(s.grid.left, cols)
<1>1. RingStands(g) /\ g.cols = cols /\ g.drops = s.grid.drops /\ g.left = left
  BY ResizeStands DEF SessionStands
<1>2. /\ JournalStands(j) /\ j.cols = cols
      /\ cols = s.grid.cols => j = s.journal
      /\ Faithful(s.journal, s.grid.left) => Faithful(j, left)
  <2>1. /\ RingStands(s.grid) /\ IsSeq(s.grid.left) /\ JournalStands(s.journal)
        /\ s.journal.cols = s.grid.cols
    BY DEF SessionStands, RingStands
  <2>2. CASE cols = s.grid.cols
    BY <2>1, <2>2 DEF Configure
  <2>3. CASE cols # s.grid.cols
    BY <2>1, <2>3, ConfigureStands, ConfigureFaithful
  <2>4. QED
    BY <2>2, <2>3
<1> HIDE DEF g, j, left
<1>3. /\ DOMAIN t = {"grid", "journal", "history"}
      /\ t.grid = g /\ t.journal = j /\ t.history = h
  BY DEF g, j
<1>4. QED
  BY <1>1, <1>2, <1>3 DEF SessionStands

\* A journal without rows.
LEMMA NothingFaithful ==
    ASSUME NEW j, DOMAIN j = JournalFields, j.rows = <<>>, j.durable = 0, j.live = 0, j.seen = 0,
           j.pending = <<>>, j.drops \in Nat
    PROVE  JournalStands(j) /\ Faithful(j, <<>>)
<1>1. JournalStands(j) /\ Exact(j)
  BY EmptyIsSeq, GridAssumption DEF JournalStands, Exact
<1>2. Len(DurableRows(j)) = 0 /\ IsSeq(LiveRows(j)) /\ Len(LiveRows(j)) = 0
  BY <1>1, DropLiveIs, LiveRowsAre
<1>3. EndsAt(DurableRows(j), <<>>, 0)
  BY <1>2, EmptyIsSeq DEF EndsAt
<1>4. ~LooksLikeCodex(LiveRows(j))
  BY <1>2, SeqLen DEF LooksLikeCodex, HasRowWith
<1>5. QED
  BY <1>1, <1>3, <1>4, EmptyIsSeq DEF Faithful

LEMMA EmptiedStands ==
    ASSUME NEW s, SessionStands(s)
    PROVE  SessionStands(Emptied(s)) /\ Shown(Emptied(s))
<1> DEFINE e == Emptied(s)
           g == ClearGrid(s.grid)
           j == ClearJournal(s.journal)
           h == NoHistory(s.history.writes, s.history.resizes)
<1>1. /\ DOMAIN e = {"grid", "journal", "history"}
      /\ e.grid = g /\ e.journal = j /\ e.history = h
  BY DEF Emptied
<1>2. DOMAIN h = {"codex", "transcript", "writes", "resizes"}
  BY DEF NoHistory
<1>3. RingStands(g) /\ g.left = <<>> /\ g.cols = s.grid.cols
  BY ClearStands DEF SessionStands
<1>4. /\ DOMAIN j = JournalFields /\ j.rows = <<>> /\ j.durable = 0 /\ j.live = 0 /\ j.seen = 0
      /\ j.pending = <<>> /\ j.drops = s.journal.drops /\ j.cols = s.journal.cols
  BY DEF ClearJournal, SessionStands, JournalStands, JournalFields
<1>5. ~g.usingAlternate => Snapshot(g) = <<>>
  <2> SUFFICES ASSUME ~g.usingAlternate PROVE Snapshot(g) = <<>>
    OBVIOUS
  <2> DEFINE o == s.grid
             cells == BlankCells(o.rows, o.cols)
  <2>1. IsGrid(o)
    BY DEF SessionStands, RingStands
  <2>2. g.primary = cells /\ g.rows = o.rows
    <3>1. CASE o.usingAlternate
      BY <2>1, <3>1 DEF ClearGrid, CommitActive, MoveTo, WithCells, IsGrid, GridFields
    <3>2. CASE ~o.usingAlternate
      BY <2>1, <3>2 DEF ClearGrid, CommitActive, MoveTo, WithCells, IsGrid, GridFields
    <3>3. QED
      BY <3>1, <3>2
  <2> HIDE DEF g
  <2>3. \A r \in 0..(o.rows - 1) : ~HasText(cells[r])
    BY DEF BlankCells, BlankRow, HasText
  <2>4. {r \in 0..(g.rows - 1) : HasText(Cells(g)[r])} = {}
    BY <2>2, <2>3 DEF Cells
  <2>5. QED
    BY <2>4 DEF Snapshot
<1> HIDE DEF e, g, j, h
<1>6. JournalStands(j) /\ Faithful(j, <<>>)
  BY <1>4, NothingFaithful DEF SessionStands, JournalStands
<1>7. SessionStands(e)
  BY <1>1, <1>2, <1>3, <1>4, <1>6 DEF SessionStands
<1>8. Shown(e)
  BY <1>1, <1>5 DEF Shown
<1>9. QED
  BY <1>7, <1>8 DEF e

\* What the user sees in the pane is what scrolled off and the screen.
TerminalInv == SessionStands(Session) /\ Shown(Session)

LEMMA SessionBecomes ==
    ASSUME NEW s, SessionStands(s), Shown(s), NEW t, DOMAIN t = {"grid", "journal", "history"},
           t.grid = s.grid, t.journal = s.journal, t.history = s.history
    PROVE  SessionStands(t) /\ Shown(t)
BY DEF SessionStands, Shown

LEMMA SizesAre ==
    ASSUME NEW size \in Sizes \cup {FirstSize}
    PROVE  size[1] \in Nat \ {0} /\ size[2] \in Nat \ {0}
BY TerminalAssumption

LEMMA TerminalInit == Init => TerminalInv
<1> SUFFICES ASSUME Init PROVE TerminalInv
  OBVIOUS
<1> DEFINE g == NewGrid(FirstSize[1], FirstSize[2])
           j == NewJournal(FirstSize[2])
           h == NoHistory(0, 0)
           new == [grid |-> g, journal |-> j, history |-> h]
           s == Fed(new, Message)
<1>1. grid = s.grid /\ journal = s.journal /\ history = s.history
  BY DEF Init
<1>2. RingStands(g) /\ g.left = <<>> /\ g.cols = FirstSize[2]
  BY SizesAre, NewStands
<1>3. /\ DOMAIN j = JournalFields /\ j.rows = <<>> /\ j.durable = 0 /\ j.live = 0 /\ j.seen = 0
      /\ j.pending = <<>> /\ j.drops = 0 /\ j.cols = FirstSize[2]
  BY DEF NewJournal, JournalFields
<1>4. DOMAIN h = {"codex", "transcript", "writes", "resizes"}
  BY DEF NoHistory
<1>5. /\ DOMAIN new = {"grid", "journal", "history"}
      /\ new.grid = g /\ new.journal = j /\ new.history = h
  OBVIOUS
<1> HIDE DEF new, g, j, h
<1>6. JournalStands(j) /\ Faithful(j, <<>>)
  <2>1. 0 \in Nat
    OBVIOUS
  <2>2. QED
    BY <1>3, <2>1, NothingFaithful
<1>7. SessionStands(new)
  BY <1>2, <1>3, <1>4, <1>5, <1>6 DEF SessionStands
<1>8. SessionStands(s) /\ Shown(s)
  BY <1>7, FedStands, TerminalAssumption
<1> HIDE DEF s
<1>9. QED
  BY <1>1, <1>8, SessionBecomes DEF TerminalInv, Session

\* A step leaves the durable rows or begins anew.
JournalGoesOn ==
    \/ journal'.cols # journal.cols
    \/ Onward(journal, journal')
    \/ Clear
    \/ SpawnShell

LEMMA BecomesStands ==
    ASSUME NEW s, SessionStands(s), Shown(s), Becomes(s)
    PROVE  TerminalInv' /\ journal' = s.journal
BY SessionBecomes DEF Becomes, TerminalInv, Session

LEMMA SameStays ==
    ASSUME TerminalInv, grid' = grid, journal' = journal,
           DOMAIN history' = DOMAIN history, history'.codex = history.codex
    PROVE  TerminalInv' /\ Onward(journal, journal')
<1>1. SessionStands(Session) /\ Shown(Session) /\ JournalStands(journal)
  BY DEF TerminalInv, Session, SessionStands
<1>2. SessionStands(Session')
  BY <1>1 DEF Session, SessionStands
<1>3. Shown(Session')
  BY <1>1 DEF Session, Shown
<1>4. QED
  BY <1>1, <1>2, <1>3, OnwardItself DEF TerminalInv

LEMMA FlushStands == TerminalInv /\ TickFlushes => TerminalInv' /\ Onward(journal, journal')
<1> SUFFICES ASSUME TerminalInv, TickFlushes PROVE TerminalInv' /\ Onward(journal, journal')
  OBVIOUS
<1> DEFINE announce == (backend.dead \/ backend.child = "exited") /\ ~backend.notified
           Announced(s) == IF announce THEN Fed(s, Message) ELSE s
<1>1. \/ \E ops \in Chunks : Becomes(Announced(Fed(Session, ops)))
      \/ Becomes(Announced(Session))
  BY DEF TickFlushes
<1>2. ASSUME NEW s, SessionStands(s), Shown(s), Onward(journal, s.journal)
      PROVE  /\ SessionStands(Announced(s)) /\ Shown(Announced(s))
             /\ Onward(journal, Announced(s).journal)
  BY <1>2, FedStands, OnwardOnward, TerminalAssumption
<1> HIDE DEF Announced
<1>3. /\ SessionStands(Session) /\ Shown(Session) /\ Session.journal = journal
      /\ Onward(journal, journal)
  BY OnwardItself DEF TerminalInv, Session, SessionStands
<1>4. CASE \E ops \in Chunks : Becomes(Announced(Fed(Session, ops)))
  <2>1. PICK ops \in Chunks : Becomes(Announced(Fed(Session, ops)))
    BY <1>4
  <2>2. /\ SessionStands(Fed(Session, ops)) /\ Shown(Fed(Session, ops))
        /\ Onward(journal, Fed(Session, ops).journal)
    BY <1>3, FedStands, TerminalAssumption
  <2>3. QED
    BY <1>2, <2>1, <2>2, BecomesStands
<1>5. CASE Becomes(Announced(Session))
  BY <1>2, <1>3, <1>5, BecomesStands
<1>6. QED
  BY <1>1, <1>4, <1>5

LEMMA ResizeGoesOn == TerminalInv /\ Resize => TerminalInv' /\ JournalGoesOn
<1> SUFFICES ASSUME TerminalInv, Resize PROVE TerminalInv' /\ JournalGoesOn
  OBVIOUS
<1>1. PICK size \in Sizes :
          Becomes(Captured(
              [grid |-> ResizeGrid(grid, size[1], size[2]),
               journal |-> Configure(journal, size[2]),
               history |-> [history EXCEPT !.resizes = @ + 1,
                   !.transcript = IF size[2] = grid.cols THEN @ ELSE {}]]))
  BY DEF Resize
<1> DEFINE h == [history EXCEPT !.resizes = @ + 1,
                     !.transcript = IF size[2] = grid.cols THEN @ ELSE {}]
           t == [grid |-> ResizeGrid(grid, size[1], size[2]),
                 journal |-> Configure(journal, size[2]), history |-> h]
<1>2. /\ SessionStands(Session) /\ Session.grid = grid /\ Session.journal = journal
      /\ Session.history = history
  BY DEF TerminalInv, Session
<1>3. DOMAIN h = {"codex", "transcript", "writes", "resizes"} /\ h.codex = history.codex
  BY <1>2 DEF SessionStands
<1>4. Becomes(Captured(t))
  BY <1>1
<1> HIDE DEF h
<1>5. /\ SessionStands(t) /\ t.journal.cols = size[2]
      /\ size[2] = grid.cols => t.journal = journal
  BY <1>2, <1>3, SizesAre, ResizedStands
<1> HIDE DEF t
<1>6. TerminalInv' /\ Onward(t.journal, journal')
  BY <1>4, <1>5, CapturedStands, BecomesStands
<1>7. size[2] # grid.cols => journal'.cols # journal.cols
  BY <1>2, <1>5, <1>6 DEF Onward, SessionStands
<1>8. QED
  BY <1>5, <1>6, <1>7 DEF JournalGoesOn

LEMMA TerminalNext == TerminalInv /\ [Next]_vars => TerminalInv' /\ JournalGoesOn
<1> SUFFICES ASSUME TerminalInv, [Next]_vars PROVE TerminalInv' /\ JournalGoesOn
  OBVIOUS
<1>1. CASE ChildExits
  BY <1>1, SameStays DEF ChildExits, JournalGoesOn
<1>2. CASE TickReads
  <2>1. DOMAIN history = {"codex", "transcript", "writes", "resizes"}
    BY DEF TerminalInv, Session, SessionStands
  <2>2. DOMAIN history' = DOMAIN history /\ history'.codex = history.codex
    BY <1>2, <2>1 DEF TickReads
  <2>3. grid' = grid /\ journal' = journal
    BY <1>2 DEF TickReads
  <2>4. QED
    BY <2>2, <2>3, SameStays DEF JournalGoesOn
<1>3. CASE TickFlushes
  BY <1>3, FlushStands DEF JournalGoesOn
<1>4. CASE Resize
  BY <1>4, ResizeGoesOn
<1>5. CASE Clear
  <2>1. Becomes(Emptied(Session))
    BY <1>5 DEF Clear
  <2>2. QED
    BY <1>5, <2>1, EmptiedStands, BecomesStands DEF JournalGoesOn, TerminalInv
<1>6. CASE SpawnShell
  <2>1. Becomes(Fed(Emptied(Session), Message))
    BY <1>6 DEF SpawnShell
  <2>2. SessionStands(Fed(Emptied(Session), Message)) /\ Shown(Fed(Emptied(Session), Message))
    BY EmptiedStands, FedStands, TerminalAssumption DEF TerminalInv
  <2>3. QED
    BY <1>6, <2>1, <2>2, BecomesStands DEF JournalGoesOn
<1>7. CASE UNCHANGED vars
  BY <1>7, SameStays DEF vars, JournalGoesOn
<1>8. QED
  BY <1>1, <1>2, <1>3, <1>4, <1>5, <1>6, <1>7 DEF Next

(***************************************************************************)
(* The inductive invariant: the ring of every session is the end of what   *)
(* scrolled off, its journal keeps its counts and the width of the screen, *)
(* and, without Codex, the journal is the end of what scrolled off and the *)
(* screen (terminal_grid_buffer.c, terminal_journal.c).                    *)
(***************************************************************************)
THEOREM TerminalStands == Spec => []TerminalInv
BY TerminalInit, TerminalNext, PTL DEF Spec

-----------------------------------------------------------------------------
LEMMA InvHistory == TerminalInv => HistoryStands
<1> SUFFICES ASSUME TerminalInv PROVE HistoryStands
  OBVIOUS
<1>1. RingStands(grid) /\ Shown(Session)
  BY DEF TerminalInv, Session, SessionStands
<1>2. ScrollbackIsTail
  <2> DEFINE s == Scrollback(grid)
             n == grid.count
             c == Len(grid.left)
  <2>1. /\ IsSeq(grid.left) /\ n \in Nat /\ c \in Nat /\ c = n + grid.drops /\ grid.drops \in Nat
        /\ grid.head \in Nat
    BY <1>1, GridAssumption DEF RingStands, Places
  <2>2. s = [i \in 1..n |-> s[i]]
    BY DEF Scrollback
  <2>3. IsSeq(s) /\ Len(s) = n
    BY <2>1, <2>2, FunctionIsSeq
  <2>4. ASSUME NEW i \in 1..n PROVE s[i] = grid.left[c - n + i]
    <3>1. grid.head + (i - 1) = grid.head + i - 1 /\ c - n + i = grid.drops + i
      BY <2>1
    <3>2. grid.ring[(grid.head + (i - 1)) % ScrollbackRows] = grid.left[grid.drops + i]
      BY <1>1 DEF RingStands
    <3>3. QED
      BY <3>1, <3>2 DEF Scrollback
  <2> HIDE DEF s
  <2>5. EndsAt(s, grid.left, c)
    BY <2>1, <2>3, <2>4 DEF EndsAt
  <2>6. IsSuffix(s, grid.left)
    BY <2>1, <2>3, <2>5, EndIsSuffix
  <2>7. QED
    BY <2>1, <2>6 DEF ScrollbackIsTail, s
<1>3. HistoryKept
  BY <1>1 DEF Shown, ShownBy, Session, HistoryKept
<1>4. QED
  BY <1>2, <1>3 DEF HistoryStands

(***************************************************************************)
(* The ring holds the last rows that scrolled off, in order, and the       *)
(* journal shows each row once, whatever is printed, cleared or resized    *)
(* (terminal_grid_push_scrollback_row, terminal_journal_capture_viewport). *)
(***************************************************************************)
THEOREM HistoryAlwaysStands == Spec => []HistoryStands
BY TerminalStands, InvHistory, PTL

LEMMA OnwardKeeps ==
    ASSUME NEW j, NEW k, Onward(j, k)
    PROVE  IsPrefix(SubSeq(DurableRows(j), (k.drops - j.drops) + 1, j.durable), DurableRows(k))
<1> DEFINE d == k.drops - j.drops
           D == j.durable
           E == k.durable
           u == DurableRows(j)
           v == DurableRows(k)
           kept == SubSeq(u, d + 1, D)
           n == IF d + 1 <= D THEN D - (d + 1) + 1 ELSE 0
<1>1. JournalStands(j) /\ JournalStands(k)
  BY DEF Onward
<1>2. d \in Nat /\ D \in Nat /\ E \in Nat /\ E + d >= D
  BY <1>1, JournalNumbers DEF Onward
<1>3. \A i \in 1..D : i > d => k.rows[i - d] = j.rows[i]
  BY DEF Onward
<1>4. /\ IsSeq(v) /\ Len(v) = E /\ \A i \in 1..E : v[i] = k.rows[i]
      /\ \A i \in 1..D : u[i] = j.rows[i]
  BY <1>1, DropLiveIs DEF Exact, JournalStands
<1> HIDE DEF d, D, E, u, v
<1>5. /\ IsSeq(kept) /\ Len(kept) = n
      /\ \A i \in 1..(D - (d + 1) + 1) : kept[i] = u[d + 1 + i - 1]
  <2>1. d + 1 \in Int /\ D \in Int
    BY <1>2
  <2>2. QED
    BY <2>1, PartIsSeq
<1>6. n \in Nat /\ n <= E
  BY <1>2
<1>7. ASSUME NEW i \in 1..n PROVE kept[i] = v[i]
  <2>1. /\ i \in 1..(D - (d + 1) + 1) /\ d + 1 + i - 1 = d + i /\ d + i \in 1..D /\ d + i > d
        /\ (d + i) - d = i /\ i \in 1..E
    BY <1>2
  <2>2. QED
    BY <1>3, <1>4, <1>5, <2>1
<1> HIDE DEF kept, n
<1>8. /\ IsSeq(SubSeq(kept, 1, n)) /\ Len(SubSeq(kept, 1, n)) = n
      /\ IsSeq(SubSeq(v, 1, n)) /\ Len(SubSeq(v, 1, n)) = n
      /\ \A i \in 1..n : SubSeq(kept, 1, n)[i] = kept[i] /\ SubSeq(v, 1, n)[i] = v[i]
  <2>1. n \in Int /\ (IF 1 <= n THEN n - 1 + 1 ELSE 0) = n /\ n - 1 + 1 = n
        /\ \A i \in 1..n : 1 + i - 1 = i
    BY <1>6
  <2>2. \A s : /\ IsSeq(SubSeq(s, 1, n)) /\ Len(SubSeq(s, 1, n)) = (IF 1 <= n THEN n - 1 + 1 ELSE 0)
               /\ \A i \in 1..(n - 1 + 1) : SubSeq(s, 1, n)[i] = s[1 + i - 1]
    BY <2>1, PartIsSeq
  <2>3. QED
    BY <2>1, <2>2
<1>9. SubSeq(kept, 1, n) = SubSeq(v, 1, n)
  BY <1>7, <1>8, SeqSame
<1>10. QED
  BY <1>4, <1>5, <1>6, <1>9 DEF IsPrefix, kept, n, d, D, u, v

(***************************************************************************)
(* No capture changes, moves or removes a durable row, but for the oldest, *)
(* which it counts as dropped (journal_insert_one_raw, journal_drop_front).*)
(***************************************************************************)
THEOREM DurableRowsStay == Spec => DurableStays
<1>1. ASSUME TerminalInv, [Next]_vars
      PROVE  [LET dropped == journal'.drops - journal.drops
                  kept == SubSeq(DurableRows(journal), dropped + 1, journal.durable)
              IN \/ journal'.cols # journal.cols
                 \/ IsPrefix(kept, DurableRows(journal'))
                 \/ Clear \/ SpawnShell]_vars
  BY <1>1, TerminalNext, OnwardKeeps DEF JournalGoesOn
<1>2. QED
  BY <1>1, TerminalStands, PTL DEF Spec, DurableStays

-----------------------------------------------------------------------------
(* The transcript of Codex.                                                *)

\* No row is in s twice.
Distinct(s) == \A i, k \in 1..Len(s) : s[i] = s[k] => i = k

LEMMA AppendedContains ==
    ASSUME NEW s, IsSeq(s), NEW x
    PROVE  /\ \A y : Contains(Append(s, x), y) <=> Contains(s, y) \/ y = x
           /\ Distinct(s) /\ ~Contains(s, x) => Distinct(Append(s, x))
<1> DEFINE n == Len(s)
           t == Append(s, x)
<1>1. n \in Nat /\ Len(t) = n + 1 /\ t[n + 1] = x /\ \A i \in 1..n : t[i] = s[i]
  BY AppendIsSeq
<1> HIDE DEF n, t
<1>2. \A i \in 1..(n + 1) : i \in 1..n \/ i = n + 1
  BY <1>1
<1>3. n + 1 \in 1..(n + 1) /\ \A i \in 1..n : i \in 1..(n + 1)
  BY <1>1
<1>4. \A y : Contains(t, y) <=> Contains(s, y) \/ y = x
  BY <1>1, <1>2, <1>3 DEF Contains, n
<1>5. ASSUME Distinct(s), ~Contains(s, x), NEW i \in 1..(n + 1), NEW k \in 1..(n + 1), t[i] = t[k]
      PROVE  i = k
  BY <1>1, <1>2, <1>5 DEF Contains, Distinct, n
<1>6. QED
  BY <1>1, <1>4, <1>5 DEF t, Distinct

LEMMA DroppingIs ==
    ASSUME NEW s, Len(s) \in Nat, NEW gone
    PROVE  LET t == Dropping(s, gone)
           IN /\ IsSeq(t)
              /\ \A x : Contains(t, x) <=> Contains(s, x) /\ x \notin gone
              /\ Distinct(s) => Distinct(t)
<1> DEFINE m == Len(s)
           f == CHOOSE h : LeftUpTo(s, gone, m, h)
           Holds(t, n) == /\ IsSeq(t)
                          /\ \A x : Contains(t, x) <=> x \notin gone /\ \E i \in 1..n : s[i] = x
                          /\ Distinct(s) => Distinct(t)
           S == {n \in Nat : n <= m => Holds(f[n], n)}
<1>1. Dropping(s, gone) = f[m]
  BY DEF Dropping, LeftUpTo
<1>2. LeftUpTo(s, gone, m, f)
  BY LeftExists
<1>3. m \in Nat
  OBVIOUS
<1> HIDE DEF f, m
<1>4. /\ f[0] = <<>>
      /\ \A n \in 0..m : n # 0 =>
             f[n] = IF s[n] \in gone THEN f[n - 1] ELSE Append(f[n - 1], s[n])
  <2>1. 0 \in 0..m
    BY <1>3
  <2>2. f[0] = <<>>
    BY <1>2, <2>1 DEF LeftUpTo
  <2>3. ASSUME NEW n \in 0..m, n # 0
        PROVE  f[n] = IF s[n] \in gone THEN f[n - 1] ELSE Append(f[n - 1], s[n])
    BY <1>2, <2>3 DEF LeftUpTo
  <2>4. QED
    BY <2>2, <2>3
<1>5. 0 \in S
  BY <1>4, EmptyIsSeq DEF Contains, Distinct
<1>6. ASSUME NEW n \in Nat, n \in S PROVE n + 1 \in S
  <2>1. SUFFICES ASSUME n + 1 <= m PROVE Holds(f[n + 1], n + 1)
    OBVIOUS
  <2>2. n <= m /\ n + 1 \in 0..m /\ n + 1 # 0 /\ (n + 1) - 1 = n
    BY <1>3, <2>1
  <2>3. Holds(f[n], n)
    BY <1>6, <2>2
  <2>4. f[n + 1] = IF s[n + 1] \in gone THEN f[n] ELSE Append(f[n], s[n + 1])
    BY <1>4, <2>2
  <2>5. \A x : (\E i \in 1..(n + 1) : s[i] = x) <=> (\E i \in 1..n : s[i] = x) \/ s[n + 1] = x
    OBVIOUS
  <2>6. CASE s[n + 1] \in gone
    BY <2>3, <2>4, <2>5, <2>6
  <2>7. CASE s[n + 1] \notin gone
    <3> DEFINE t == Append(f[n], s[n + 1])
    <3>1. IsSeq(t)
      BY <2>3, AppendIsSeq
    <3>2. \A y : Contains(t, y) <=> Contains(f[n], y) \/ y = s[n + 1]
      BY <2>3, AppendedContains
    <3>3. ASSUME Distinct(s) PROVE Distinct(t)
      <4>1. \A i \in 1..n : i # n + 1 /\ i \in 1..m
        BY <1>3, <2>2
      <4>2. n + 1 \in 1..m
        BY <2>1, <1>3
      <4>3. ~\E i \in 1..n : s[i] = s[n + 1]
        BY <3>3, <4>1, <4>2 DEF Distinct, m
      <4>4. QED
        BY <2>3, <3>3, <4>3, AppendedContains
    <3> HIDE DEF t
    <3>4. f[n + 1] = t
      BY <2>4, <2>7 DEF t
    <3>5. QED
      BY <2>3, <2>5, <2>7, <3>1, <3>2, <3>3, <3>4
  <2>8. QED
    BY <2>6, <2>7
<1> HIDE DEF S
<1>7. m \in S
  BY <1>3, <1>5, <1>6, Induction
<1>8. Holds(f[m], m)
  BY <1>3, <1>7 DEF S
<1>9. QED
  BY <1>1, <1>8 DEF m, Contains

\* The rows of the screen that wait fit into the buffer with one that does not.
LEMMA RoomToWait ==
    ASSUME NEW p, Len(p) \in Nat, Distinct(p), NEW snap, Len(snap) \in Nat,
           \A x : Contains(p, x) => Contains(snap, x),
           NEW row, Contains(snap, row), ~Contains(p, row)
    PROVE  Len(p) < Len(snap)
<1> DEFINE n == Len(p)
           m == Len(snap)
           Value(i) == IF i = 0 THEN row ELSE p[i]
           f == [i \in 0..n |-> CHOOSE k \in 1..m : snap[k] = Value(i)]
<1>1. SUFFICES ASSUME m <= n PROVE FALSE
  OBVIOUS
<1>2. ASSUME NEW i \in 0..n PROVE f[i] \in 1..m /\ snap[f[i]] = Value(i)
  <2>1. i # 0 => i \in 1..n
    OBVIOUS
  <2>2. \E k \in 1..m : snap[k] = Value(i)
    BY <2>1 DEF Contains
  <2>3. QED
    BY <2>2
<1>3. f \in [0..n -> 1..m]
  BY <1>2
<1>4. /\ IsFiniteSet(0..n) /\ Cardinality(0..n) = n + 1
      /\ IsFiniteSet(1..m) /\ Cardinality(1..m) = m
  <2>1. n \in Nat /\ m \in Nat
    OBVIOUS
  <2> HIDE DEF n, m
  <2>2. 0 \in Int /\ 1 \in Int /\ n \in Int /\ m \in Int
    BY <2>1
  <2>3. IsFiniteSet(0..n) /\ Cardinality(0..n) = IF 0 > n THEN 0 ELSE n - 0 + 1
    BY <2>2, FS_Interval
  <2>4. IsFiniteSet(1..m) /\ Cardinality(1..m) = IF 1 > m THEN 0 ELSE m - 1 + 1
    BY <2>2, FS_Interval
  <2>5. (IF 0 > n THEN 0 ELSE n - 0 + 1) = n + 1 /\ (IF 1 > m THEN 0 ELSE m - 1 + 1) = m
    BY <2>1
  <2>6. QED
    BY <2>3, <2>4, <2>5
<1> HIDE DEF f
<1>5. PICK i \in 0..n, k \in 0..n : i # k /\ f[i] = f[k]
  <2>1. Cardinality(1..m) < Cardinality(0..n)
    BY <1>1, <1>4
  <2> HIDE DEF n, m
  <2>2. QED
    BY <1>3, <1>4, <2>1, FS_PigeonHole
<1>6. Value(i) = Value(k)
  BY <1>2, <1>5
<1>7. \A l \in 1..n : p[l] # row
  BY DEF Contains
<1>8. (i # 0 => i \in 1..n) /\ (k # 0 => k \in 1..n)
  OBVIOUS
<1>9. QED
  BY <1>5, <1>6, <1>7, <1>8 DEF Distinct

\* The rows of acc that wait are rows of the screen, each once, and those of j
\* and the transcript among the first n are among them or durable.
Tracked(j, acc, snap, n) ==
    /\ Onward(j, acc)
    /\ acc.rows = j.rows /\ acc.durable = j.durable /\ acc.drops = j.drops
    /\ Distinct(acc.pending)
    /\ \A x : Contains(acc.pending, x) => Contains(snap, x)
    /\ \A x : Contains(j.pending, x) => Contains(acc.pending, x)
    /\ \A i \in 1..n :
           IsTranscript(snap[i]) => IsDurable(acc, snap[i]) \/ Contains(acc.pending, snap[i])

LEMMA AddTracked ==
    ASSUME NEW j, NEW acc, NEW snap, Len(snap) \in Nat, Len(snap) <= PendingCap, NEW n \in Nat,
           n + 1 <= Len(snap), Tracked(j, acc, snap, n)
    PROVE  Tracked(j, AddPending(acc, snap[n + 1]), snap, n + 1)
<1> DEFINE row == snap[n + 1]
           p == acc.pending
           k == AddPending(acc, row)
<1>1. JournalStands(acc) /\ IsSeq(p) /\ Len(p) \in Nat
  BY SeqLen DEF Tracked, Onward, JournalStands
<1>2. Onward(j, k)
  BY <1>1, AddPendingOnward, OnwardOnward DEF Tracked
<1>3. Contains(snap, row) /\ \A i \in 1..(n + 1) : i \in 1..n \/ i = n + 1
  <2>1. n + 1 \in 1..Len(snap)
    OBVIOUS
  <2>2. QED
    BY <2>1 DEF Contains
<1>4. CASE ~IsTranscript(row) \/ IsDurable(acc, row) \/ Contains(p, row)
  <2>1. k = acc
    BY <1>4 DEF AddPending
  <2> HIDE DEF k
  <2>2. QED
    BY <1>3, <1>4, <2>1 DEF Tracked, k
<1>5. CASE ~(~IsTranscript(row) \/ IsDurable(acc, row) \/ Contains(p, row))
  <2>1. Len(p) < Len(snap)
    BY <1>1, <1>3, <1>5, RoomToWait DEF Tracked
  <2>2. Len(p) # PendingCap
    BY <1>1, <2>1, JournalAssumption
  <2> DEFINE q == Append(p, row)
  <2>3. k = [acc EXCEPT !.pending = q]
    BY <1>5, <2>2 DEF AddPending
  <2>4. IsSeq(q) /\ (\A y : Contains(q, y) <=> Contains(p, y) \/ y = row) /\ Distinct(q)
    BY <1>1, <1>5, AppendIsSeq, AppendedContains DEF Tracked
  <2> HIDE DEF k, q
  <2>5. k.pending = q /\ k.rows = acc.rows /\ k.durable = acc.durable /\ k.drops = acc.drops
    BY <1>1, <2>3, <2>4, FieldsOnward
  <2>6. \A x : IsDurable(acc, x) => IsDurable(k, x)
    BY <2>5 DEF IsDurable
  <2> HIDE DEF p, row
  <2>7. QED
    BY <1>2, <1>3, <2>4, <2>5, <2>6 DEF Tracked, p, k, row
<1>6. QED
  BY <1>4, <1>5

LEMMA TrackPendingIs ==
    ASSUME NEW j, JournalStands(j), Distinct(j.pending), NEW snap, Len(snap) \in Nat,
           Len(snap) <= PendingCap, \A x : Contains(j.pending, x) => Contains(snap, x),
           LooksLikeCodex(snap)
    PROVE  Tracked(j, TrackPending(j, snap), snap, Len(snap))
<1> DEFINE m == Len(snap)
           f == CHOOSE h : PendingUpTo(j, snap, m, h)
           S == {n \in Nat : n <= m => Tracked(j, f[n], snap, n)}
<1>1. TrackPending(j, snap) = f[m]
  BY DEF TrackPending, Folded, PendingUpTo, AddPending
<1>2. PendingUpTo(j, snap, m, f)
  BY PendingUpToExists
<1>3. m \in Nat
  OBVIOUS
<1> HIDE DEF f, m
<1>4. f[0] = j /\ \A n \in 0..m : n # 0 => f[n] = AddPending(f[n - 1], snap[n])
  BY <1>2, <1>3 DEF PendingUpTo
<1>5. 0 \in S
  BY <1>4, OnwardItself DEF Tracked
<1>6. ASSUME NEW n \in Nat, n \in S PROVE n + 1 \in S
  <2>1. SUFFICES ASSUME n + 1 <= m PROVE Tracked(j, f[n + 1], snap, n + 1)
    OBVIOUS
  <2>2. n <= m /\ n + 1 \in 0..m /\ n + 1 # 0 /\ (n + 1) - 1 = n
    BY <1>3, <2>1
  <2>3. Tracked(j, f[n], snap, n) /\ f[n + 1] = AddPending(f[n], snap[n + 1])
    BY <1>4, <1>6, <2>2
  <2>4. QED
    BY <2>1, <2>3, AddTracked DEF m
<1> HIDE DEF S
<1>7. m \in S
  BY <1>3, <1>5, <1>6, Induction
<1>8. QED
  BY <1>1, <1>3, <1>7 DEF S, m

LEMMA ToSetIs ==
    ASSUME NEW s, IsSeq(s) PROVE \A x : x \in ToSet(s) <=> Contains(s, x)
BY SeqLen DEF ToSet, Contains

\* The rows that are gone from the screen become durable, the others wait.
LEMMA CommitPendingIs ==
    ASSUME NEW j, JournalStands(j), NEW snap, IsSeq(snap)
    PROVE  LET k == CommitPending(j, snap)
           IN /\ Onward(j, k)
              /\ Distinct(j.pending) => Distinct(k.pending)
              /\ \A x : Contains(k.pending, x) <=> Contains(j.pending, x) /\ Contains(snap, x)
              /\ k.drops = 0 =>
                     \A x : Contains(j.pending, x) => IsDurable(k, x) \/ Contains(k.pending, x)
<1> DEFINE s == Dropping(j.pending, ToSet(snap))
           gone == ToSet(j.pending) \ ToSet(snap)
           r == Folded(AppendUnlessDurable, j, s)
           p == Dropping(r.pending, gone)
           k == CommitPending(j, snap)
<1>1. k = [r EXCEPT !.pending = p]
  BY DEF CommitPending
<1>2. IsSeq(j.pending) /\ Len(j.pending) \in Nat
  BY SeqLen DEF JournalStands
<1>3. /\ \A x : x \in ToSet(snap) <=> Contains(snap, x)
      /\ \A x : x \in ToSet(j.pending) <=> Contains(j.pending, x)
  BY <1>2, ToSetIs
<1>4. IsSeq(s) /\ \A x : Contains(s, x) <=> Contains(j.pending, x) /\ ~Contains(snap, x)
  BY <1>2, <1>3, DroppingIs
<1>5. \A x : x \in gone <=> Contains(j.pending, x) /\ ~Contains(snap, x)
  BY <1>3
<1> HIDE DEF s, gone, k
<1>6. Len(s) \in Nat
  BY <1>4, SeqLen
<1>7. /\ Onward(j, r) /\ r.pending = j.pending
      /\ r.drops = 0 => \A i \in 1..Len(s) : IsDurable(r, s[i])
  BY <1>6, UnlessFolded
<1> HIDE DEF r
<1>8. /\ IsSeq(p) /\ (Distinct(j.pending) => Distinct(p))
      /\ \A x : Contains(p, x) <=> Contains(j.pending, x) /\ Contains(snap, x)
  BY <1>2, <1>5, <1>7, DroppingIs
<1> HIDE DEF p
<1>9. /\ Onward(r, k) /\ k.pending = p
      /\ k.rows = r.rows /\ k.durable = r.durable /\ k.drops = r.drops
  BY <1>1, <1>7, <1>8, FieldsOnward DEF Onward
<1>10. Onward(j, k)
  BY <1>7, <1>9, OnwardOnward
<1>11. ASSUME k.drops = 0, NEW x, Contains(j.pending, x), ~Contains(snap, x)
       PROVE  IsDurable(k, x)
  <2>1. PICK i \in 1..Len(s) : s[i] = x
    BY <1>4, <1>11 DEF Contains
  <2>2. IsDurable(r, x)
    BY <1>7, <1>9, <1>11, <2>1
  <2>3. QED
    BY <1>9, <2>2 DEF IsDurable
<1>12. QED
  BY <1>8, <1>9, <1>10, <1>11 DEF k

\* Every row of R is durable or waits to become so.
Held(j, R) == \A row \in R : IsDurable(j, row) \/ Contains(j.pending, row)

LEMMA HeldOnward ==
    ASSUME NEW j, NEW k, Onward(j, k), k.drops = 0, NEW R, Held(j, R),
           \A x : Contains(j.pending, x) => IsDurable(k, x) \/ Contains(k.pending, x)
    PROVE  Held(k, R)
BY DurableOnward DEF Held

LEMMA NoDropsBefore ==
    ASSUME NEW j, NEW k, Onward(j, k), k.drops = 0 PROVE j.drops = 0
<1>1. j.drops \in Nat /\ j.drops <= 0
  BY JournalNumbers DEF Onward
<1>2. QED
  BY <1>1

LEMMA CommitsKeepPending ==
    ASSUME NEW j, JournalStands(j), NEW snap
    PROVE  /\ CommitSubmittedCommand(j, snap).pending = j.pending
           /\ CommitSubmittedPrompt(j, snap).pending = j.pending
           /\ CommitDisappeared(j, snap).pending = j.pending
<1>1. \E x : CommitSubmittedCommand(j, snap) \in {j, AppendDurable(j, x)}
  BY DEF CommitSubmittedCommand, CommitLast
<1>2. \E x : CommitSubmittedPrompt(j, snap) \in {j, AppendDurable(j, x)}
  BY DEF CommitSubmittedPrompt, CommitLast
<1> DEFINE stays == {row \in ToSet(LiveRows(j)) : ~IsTranscript(row) \/ Contains(snap, row)}
           s == Dropping(LiveRows(j), stays)
<1>3. CommitDisappeared(j, snap) \in {j, Folded(AppendUnlessDurable, j, s)}
  BY DEF CommitDisappeared
<1>4. Len(LiveRows(j)) \in Nat
  BY LiveRowsAre, SeqLen
<1> HIDE DEF stays
<1>5. Len(s) \in Nat
  BY <1>4, DroppingIs, SeqLen
<1> HIDE DEF s
<1>6. Folded(AppendUnlessDurable, j, s).pending = j.pending
  BY <1>5, UnlessFolded
<1>7. QED
  BY <1>1, <1>2, <1>3, <1>6, AppendDurableOnward

\* The rows of the screen are rows of the journal.
LEMMA ShownAreRows ==
    ASSUME NEW j, Exact(j), j.live = 0, NEW snap, IsSeq(snap), ReplaceLiveTail(j, snap).drops = 0
    PROVE  \A x : Contains(snap, x) => Contains(ReplaceLiveTail(j, snap).rows, x)
<1> DEFINE r == ReplaceLiveTail(j, snap)
           m == Len(j.rows)
           n == Len(snap)
           W == j.rows \o snap
<1>1. IsSeq(j.rows) /\ m \in Nat /\ n \in Nat
  BY SeqLen DEF Exact, JournalStands
<1>2. /\ IsSeq(W) /\ Len(W) = m + n
      /\ \A i \in 1..(m + n) : W[i] = IF i <= m THEN j.rows[i] ELSE snap[i - m]
  BY <1>1, TwoIsSeq
<1>3. Replaced(j, snap, r)
  BY <1>1, ReplaceLiveIs
<1> HIDE DEF r, m, n, W
<1>4. /\ m \in 0..Len(W) /\ m <= m /\ m + n <= Len(W) /\ Len(W) \in Nat
      /\ \A i \in 1..m : m - m + i = i /\ i \in 1..(m + n) /\ i <= m
      /\ \A i \in 1..n : m + i \in 1..(m + n) /\ ~(m + i <= m) /\ (m + i) - m = i
  BY <1>1, <1>2
<1>5. EndsAt(j.rows, W, m)
  BY <1>2, <1>4 DEF EndsAt, m
<1>6. Follows(snap, W, m)
  BY <1>2, <1>4 DEF Follows, n
<1>7. EndsAt(r.rows, W, m + n) /\ Len(r.rows) = m + n
  BY <1>3, <1>5, <1>6 DEF Replaced, m, n, r
<1>8. ASSUME NEW i \in 1..n PROVE r.rows[m + i] = snap[i] /\ m + i \in 1..Len(r.rows)
  <2>1. (m + n) - (m + n) + (m + i) = m + i /\ m + i \in 1..(m + n)
    BY <1>1, <1>4
  <2>2. r.rows[m + i] = W[m + i]
    BY <1>7, <2>1 DEF EndsAt
  <2>3. QED
    BY <1>2, <1>4, <1>7, <2>1, <2>2
<1>9. QED
  BY <1>8 DEF Contains, r, n

LEMMA SnapshotFits ==
    ASSUME NEW g, g.rows \in Nat \ {0} PROVE Len(Snapshot(g)) <= g.rows
<1> DEFINE text == {r \in 0..(g.rows - 1) : HasText(Cells(g)[r])}
           a == Max(text)
           b == Min(text)
           s == Snapshot(g)
<1>1. CASE text = {}
  BY <1>1, EmptyIsSeq DEF Snapshot
<1>2. CASE text # {}
  <2>1. s = [i \in 1..(a - b + 1) |-> Cells(g)[b + i - 1]]
    BY <1>2 DEF Snapshot
  <2>2. g.rows - 1 \in Nat /\ text \subseteq 0..(g.rows - 1)
    OBVIOUS
  <2> HIDE DEF text, s
  <2>3. a \in text /\ b \in text /\ b <= a
    BY <1>2, <2>2, Extremes
  <2> HIDE DEF a, b
  <2>4. a \in 0..(g.rows - 1) /\ b \in 0..(g.rows - 1)
    BY <2>2, <2>3
  <2>5. a - b + 1 \in Nat /\ a - b + 1 <= g.rows
    BY <2>2, <2>3, <2>4
  <2>6. s = [i \in 1..(a - b + 1) |-> s[i]]
    BY <2>1
  <2>7. Len(s) = a - b + 1
    BY <2>5, <2>6, FunctionIsSeq
  <2>8. QED
    BY <2>5, <2>7 DEF s
<1>3. QED
  BY <1>1, <1>2

\* What waits is on the screen, and so in the journal, each row once.
Waiting(j) ==
    /\ Distinct(j.pending)
    /\ j.drops = 0 => \A x : Contains(j.pending, x) => Contains(j.rows, x)

\* The transcript on a screen of Codex.
Transcript(snap) ==
    IF LooksLikeCodex(snap) THEN {row \in ToSet(snap) : IsTranscript(row)} ELSE {}

LEMMA CaptureTextKeeps ==
    ASSUME NEW j, JournalStands(j), Distinct(j.pending), NEW g, g.count \in Nat,
           NEW snap, IsSeq(snap), Len(snap) <= PendingCap, NEW R, j.drops = 0 => Held(j, R)
    PROVE  LET z == CaptureText(j, g, snap)
           IN Waiting(z) /\ (z.drops = 0 => Held(z, R \cup Transcript(snap)))
<1> DEFINE a == CommitSubmittedCommand(j, snap)
           b == CommitSubmittedPrompt(a, snap)
           c == CommitPending(b, snap)
           d == CommitDisappeared(c, snap)
           e == TrackPending(d, snap)
           f == DropLive(e)
           y == SyncScrollback(f, g)
           z == ReplaceLiveTail(y, snap)
           T == Transcript(snap)
<1>1. CaptureText(j, g, snap) = z
  BY DEF CaptureText
<1> HIDE DEF z
<1>2. Len(snap) \in Nat /\ \A k, l : Onward(k, l) => JournalStands(l)
  BY SeqLen DEF Onward
<1>3. Onward(j, a) /\ a.pending = j.pending
  BY CommitSubmittedOnward, CommitsKeepPending
<1> HIDE DEF a
<1>4. Onward(a, b) /\ b.pending = j.pending
  BY <1>2, <1>3, CommitSubmittedOnward, CommitsKeepPending
<1> HIDE DEF b
<1>5. /\ Onward(b, c) /\ Distinct(c.pending)
      /\ \A x : Contains(c.pending, x) => Contains(snap, x)
      /\ c.drops = 0 => \A x : Contains(b.pending, x) => IsDurable(c, x) \/ Contains(c.pending, x)
  BY <1>2, <1>4, CommitPendingIs
<1> HIDE DEF c
<1>6. Onward(c, d) /\ d.pending = c.pending
  BY <1>2, <1>5, CommitDisappearedOnward, CommitsKeepPending
<1> HIDE DEF d
<1>7. /\ Onward(d, e) /\ Distinct(e.pending)
      /\ \A x : Contains(e.pending, x) => Contains(snap, x)
      /\ \A x : Contains(d.pending, x) => Contains(e.pending, x)
      /\ Held(e, T)
  <2>1. CASE LooksLikeCodex(snap)
    <3>1. Tracked(d, e, snap, Len(snap))
      BY <1>2, <1>5, <1>6, <2>1, TrackPendingIs
    <3> HIDE DEF e
    <3>2. ASSUME NEW row \in T PROVE IsDurable(e, row) \/ Contains(e.pending, row)
      <4>1. IsTranscript(row) /\ Contains(snap, row)
        BY <2>1, ToSetIs DEF Transcript
      <4>2. PICK i \in 1..Len(snap) : snap[i] = row
        BY <4>1 DEF Contains
      <4>3. QED
        BY <3>1, <4>1, <4>2 DEF Tracked
    <3>3. QED
      BY <3>1, <3>2 DEF Tracked, Held
  <2>2. CASE ~LooksLikeCodex(snap)
    <3>1. e = d /\ T = {}
      BY <2>2 DEF TrackPending, Transcript
    <3>2. Onward(d, d)
      BY <1>2, <1>6, OnwardItself
    <3> HIDE DEF e, T
    <3>3. QED
      BY <1>5, <1>6, <3>1, <3>2 DEF Held
  <2>3. QED
    BY <2>1, <2>2
<1> HIDE DEF e, T
<1>8. Onward(e, f) /\ f.pending = e.pending /\ f.live = 0
  BY <1>2, <1>7, DropLiveIs
<1> HIDE DEF f
<1>9. Onward(f, y) /\ y.pending = f.pending /\ y.live = 0 /\ Exact(y)
  BY <1>2, <1>8, SyncIs
<1> HIDE DEF y
<1>10. Onward(y, z) /\ z.pending = y.pending
  BY <1>2, <1>9, ReplaceLiveIs DEF Replaced, z
<1>11. ASSUME z.drops = 0
       PROVE  Held(z, R) /\ Held(z, T)
  <2>1. /\ y.drops = 0 /\ f.drops = 0 /\ e.drops = 0 /\ d.drops = 0 /\ c.drops = 0 /\ b.drops = 0
        /\ a.drops = 0 /\ j.drops = 0
    BY <1>3, <1>4, <1>5, <1>6, <1>7, <1>8, <1>9, <1>10, <1>11, NoDropsBefore
  <2>2. Held(b, R)
    BY <1>3, <1>4, <2>1, HeldOnward
  <2>3. Held(c, R)
    BY <1>5, <2>1, <2>2, HeldOnward
  <2>4. Held(e, R)
    BY <1>6, <1>7, <2>1, <2>3, HeldOnward
  <2>5. \A U : Held(e, U) => Held(z, U)
    BY <1>8, <1>9, <1>10, <1>11, <2>1, HeldOnward
  <2>6. QED
    BY <1>7, <2>4, <2>5
<1>12. ASSUME z.drops = 0, NEW x, Contains(z.pending, x) PROVE Contains(z.rows, x)
  BY <1>7, <1>8, <1>9, <1>10, <1>12, ShownAreRows DEF z
<1>13. Distinct(z.pending)
  BY <1>7, <1>8, <1>9, <1>10
<1>14. QED
  BY <1>1, <1>11, <1>12, <1>13 DEF Waiting, Held, T

LEMMA CaptureBlankKeeps ==
    ASSUME NEW j, JournalStands(j), Waiting(j), NEW R, j.drops = 0 => Held(j, R)
    PROVE  Waiting(CaptureBlank(j)) /\ (CaptureBlank(j).drops = 0 => Held(CaptureBlank(j), R))
<1> DEFINE c == CommitPending(j, <<>>)
           k == DropLive(c)
<1>1. CASE CaptureBlank(j) = j
  BY <1>1
<1>2. CASE CaptureBlank(j) = k
  <2>1. IsSeq(<<>>) /\ \A x : ~Contains(<<>>, x)
    BY EmptyIsSeq DEF Contains
  <2>2. /\ Onward(j, c) /\ Distinct(c.pending) /\ \A x : ~Contains(c.pending, x)
        /\ c.drops = 0 => \A x : Contains(j.pending, x) => IsDurable(c, x)
    BY <2>1, CommitPendingIs DEF Waiting
  <2> HIDE DEF c
  <2>3. Onward(c, k) /\ k.pending = c.pending /\ k.drops = c.drops
    BY <2>2, DropLiveIs DEF Onward
  <2> HIDE DEF k
  <2>4. ASSUME k.drops = 0 PROVE Held(k, R)
    <3>1. c.drops = 0 /\ j.drops = 0
      BY <2>2, <2>3, <2>4, NoDropsBefore
    <3>2. Held(c, R)
      BY <2>2, <3>1, HeldOnward
    <3>3. QED
      BY <2>3, <2>4, <3>2, HeldOnward
  <2>5. QED
    BY <1>2, <2>2, <2>3, <2>4 DEF Waiting
<1>3. QED
  BY <1>1, <1>2 DEF CaptureBlank

-----------------------------------------------------------------------------
(* What waits fits: the screen is no taller than the buffer, and keeps its *)
(* width.                                                                  *)

OneWidth ==
    \A size \in Sizes \cup {FirstSize} : size[1] <= PendingCap /\ size[2] = FirstSize[2]

\* A session in which what Codex has shown is durable or waits.
Known(s) ==
    /\ SessionStands(s)
    /\ s.grid.rows <= PendingCap /\ s.grid.cols = FirstSize[2]
    /\ Waiting(s.journal)
    /\ s.journal.drops = 0 => Held(s.journal, s.history.transcript)

LEMMA CapturedKnown ==
    ASSUME NEW s, Known(s) PROVE Known(Captured(s))
<1> DEFINE c == Captured(s)
           g == s.grid
           j == s.journal
           R == s.history.transcript
           snap == Snapshot(g)
           codex == ~g.usingAlternate /\ LooksLikeCodex(snap)
           shown == {row \in ToSet(snap) : IsTranscript(row)}
           h == IF codex THEN SeenCodex(s.history, shown) ELSE s.history
<1>1. c = [s EXCEPT !.journal = Capture(j, g), !.history = h]
  BY DEF Captured
<1> HIDE DEF h
<1>2. SessionStands(s) /\ SessionStands(c)
  BY CapturedStands DEF Known
<1>3. c.grid = g /\ c.journal = Capture(j, g) /\ c.history = h
  BY <1>1, <1>2 DEF SessionStands
<1> HIDE DEF c
<1>4. h.transcript = IF codex THEN R \cup shown ELSE R
  BY <1>2 DEF h, SeenCodex, SessionStands
<1>5. /\ RingStands(g) /\ JournalStands(j) /\ j.cols = g.cols /\ Waiting(j) /\ Distinct(j.pending)
      /\ j.drops = 0 => Held(j, R)
  BY <1>2 DEF SessionStands, Known, Waiting
<1>6. g.count \in Nat /\ g.rows \in Nat \ {0}
  BY <1>5, RingNumbers DEF RingStands
<1>7. IsSeq(snap) /\ Len(snap) <= PendingCap
  <2>1. IsSeq(snap) /\ Len(snap) \in Nat /\ Len(snap) <= g.rows /\ g.rows <= PendingCap
    BY <1>6, SnapshotIsSeq, SnapshotFits DEF Known
  <2> HIDE DEF snap, g
  <2>2. QED
    BY <1>6, <2>1, JournalAssumption
<1>8. Configure(j, g.cols) = j
  BY <1>5 DEF Configure
<1>9. Waiting(c.journal) /\ (c.journal.drops = 0 => Held(c.journal, c.history.transcript))
  <2>1. CASE g.usingAlternate
    <3>1. c.journal = j /\ c.history.transcript = R
      BY <1>3, <1>4, <2>1 DEF Capture
    <3>2. QED
      BY <1>5, <3>1
  <2>2. CASE ~g.usingAlternate /\ snap = <<>>
    <3>1. ~LooksLikeCodex(snap)
      BY <2>2 DEF LooksLikeCodex, HasRowWith
    <3>2. c.journal = CaptureBlank(j) /\ c.history.transcript = R
      BY <1>3, <1>4, <1>8, <2>2, <3>1 DEF Capture
    <3>3. QED
      BY <1>5, <3>2, CaptureBlankKeeps
  <2>3. CASE ~g.usingAlternate /\ snap # <<>>
    <3>1. c.journal = CaptureText(j, g, snap)
      BY <1>3, <1>8, <2>3 DEF Capture
    <3>2. c.history.transcript = R \cup Transcript(snap)
      BY <1>3, <1>4, <2>3 DEF Transcript
    <3> HIDE DEF snap, g, j, R
    <3> DEFINE z == CaptureText(j, g, snap)
    <3>3. Waiting(z) /\ (z.drops = 0 => Held(z, R \cup Transcript(snap)))
      BY <1>5, <1>6, <1>7, CaptureTextKeeps
    <3> HIDE DEF z
    <3>4. c.journal = z
      BY <3>1 DEF z
    <3>5. QED
      BY <3>2, <3>3, <3>4
  <2>4. QED
    BY <2>1, <2>2, <2>3
<1>10. QED
  BY <1>2, <1>3, <1>9 DEF Known, c

LEMMA FedKnown ==
    ASSUME NEW s, Known(s), NEW ops, AreOperations(ops) PROVE Known(Fed(s, ops))
<1> DEFINE h == FeedGrid(s.grid, ops)
           t == [s EXCEPT !.grid = h]
<1>1. Later(s.grid, h)
  BY FeedLater DEF Known, SessionStands
<1> HIDE DEF h
<1>2. /\ DOMAIN t = {"grid", "journal", "history"}
      /\ t.grid = h /\ t.journal = s.journal /\ t.history = s.history
  BY DEF Known, SessionStands
<1>3. Fed(s, ops) = Captured(t)
  BY DEF Fed, h
<1> HIDE DEF t
<1>4. h.drops = 0 => s.grid.drops = 0
  BY <1>1 DEF Later, RingStands
<1>5. ~s.history.codex /\ h.drops = 0 => Faithful(s.journal, h.left)
  BY <1>1, <1>4, FaithfulLater DEF Known, SessionStands
<1>6. SessionStands(t)
  BY <1>1, <1>2, <1>5 DEF Known, SessionStands, Later
<1>7. Known(t)
  BY <1>1, <1>2, <1>6 DEF Known, Later
<1>8. QED
  BY <1>3, <1>7, CapturedKnown

\* A journal that knows of nothing.
LEMMA NothingWaits ==
    ASSUME NEW j, j.pending = <<>> PROVE Waiting(j) /\ Held(j, {})
BY EmptyIsSeq DEF Waiting, Distinct, Contains, Held

LEMMA EmptiedKnown ==
    ASSUME NEW s, Known(s) PROVE Known(Emptied(s))
<1> DEFINE e == Emptied(s)
           g == ClearGrid(s.grid)
           j == ClearJournal(s.journal)
           h == NoHistory(s.history.writes, s.history.resizes)
<1>1. e.grid = g /\ e.journal = j /\ e.history = h
  BY DEF Emptied
<1>2. h.transcript = {}
  BY DEF NoHistory
<1>3. j.pending = <<>>
  BY DEF ClearJournal, Known, SessionStands, JournalStands, JournalFields
<1>4. g.rows = s.grid.rows /\ g.cols = s.grid.cols
  BY ClearStands DEF Known, SessionStands
<1> HIDE DEF e, g, j, h
<1>5. SessionStands(e)
  BY EmptiedStands DEF Known, e
<1>6. QED
  BY <1>1, <1>2, <1>3, <1>4, <1>5, NothingWaits DEF Known, e

(***************************************************************************)
(* The inductive invariant of the transcript.                              *)
(***************************************************************************)
TranscriptInv == Known(Session)

LEMMA KnownBecomes ==
    ASSUME NEW s, Known(s), NEW t, DOMAIN t = {"grid", "journal", "history"},
           t.grid = s.grid, t.journal = s.journal,
           DOMAIN t.history = DOMAIN s.history, t.history.codex = s.history.codex,
           t.history.transcript = s.history.transcript
    PROVE  Known(t)
BY DEF Known, SessionStands

LEMMA BecomesKnown == ASSUME NEW s, Known(s), Becomes(s) PROVE TranscriptInv'
BY KnownBecomes DEF Becomes, TranscriptInv, Session

LEMMA TranscriptInit == OneWidth /\ Init => TranscriptInv
<1> SUFFICES ASSUME OneWidth, Init PROVE TranscriptInv
  OBVIOUS
<1> DEFINE g == NewGrid(FirstSize[1], FirstSize[2])
           j == NewJournal(FirstSize[2])
           h == NoHistory(0, 0)
           new == [grid |-> g, journal |-> j, history |-> h]
           s == Fed(new, Message)
<1>1. grid = s.grid /\ journal = s.journal /\ history = s.history
  BY DEF Init
<1>2. /\ RingStands(g) /\ g.left = <<>> /\ g.rows = FirstSize[1] /\ g.cols = FirstSize[2]
      /\ FirstSize[1] <= PendingCap
  BY SizesAre, NewStands DEF OneWidth
<1>3. /\ DOMAIN j = JournalFields /\ j.rows = <<>> /\ j.durable = 0 /\ j.live = 0 /\ j.seen = 0
      /\ j.pending = <<>> /\ j.drops = 0 /\ j.cols = FirstSize[2]
  BY DEF NewJournal, JournalFields
<1>4. DOMAIN h = {"codex", "transcript", "writes", "resizes"} /\ h.transcript = {}
  BY DEF NoHistory
<1>5. /\ DOMAIN new = {"grid", "journal", "history"}
      /\ new.grid = g /\ new.journal = j /\ new.history = h
  OBVIOUS
<1> HIDE DEF new, g, j, h
<1>6. JournalStands(j) /\ Faithful(j, <<>>)
  <2>1. 0 \in Nat
    OBVIOUS
  <2>2. QED
    BY <1>3, <2>1, NothingFaithful
<1>7. SessionStands(new)
  BY <1>2, <1>3, <1>4, <1>5, <1>6 DEF SessionStands
<1>8. Known(new)
  BY <1>2, <1>3, <1>4, <1>5, <1>7, NothingWaits DEF Known
<1>9. Known(s)
  BY <1>8, FedKnown, TerminalAssumption
<1>10. SessionStands(s)
  BY <1>9 DEF Known
<1> HIDE DEF s
<1>11. QED
  BY <1>1, <1>9, <1>10, KnownBecomes DEF TranscriptInv, Session, SessionStands

LEMMA KnownStays ==
    ASSUME TranscriptInv, grid' = grid, journal' = journal,
           DOMAIN history' = DOMAIN history, history'.codex = history.codex,
           history'.transcript = history.transcript
    PROVE  TranscriptInv'
BY KnownBecomes DEF TranscriptInv, Session

LEMMA FlushKnown == TranscriptInv /\ TickFlushes => TranscriptInv'
<1> SUFFICES ASSUME TranscriptInv, TickFlushes PROVE TranscriptInv'
  OBVIOUS
<1> DEFINE announce == (backend.dead \/ backend.child = "exited") /\ ~backend.notified
           Announced(s) == IF announce THEN Fed(s, Message) ELSE s
<1>1. \/ \E ops \in Chunks : Becomes(Announced(Fed(Session, ops)))
      \/ Becomes(Announced(Session))
  BY DEF TickFlushes
<1>2. ASSUME NEW s, Known(s) PROVE Known(Announced(s))
  BY <1>2, FedKnown, TerminalAssumption
<1> HIDE DEF Announced
<1>3. Known(Session) /\ \A ops \in Chunks : Known(Fed(Session, ops))
  BY FedKnown, TerminalAssumption DEF TranscriptInv
<1>4. QED
  BY <1>1, <1>2, <1>3, BecomesKnown

LEMMA ResizeKnown == OneWidth /\ TranscriptInv /\ Resize => TranscriptInv'
<1> SUFFICES ASSUME OneWidth, TranscriptInv, Resize PROVE TranscriptInv'
  OBVIOUS
<1>1. PICK size \in Sizes :
          Becomes(Captured(
              [grid |-> ResizeGrid(grid, size[1], size[2]),
               journal |-> Configure(journal, size[2]),
               history |-> [history EXCEPT !.resizes = @ + 1,
                   !.transcript = IF size[2] = grid.cols THEN @ ELSE {}]]))
  BY DEF Resize
<1> DEFINE h == [history EXCEPT !.resizes = @ + 1,
                     !.transcript = IF size[2] = grid.cols THEN @ ELSE {}]
           g == ResizeGrid(grid, size[1], size[2])
           t == [grid |-> g, journal |-> Configure(journal, size[2]), history |-> h]
<1>2. /\ Known(Session) /\ SessionStands(Session) /\ Session.grid = grid
      /\ Session.journal = journal /\ Session.history = history
  BY DEF TranscriptInv, Session, Known
<1>3. size[2] = grid.cols /\ size[2] = FirstSize[2] /\ size[1] <= PendingCap
  BY <1>2 DEF Known, OneWidth
<1>4. /\ DOMAIN h = {"codex", "transcript", "writes", "resizes"} /\ h.codex = history.codex
      /\ h.transcript = history.transcript
  BY <1>2, <1>3 DEF SessionStands
<1>5. Becomes(Captured(t))
  BY <1>1
<1>6. t.grid = g /\ t.history = h
  OBVIOUS
<1>7. size[1] \in Nat \ {0} /\ size[2] \in Nat \ {0}
  BY SizesAre
<1>8. g.rows = size[1] /\ g.cols = size[2] /\ SessionStands(t) /\ t.journal = journal
  <2>1. RingStands(grid)
    BY <1>2 DEF SessionStands
  <2> DEFINE Resized(rows, cols) == ResizeGrid(grid, rows, cols)
  <2>2. g.rows = size[1] /\ g.cols = size[2]
    <3>1. \A rows, cols \in Nat \ {0} :
              Resized(rows, cols).rows = rows /\ Resized(rows, cols).cols = cols
      BY <2>1, ResizeStands
    <3> HIDE DEF Resized
    <3>2. g = Resized(size[1], size[2])
      BY DEF Resized
    <3> HIDE DEF g
    <3>3. QED
      BY <1>7, <3>1, <3>2
  <2> HIDE DEF h
  <2>3. SessionStands(t) /\ (size[2] = grid.cols => t.journal = journal)
    BY <1>2, <1>4, <1>7, ResizedStands
  <2>4. QED
    BY <1>3, <2>2, <2>3
<1> HIDE DEF t, g, h
<1>9. Known(t)
  BY <1>2, <1>3, <1>4, <1>6, <1>7, <1>8 DEF Known
<1>10. QED
  BY <1>5, <1>9, CapturedKnown, BecomesKnown

LEMMA TranscriptNext == OneWidth /\ TranscriptInv /\ [Next]_vars => TranscriptInv'
<1> SUFFICES ASSUME OneWidth, TranscriptInv, [Next]_vars PROVE TranscriptInv'
  OBVIOUS
<1>1. CASE ChildExits
  BY <1>1, KnownStays DEF ChildExits
<1>2. CASE TickReads
  <2>1. DOMAIN history = {"codex", "transcript", "writes", "resizes"}
    BY DEF TranscriptInv, Known, Session, SessionStands
  <2>2. /\ DOMAIN history' = DOMAIN history /\ history'.codex = history.codex
        /\ history'.transcript = history.transcript
    BY <1>2, <2>1 DEF TickReads
  <2>3. grid' = grid /\ journal' = journal
    BY <1>2 DEF TickReads
  <2>4. QED
    BY <2>2, <2>3, KnownStays
<1>3. CASE TickFlushes
  BY <1>3, FlushKnown
<1>4. CASE Resize
  BY <1>4, ResizeKnown
<1>5. CASE Clear
  BY <1>5, EmptiedKnown, BecomesKnown DEF Clear, TranscriptInv
<1>6. CASE SpawnShell
  BY <1>6, EmptiedKnown, FedKnown, BecomesKnown, TerminalAssumption DEF SpawnShell, TranscriptInv
<1>7. CASE UNCHANGED vars
  BY <1>7, KnownStays DEF vars
<1>8. QED
  BY <1>1, <1>2, <1>3, <1>4, <1>5, <1>6, <1>7 DEF Next

\* What is durable or waits is in the journal.
LEMMA InvTranscript == TranscriptInv => TranscriptKept
<1> SUFFICES ASSUME TranscriptInv, journal.drops = 0, NEW row \in history.transcript
             PROVE  Contains(journal.rows, row)
  BY DEF TranscriptKept
<1>1. /\ JournalStands(journal) /\ Waiting(journal) /\ Held(journal, history.transcript)
  BY DEF TranscriptInv, Known, Session, SessionStands
<1>2. CASE IsDurable(journal, row)
  <2>1. \A i \in 1..journal.durable : i \in 1..Len(journal.rows)
    BY <1>1, JournalNumbers
  <2>2. QED
    BY <1>2, <2>1 DEF IsDurable, Contains
<1>3. CASE Contains(journal.pending, row)
  BY <1>1, <1>3 DEF Waiting
<1>4. QED
  BY <1>1, <1>2, <1>3 DEF Held

(***************************************************************************)
(* A row of text once shown by Codex stays in the journal, if the pane     *)
(* keeps its width and is never taller than the buffer of pending rows     *)
(* (journal_pending_add drops the oldest of more).                         *)
(***************************************************************************)
THEOREM TranscriptStays ==
    ASSUME OneWidth
    PROVE  Spec => []TranscriptKept
<1>1. Init => TranscriptInv
  BY TranscriptInit
<1>2. TranscriptInv /\ [Next]_vars => TranscriptInv'
  BY TranscriptNext
<1>3. QED
  BY <1>1, <1>2, InvTranscript, PTL DEF Spec
=============================================================================
