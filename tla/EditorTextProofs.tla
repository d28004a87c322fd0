-------------------------- MODULE EditorTextProofs --------------------------
(***************************************************************************)
(* The two stacks of the history share the room of one, for every limit    *)
(* MaxUndo, every alphabet, every text and any number of commands.         *)
(*                                                                         *)
(* HistoryShared becomes inductive with the shape of the history added.    *)
(* What the entries hold does not matter: they are of some set S, which    *)
(* grows with each entry.                                                  *)
(***************************************************************************)
EXTENDS EditorText, SequenceTheorems, WellFoundedInduction, TLAPS

History(S) == [undo : Seq(S), redo : Seq(S), pending : BOOLEAN]

\* A history of entries whose stacks share the room of one.
SharedHistory(h) == \E S : h \in History(S) /\ Len(h.undo) + Len(h.redo) <= MaxUndo

-----------------------------------------------------------------------------
\* Sequences.

LEMMA SeqGrows ==
    ASSUME NEW S, NEW T, S \subseteq T, NEW s \in Seq(S)
    PROVE  s \in Seq(T)
  OBVIOUS

LEMMA AppendGrows ==
    ASSUME NEW S, NEW s \in Seq(S), NEW e
    PROVE  /\ Append(s, e) \in Seq(S \cup {e})
           /\ Len(Append(s, e)) = Len(s) + 1
  <1>1. s \in Seq(S \cup {e})
    BY SeqGrows
  <1> QED
    BY <1>1

LEMMA TailShrinks ==
    ASSUME NEW S, NEW s \in Seq(S), s # <<>>
    PROVE  Tail(s) \in Seq(S) /\ Len(Tail(s)) = Len(s) - 1
  OBVIOUS

LEMMA RestShrinks ==
    ASSUME NEW S, NEW s \in Seq(S), s # <<>>
    PROVE  Rest(s) \in Seq(S) /\ Len(Rest(s)) = Len(s) - 1
  <1>1. Len(s) \in Nat \ {0}
    BY EmptySeq
  <1>2. \A i \in 1..(Len(s) - 1) : s[i] \in S
    BY <1>1, ElementOfSeq
  <1>3. /\ SubSeq(s, 1, Len(s) - 1) \in Seq(S)
        /\ Len(SubSeq(s, 1, Len(s) - 1)) = IF 1 <= Len(s) - 1 THEN Len(s) - 1 - 1 + 1 ELSE 0
    BY <1>1, <1>2, SubSeqProperties
  <1>4. Rest(s) = SubSeq(s, 1, Len(s) - 1)
    BY DEF Rest
  <1> DEFINE n == Len(s)
             r == SubSeq(s, 1, Len(s) - 1)
  <1>5. n \in Nat \ {0} /\ Len(r) = IF 1 <= n - 1 THEN n - 1 - 1 + 1 ELSE 0
    BY <1>1, <1>3
  <1>6. Len(r) = n - 1
    <2> HIDE DEF n, r
    <2> QED
      BY <1>5
  <1> QED
    BY <1>3, <1>4, <1>6

-----------------------------------------------------------------------------
\* Each operation on the history keeps it shared.

LEMMA PushedShared ==
    ASSUME NEW h, SharedHistory(h), NEW d
    PROVE  SharedHistory(Pushed(h, d))
  <1>1. PICK S : h \in History(S) /\ Len(h.undo) + Len(h.redo) <= MaxUndo
    BY DEF SharedHistory
  <1> DEFINE base == IF Len(h.undo) >= MaxUndo THEN Tail(h.undo) ELSE h.undo
             T == S \cup {Entry(d)}
  <1>2. h.undo \in Seq(S) /\ h.redo \in Seq(S) /\ Len(h.undo) \in Nat /\ Len(h.redo) \in Nat
    BY <1>1 DEF History
  <1>3. base \in Seq(S) /\ Len(base) < MaxUndo
    <2>1. CASE Len(h.undo) >= MaxUndo
      <3>1. Len(h.undo) = MaxUndo
        <4> DEFINE m == Len(h.undo)
                   n == Len(h.redo)
        <4>1. m \in Nat /\ n \in Nat /\ m + n <= MaxUndo /\ m >= MaxUndo
          BY <1>1, <1>2, <2>1
        <4> HIDE DEF m, n
        <4>2. m = MaxUndo
          BY <4>1, UndoAssumption
        <4> QED
          BY <4>2 DEF m
      <3>2. h.undo # <<>>
        BY <3>1, Len(<<>>) = 0, UndoAssumption
      <3>3. Tail(h.undo) \in Seq(S) /\ Len(Tail(h.undo)) = Len(h.undo) - 1
        BY <3>2, <1>2, TailShrinks
      <3>4. base = Tail(h.undo)
        BY <2>1
      <3> QED
        BY <3>1, <3>3, <3>4, UndoAssumption
    <2>2. CASE ~(Len(h.undo) >= MaxUndo)
      BY <2>2, <1>2, UndoAssumption
    <2> QED
      BY <2>1, <2>2
  <1>4. Append(base, Entry(d)) \in Seq(T) /\ Len(Append(base, Entry(d))) = Len(base) + 1
    BY <1>3, AppendGrows
  <1>5. Pushed(h, d) = [undo |-> Append(base, Entry(d)), redo |-> <<>>, pending |-> h.pending]
    <2>1. h = [undo |-> h.undo, redo |-> h.redo, pending |-> h.pending]
      BY <1>1 DEF History
    <2> DEFINE new == Append(base, Entry(d))
    <2>2. Pushed(h, d) = [h EXCEPT !.undo = new, !.redo = <<>>]
      BY DEF Pushed
    <2> HIDE DEF new, base
    <2>3. [h EXCEPT !.undo = new, !.redo = <<>>] = [undo |-> new, redo |-> <<>>, pending |-> h.pending]
      <3> DEFINE g == [h EXCEPT !.undo = new]
      <3>1. g = [undo |-> new, redo |-> h.redo, pending |-> h.pending]
        BY <2>1
      <3> HIDE DEF g
      <3>2. [g EXCEPT !.redo = <<>>] = [undo |-> new, redo |-> <<>>, pending |-> h.pending]
        BY <3>1
      <3> QED
        BY <3>2 DEF g
    <2> QED
      BY <2>2, <2>3 DEF new
  <1>6. Pushed(h, d) \in History(T)
    <2>1. <<>> \in Seq(T)
      OBVIOUS
    <2> HIDE DEF base, T
    <2> QED
      BY <1>1, <1>4, <1>5, <2>1 DEF History
  <1>7. Len(Pushed(h, d).undo) + Len(Pushed(h, d).redo) <= MaxUndo
    <2>1. Len(base) \in Nat /\ Len(<<>>) = 0
      BY <1>3
    <2> HIDE DEF base
    <2> QED
      BY <1>3, <1>4, <1>5, <2>1, UndoAssumption
  <1> HIDE DEF T
  <1> QED
    BY <1>6, <1>7 DEF SharedHistory

LEMMA PendingShared ==
    ASSUME NEW h, SharedHistory(h), NEW b \in BOOLEAN
    PROVE  SharedHistory([h EXCEPT !.pending = b])
  BY DEF SharedHistory, History

LEMMA CommittedShared ==
    ASSUME NEW h, SharedHistory(h), NEW d
    PROVE  SharedHistory(Committed(h, d))
  BY PushedShared, PendingShared DEF Committed

\* What is taken off one stack makes room for what goes onto the other.
LEMMA UndoneShared ==
    ASSUME NEW h, SharedHistory(h), NEW d, h.undo # <<>>
    PROVE  SharedHistory([undo |-> Rest(h.undo), redo |-> Stacked(h.redo, d), pending |-> FALSE])
  <1>1. PICK S : h \in History(S) /\ Len(h.undo) + Len(h.redo) <= MaxUndo
    BY DEF SharedHistory
  <1> DEFINE T == S \cup {Entry(d)}
             k == [undo |-> Rest(h.undo), redo |-> Stacked(h.redo, d), pending |-> FALSE]
  <1>2. h.undo \in Seq(S) /\ h.redo \in Seq(S) /\ Len(h.undo) \in Nat /\ Len(h.redo) \in Nat
    BY <1>1 DEF History
  <1>3. Rest(h.undo) \in Seq(S) /\ Len(Rest(h.undo)) = Len(h.undo) - 1
    BY <1>2, RestShrinks
  <1>4. Rest(h.undo) \in Seq(T) /\ h.redo \in Seq(T)
    BY <1>2, <1>3, SeqGrows
  <1>5. /\ Append(h.redo, Entry(d)) \in Seq(T)
        /\ Len(Append(h.redo, Entry(d))) = Len(h.redo) + 1
    BY <1>2, AppendGrows
  <1>6. Stacked(h.redo, d) \in Seq(T) /\ Len(Stacked(h.redo, d)) <= Len(h.redo) + 1
    BY <1>2, <1>4, <1>5 DEF Stacked
  <1>7. k \in History(T) /\ Len(k.undo) + Len(k.redo) <= MaxUndo
    <2>1. Len(Stacked(h.redo, d)) \in Nat
      BY <1>6
    <2> HIDE DEF T
    <2>2. k \in History(T)
      BY <1>4, <1>3, <1>6 DEF History
    <2>3. Len(k.undo) + Len(k.redo) <= MaxUndo
      <3> DEFINE m == Len(h.undo)
                 n == Len(h.redo)
                 i == Len(Rest(h.undo))
                 j == Len(Stacked(h.redo, d))
      <3>1. /\ m \in Nat /\ n \in Nat /\ j \in Nat /\ i = m - 1 /\ j <= n + 1
            /\ m + n <= MaxUndo
        BY <1>1, <1>2, <1>3, <1>6, <2>1
      <3>2. k.undo = Rest(h.undo) /\ k.redo = Stacked(h.redo, d)
        OBVIOUS
      <3>3. i + j <= MaxUndo
        <4> HIDE DEF k, m, n, i, j
        <4> QED
          BY <3>1, UndoAssumption
      <3> HIDE DEF k
      <3> QED
        BY <3>2, <3>3
    <2> QED
      BY <2>2, <2>3
  <1> HIDE DEF k, T
  <1>8. SharedHistory(k)
    BY <1>7 DEF SharedHistory
  <1> QED
    BY <1>8 DEF k

LEMMA RedoneShared ==
    ASSUME NEW h, SharedHistory(h), NEW d, h.redo # <<>>
    PROVE  SharedHistory([undo |-> Stacked(h.undo, d), redo |-> Rest(h.redo), pending |-> FALSE])
  <1>1. PICK S : h \in History(S) /\ Len(h.undo) + Len(h.redo) <= MaxUndo
    BY DEF SharedHistory
  <1> DEFINE T == S \cup {Entry(d)}
             k == [undo |-> Stacked(h.undo, d), redo |-> Rest(h.redo), pending |-> FALSE]
  <1>2. h.undo \in Seq(S) /\ h.redo \in Seq(S) /\ Len(h.undo) \in Nat /\ Len(h.redo) \in Nat
    BY <1>1 DEF History
  <1>3. Rest(h.redo) \in Seq(S) /\ Len(Rest(h.redo)) = Len(h.redo) - 1
    BY <1>2, RestShrinks
  <1>4. Rest(h.redo) \in Seq(T) /\ h.undo \in Seq(T)
    BY <1>2, <1>3, SeqGrows
  <1>5. /\ Append(h.undo, Entry(d)) \in Seq(T)
        /\ Len(Append(h.undo, Entry(d))) = Len(h.undo) + 1
    BY <1>2, AppendGrows
  <1>6. Stacked(h.undo, d) \in Seq(T) /\ Len(Stacked(h.undo, d)) <= Len(h.undo) + 1
    BY <1>2, <1>4, <1>5 DEF Stacked
  <1>7. k \in History(T) /\ Len(k.undo) + Len(k.redo) <= MaxUndo
    <2>1. Len(Stacked(h.undo, d)) \in Nat
      BY <1>6
    <2> HIDE DEF T
    <2>2. k \in History(T)
      BY <1>4, <1>3, <1>6 DEF History
    <2>3. Len(k.undo) + Len(k.redo) <= MaxUndo
      <3> DEFINE m == Len(h.redo)
                 n == Len(h.undo)
                 i == Len(Rest(h.redo))
                 j == Len(Stacked(h.undo, d))
      <3>1. /\ m \in Nat /\ n \in Nat /\ j \in Nat /\ i = m - 1 /\ j <= n + 1
            /\ n + m <= MaxUndo
        BY <1>1, <1>2, <1>3, <1>6, <2>1
      <3>2. k.undo = Stacked(h.undo, d) /\ k.redo = Rest(h.redo)
        OBVIOUS
      <3>3. j + i <= MaxUndo
        <4> HIDE DEF k, m, n, i, j
        <4> QED
          BY <3>1, UndoAssumption
      <3> HIDE DEF k
      <3> QED
        BY <3>2, <3>3
    <2> QED
      BY <2>2, <2>3
  <1> HIDE DEF k, T
  <1>8. SharedHistory(k)
    BY <1>7 DEF SharedHistory
  <1> QED
    BY <1>8 DEF k

-----------------------------------------------------------------------------
\* The specification.

HistoryInv == SharedHistory(hist)

LEMMA InitShared == Init => HistoryInv
  <1> SUFFICES ASSUME Init PROVE SharedHistory(hist)
    BY DEF HistoryInv
  <1>1. hist = [undo |-> <<>>, redo |-> <<>>, pending |-> FALSE]
    BY DEF Init
  <1>2. hist \in History({})
    BY <1>1, EmptySeq DEF History
  <1>3. Len(hist.undo) + Len(hist.redo) <= MaxUndo
    BY <1>1, Len(<<>>) = 0, UndoAssumption
  <1> QED
    BY <1>2, <1>3 DEF SharedHistory

LEMMA StepShared == HistoryInv /\ [Next]_vars => HistoryInv'
  <1> SUFFICES ASSUME SharedHistory(hist), [Next]_vars PROVE SharedHistory(hist')
    BY DEF HistoryInv
  <1>1. ASSUME NEW c \in Chars, Type(c) PROVE SharedHistory(hist')
    BY <1>1, CommittedShared, PendingShared DEF Type, LeavesBehind
  <1>2. CASE TypeTab
    BY <1>2, CommittedShared DEF TypeTab, LeavesBehind
  <1>3. CASE InsertNewline
    BY <1>3, CommittedShared, PushedShared DEF InsertNewline, LeavesBehind
  <1>4. CASE DeleteCharacter
    <2>1. SharedHistory(Pushed(hist, doc)) /\ SharedHistory(Pushed(Pushed(hist, doc), doc))
      BY PushedShared
    <2>2. hist' \in {hist, Pushed(hist, doc), Pushed(Pushed(hist, doc), doc)}
      BY <1>4 DEF DeleteCharacter, LeavesBehind, Stray
    <2> QED
      BY <2>1, <2>2
  <1>5. CASE DeleteForward
    BY <1>5, PushedShared DEF DeleteForward, LeavesBehind, Stray
  <1>6. CASE Copy
    BY <1>6 DEF Copy, Stray
  <1>7. CASE Cut
    BY <1>7, PushedShared DEF Cut, LeavesBehind, Stray
  <1>8. CASE Paste
    BY <1>8, PushedShared DEF Paste, LeavesBehind, Stray
  <1>9. CASE Undo
    BY <1>9, UndoneShared DEF Undo
  <1>10. CASE Redo
    BY <1>10, RedoneShared DEF Redo
  <1>11. CASE Save
    BY <1>11 DEF Save
  <1>12. ASSUME NEW shift \in BOOLEAN, DuplicateLine(shift) PROVE SharedHistory(hist')
    BY <1>12, CommittedShared, PushedShared DEF DuplicateLine, LeavesBehind, Stray
  <1>13. ASSUME NEW key, NEW mods, MoveCursor(key, mods) PROVE SharedHistory(hist')
    BY <1>13 DEF MoveCursor, Shows, Stray
  <1>14. ASSUME NEW key, NEW shift, JumpToEnd(key, shift) PROVE SharedHistory(hist')
    BY <1>14 DEF JumpToEnd, Shows, Stray
  <1>15. CASE SelectAll
    BY <1>15 DEF SelectAll, Shows
  <1>16. ASSUME NEW p, JumpTo(p) \/ Click(p) \/ Drag(p) PROVE SharedHistory(hist')
    BY <1>16 DEF JumpTo, Click, Drag, Shows
  <1>17. CASE Release \/ GrabThumb
    BY <1>17 DEF Release, GrabThumb, Shows
  <1>18. ASSUME NEW t, Reload(t) \/ Patch(t) PROVE SharedHistory(hist')
    BY <1>18, PushedShared DEF Reload, Patch
  <1>19. CASE UNCHANGED vars
    BY <1>19 DEF vars
  <1> QED
    BY <1>1, <1>2, <1>3, <1>4, <1>5, <1>6, <1>7, <1>8, <1>9, <1>10, <1>11, <1>12, <1>13,
       <1>14, <1>15, <1>16, <1>17, <1>18, <1>19 DEF Next

\* Undo and redo never find the other stack full, whatever the limit: no text
\* that is left by a step back or forward is dropped (performUndo, performRedo).
THEOREM RoomIsShared == Spec => []HistoryShared
  <1>1. HistoryInv => HistoryShared
    BY DEF HistoryInv, SharedHistory, HistoryShared
  <1> QED
    BY <1>1, InitShared, StepShared, PTL DEF Spec

-----------------------------------------------------------------------------
\* A document that counts as unmodified shows the saved text.  Inductive with
\* the shape of the document: commands that move write into its other fields.

IsDoc(d) == d = [lines |-> d.lines, cursor |-> d.cursor, anchor |-> d.anchor,
                 selecting |-> d.selecting]

CleanInv == IsDoc(doc) /\ CleanIsSaved

LEMMA DocFields ==
    ASSUME NEW d, IsDoc(d), NEW x
    PROVE  /\ IsDoc([d EXCEPT !.lines = x]) /\ [d EXCEPT !.lines = x].lines = x
           /\ IsDoc([d EXCEPT !.cursor = x]) /\ [d EXCEPT !.cursor = x].lines = d.lines
           /\ IsDoc([d EXCEPT !.anchor = x]) /\ [d EXCEPT !.anchor = x].lines = d.lines
           /\ IsDoc([d EXCEPT !.selecting = x]) /\ [d EXCEPT !.selecting = x].lines = d.lines
  BY DEF IsDoc

LEMMA EditsKeepShape ==
    ASSUME NEW d, IsDoc(d)
    PROVE  /\ IsDoc(Removed(d)) /\ IsDoc(Unselected(d))
           /\ \A chars : IsDoc(Typed(d, chars))
           /\ IsDoc(SplitLine(d)) /\ IsDoc(Erased(d)) /\ IsDoc(ErasedForward(d))
           /\ \A clip : IsDoc(Pasted(d, clip))
           /\ IsDoc(Duplicated(d))
           /\ \A e : IsDoc(Recalled(d, e))
  <1>1. IsDoc(Removed(d))
    BY DocFields DEF Removed
  <1>2. IsDoc(Unselected(d))
    BY <1>1 DEF Unselected
  <1>3. ASSUME NEW chars PROVE IsDoc(Typed(d, chars))
    BY DocFields DEF Typed
  <1>4. IsDoc(SplitLine(d))
    BY DocFields DEF SplitLine
  <1>5. IsDoc(Erased(d))
    BY DocFields DEF Erased
  <1>6. IsDoc(ErasedForward(d))
    BY DocFields DEF ErasedForward
  <1>7. ASSUME NEW clip PROVE IsDoc(Pasted(d, clip))
    BY <1>2, DocFields DEF Pasted
  <1>8. IsDoc(Duplicated(d))
    BY DocFields DEF Duplicated
  <1>9. ASSUME NEW e PROVE IsDoc(Recalled(d, e))
    BY DocFields DEF Recalled
  <1> QED
    BY <1>1, <1>2, <1>3, <1>4, <1>5, <1>6, <1>7, <1>8, <1>9

LEMMA CommandedKeeps ==
    ASSUME NEW shift, IsDoc(doc)
    PROVE  IsDoc(Commanded(shift)) /\ Commanded(shift).lines = doc.lines
  BY DEF Commanded, IsDoc

LEMMA InitClean == Init => CleanInv
  BY DEF Init, CleanInv, IsDoc, CleanIsSaved

LEMMA StepClean == CleanInv /\ [Next]_vars => CleanInv'
  <1> SUFFICES ASSUME CleanInv, [Next]_vars PROVE IsDoc(doc') /\ CleanIsSaved'
    BY DEF CleanInv
  <1>0. IsDoc(doc) /\ CleanIsSaved
    BY DEF CleanInv
  <1>s. ASSUME Stray PROVE IsDoc(doc') /\ CleanIsSaved'
    BY <1>0, <1>s DEF Stray, CleanIsSaved
  <1>m. ASSUME NEW d, NEW h, LeavesBehind(d, h, TRUE), IsDoc(d) PROVE IsDoc(doc') /\ CleanIsSaved'
    BY <1>m DEF LeavesBehind, CleanIsSaved
  <1>k. ASSUME NEW h, LeavesBehind(doc, h, FALSE) PROVE IsDoc(doc') /\ CleanIsSaved'
    BY <1>0, <1>k DEF LeavesBehind, CleanIsSaved
  <1>v. ASSUME NEW x, NEW y, NEW z, Shows(x, y, z) PROVE IsDoc(doc') /\ CleanIsSaved'
    <2> DEFINE a == [doc EXCEPT !.cursor = x]
               b == [a EXCEPT !.anchor = y]
    <2>1. IsDoc(a) /\ a.lines = doc.lines
      BY <1>0, DocFields
    <2>2. doc' = [b EXCEPT !.selecting = z]
      BY <1>v DEF Shows
    <2> HIDE DEF a
    <2>3. IsDoc(b) /\ b.lines = doc.lines
      BY <2>1, DocFields
    <2> HIDE DEF b
    <2>4. IsDoc(doc') /\ doc'.lines = doc.lines
      BY <2>2, <2>3, DocFields
    <2> QED
      BY <1>0, <1>v, <2>4 DEF Shows, CleanIsSaved
  <1>1. ASSUME NEW c \in Chars, Type(c) PROVE IsDoc(doc') /\ CleanIsSaved'
    BY <1>0, <1>1, <1>m, EditsKeepShape DEF Type
  <1>2. CASE TypeTab
    BY <1>0, <1>2, <1>m, EditsKeepShape DEF TypeTab
  <1>3. CASE InsertNewline
    BY <1>0, <1>3, <1>m, <1>k, EditsKeepShape DEF InsertNewline
  <1>4. CASE DeleteCharacter
    <2>1. CASE doc.selecting
      BY <1>0, <1>4, <1>m, <1>s, <2>1, EditsKeepShape DEF DeleteCharacter
    <2>2. CASE ~doc.selecting /\ doc.cursor = At(1, 0)
      <3>1. Erased(doc) = doc
        BY <2>2 DEF Erased, At
      <3> QED
        BY <1>0, <1>4, <1>k, <2>2, <3>1 DEF DeleteCharacter
    <2>3. CASE ~doc.selecting /\ doc.cursor # At(1, 0)
      BY <1>0, <1>4, <1>m, <1>k, <2>3, EditsKeepShape DEF DeleteCharacter
    <2> QED
      BY <2>1, <2>2, <2>3
  <1>5. CASE DeleteForward
    BY <1>0, <1>5, <1>m, <1>s, EditsKeepShape DEF DeleteForward
  <1>6. CASE Copy
    BY <1>0, <1>6, <1>s DEF Copy, CleanIsSaved
  <1>7. CASE Cut
    BY <1>0, <1>7, <1>m, <1>s, EditsKeepShape DEF Cut
  <1>8. CASE Paste
    BY <1>0, <1>8, <1>m, <1>s, EditsKeepShape DEF Paste
  <1>9. CASE Undo
    BY <1>0, <1>9, EditsKeepShape DEF Undo, CleanIsSaved
  <1>10. CASE Redo
    BY <1>0, <1>10, EditsKeepShape DEF Redo, CleanIsSaved
  <1>11. CASE Save
    BY <1>0, <1>11 DEF Save, CleanIsSaved
  <1>12. ASSUME NEW shift \in BOOLEAN, DuplicateLine(shift) PROVE IsDoc(doc') /\ CleanIsSaved'
    BY <1>0, <1>12, <1>m, <1>s, EditsKeepShape, CommandedKeeps DEF DuplicateLine
  <1>13. ASSUME NEW key, NEW mods, MoveCursor(key, mods) PROVE IsDoc(doc') /\ CleanIsSaved'
    BY <1>13, <1>s, <1>v DEF MoveCursor
  <1>14. ASSUME NEW key, NEW shift, JumpToEnd(key, shift) PROVE IsDoc(doc') /\ CleanIsSaved'
    BY <1>14, <1>s, <1>v DEF JumpToEnd
  <1>15. CASE SelectAll
    BY <1>15, <1>v DEF SelectAll
  <1>16. ASSUME NEW p, JumpTo(p) \/ Click(p) \/ Drag(p) PROVE IsDoc(doc') /\ CleanIsSaved'
    BY <1>16, <1>v DEF JumpTo, Click, Drag
  <1>17. CASE Release \/ GrabThumb
    BY <1>17, <1>v DEF Release, GrabThumb
  <1>18. ASSUME NEW t, Reload(t) \/ Patch(t) PROVE IsDoc(doc') /\ CleanIsSaved'
    <2>1. doc' = [doc EXCEPT !.lines = t] /\ saved' = t
      BY <1>18 DEF Reload, Patch
    <2>2. IsDoc(doc') /\ doc'.lines = t
      BY <1>0, <2>1, DocFields
    <2> QED
      BY <2>1, <2>2 DEF CleanIsSaved
  <1>19. CASE UNCHANGED vars
    BY <1>0, <1>19 DEF vars, CleanIsSaved
  <1> QED
    BY <1>1, <1>2, <1>3, <1>4, <1>5, <1>6, <1>7, <1>8, <1>9, <1>10, <1>11, <1>12, <1>13,
       <1>14, <1>15, <1>16, <1>17, <1>18, <1>19 DEF Next

\* The watcher and the patch command replace only what is in the file: a
\* document that counts as unmodified has no edit that was not handed to the
\* save queue, after any commands, undos and changes from outside.
THEOREM CleanCorrect == Spec => []CleanIsSaved
  <1>1. CleanInv => CleanIsSaved
    BY DEF CleanInv
  <1> QED
    BY <1>1, InitClean, StepClean, PTL DEF Spec

-----------------------------------------------------------------------------
\* The lines that are pasted.

\* Induction over the natural numbers, about a set: the form with an operator is
\* out of the provers' reach.
LEMMA Induction ==
    ASSUME NEW S, 0 \in S, \A n \in Nat : n \in S => n + 1 \in S
    PROVE  Nat \subseteq S
<1> DEFINE R == {p \in Nat \X Nat : p[1] < p[2]}
           T == Nat \ S
<1>1. OpToRel(<, Nat) = R
  BY DEF OpToRel
<1>2. IsWellFoundedOn(R, Nat)
  BY <1>1, NatLessThanWellFounded
<1>3. SUFFICES ASSUME T # {} PROVE FALSE
  OBVIOUS
<1> HIDE DEF R
<1>4. PICK x \in T : \A y \in T : ~ (<<y, x>> \in R)
  BY <1>2, <1>3, WFMin
<1>5. x \in Nat /\ x # 0
  OBVIOUS
<1>6. x - 1 \in Nat /\ x - 1 < x /\ (x - 1) + 1 = x
  BY <1>5
<1>7. x - 1 \in T
  BY <1>6
<1>8. QED
  BY <1>4, <1>6, <1>7 DEF R

KeptUpTo(clip, m, f) ==
    f = [n \in 0..m |-> IF n = 0 THEN <<>>
                        ELSE IF clip[n] = <<>> THEN f[n - 1]
                        ELSE Append(f[n - 1], clip[n])]

\* The function that Kept defines by recursion exists.
LEMMA KeptExists ==
    ASSUME NEW clip
    PROVE  \A m \in Nat : \E f : KeptUpTo(clip, m, f)
<1> DEFINE S == {m \in Nat : \E f : KeptUpTo(clip, m, f)}
<1>1. 0 \in S
  <2> DEFINE f == [n \in 0..0 |-> <<>>]
  <2>1. KeptUpTo(clip, 0, f)
    BY DEF KeptUpTo
  <2>2. QED
    BY <2>1
<1>2. ASSUME NEW m \in Nat, m \in S PROVE m + 1 \in S
  <2>1. PICK f : KeptUpTo(clip, m, f)
    BY <1>2
  <2> DEFINE next == IF clip[m + 1] = <<>> THEN f[m] ELSE Append(f[m], clip[m + 1])
             g == [n \in 0..(m + 1) |-> IF n = m + 1 THEN next ELSE f[n]]
  <2> HIDE DEF next
  <2>2. ASSUME NEW n \in 0..(m + 1)
        PROVE  g[n] = IF n = 0 THEN <<>>
                      ELSE IF clip[n] = <<>> THEN g[n - 1]
                      ELSE Append(g[n - 1], clip[n])
    <3>1. CASE n = m + 1
      <4>1. n # 0 /\ n - 1 = m /\ n - 1 \in 0..(m + 1) /\ n - 1 # m + 1
        BY <3>1
      <4>2. g[n] = next /\ g[n - 1] = f[m]
        BY <3>1, <4>1
      <4>3. QED
        BY <3>1, <4>1, <4>2 DEF next
    <3>2. CASE n # m + 1
      <4>1. n \in 0..m /\ (n # 0 => n - 1 \in 0..(m + 1) /\ n - 1 # m + 1)
        BY <3>2
      <4>2. g[n] = f[n] /\ (n # 0 => g[n - 1] = f[n - 1])
        BY <3>2, <4>1
      <4>3. f[n] = IF n = 0 THEN <<>>
                   ELSE IF clip[n] = <<>> THEN f[n - 1]
                   ELSE Append(f[n - 1], clip[n])
        BY <2>1, <4>1 DEF KeptUpTo
      <4>4. QED
        BY <4>2, <4>3
    <3>3. QED
      BY <3>1, <3>2
  <2>3. KeptUpTo(clip, m + 1, g)
    BY <2>2 DEF KeptUpTo
  <2>4. QED
    BY <2>3
<1> HIDE DEF S
<1>3. Nat \subseteq S
  BY <1>1, <1>2, Induction
<1>4. QED
  BY <1>3 DEF S

\* What is pasted are lines; of a clipboard without an empty line, all of them.
LEMMA KeptLines ==
    ASSUME NEW L, NEW clip \in Seq(L)
    PROVE  /\ Kept(clip) \in Seq(L)
           /\ (\A i \in 1..Len(clip) : clip[i] # <<>>) => Kept(clip) = clip
<1> DEFINE m == Len(clip)
           k == CHOOSE f : KeptUpTo(clip, m, f)
<1>1. m \in Nat /\ clip \in [1..m -> L]
  BY LenProperties
<1>2. KeptUpTo(clip, m, k)
  BY <1>1, KeptExists
<1>3. Kept(clip) = k[m]
  BY DEF Kept, KeptUpTo
<1> HIDE DEF m, k
<1>4. /\ k[0] = <<>>
      /\ \A n \in 1..m : k[n] = IF clip[n] = <<>> THEN k[n - 1] ELSE Append(k[n - 1], clip[n])
  <2>1. \A n \in 0..m : k[n] = IF n = 0 THEN <<>>
                              ELSE IF clip[n] = <<>> THEN k[n - 1]
                              ELSE Append(k[n - 1], clip[n])
    BY <1>2, Zenon DEF KeptUpTo
  <2>2. 0 \in 0..m /\ \A n \in 1..m : n \in 0..m /\ n # 0
    BY <1>1
  <2>3. QED
    BY <2>1, <2>2
<1> DEFINE S == {n \in Nat : n <= m =>
                     /\ k[n] \in Seq(L)
                     /\ (\A i \in 1..m : clip[i] # <<>>) => k[n] = SubSeq(clip, 1, n)}
<1>5. 0 \in S
  <2>1. SubSeq(clip, 1, 0) = <<>> /\ <<>> \in Seq(L)
    BY SubSeqEmpty
  <2>2. QED
    BY <1>4, <2>1
<1>6. ASSUME NEW n \in Nat, n \in S PROVE n + 1 \in S
  <2>1. SUFFICES ASSUME n + 1 <= m
                 PROVE  /\ k[n + 1] \in Seq(L)
                        /\ (\A i \in 1..m : clip[i] # <<>>) => k[n + 1] = SubSeq(clip, 1, n + 1)
    OBVIOUS
  <2>2. /\ n <= m /\ n + 1 \in 1..m /\ (n + 1) - 1 = n /\ clip[n + 1] \in L
        /\ k[n] \in Seq(L)
        /\ (\A i \in 1..m : clip[i] # <<>>) => k[n] = SubSeq(clip, 1, n)
    BY <1>1, <1>6, <2>1
  <2>3. k[n + 1] = IF clip[n + 1] = <<>> THEN k[n] ELSE Append(k[n], clip[n + 1])
    BY <1>4, <2>2
  <2>4. k[n + 1] \in Seq(L)
    BY <2>2, <2>3
  <2>5. SubSeq(clip, 1, n + 1) = Append(SubSeq(clip, 1, n), clip[n + 1])
    <3>1. 1 \in 1..Len(clip) /\ n + 1 \in 1..Len(clip)
      BY <1>1, <2>2 DEF m
    <3>2. SubSeq(clip, 1, n + 1) = SubSeq(clip, 1, n) \o <<clip[n + 1]>>
      BY <2>2, <3>1, SubSeqRecursiveSecond
    <3>3. SubSeq(clip, 1, n) \in Seq(L)
      BY <1>1, <2>2, SubSeqProperties
    <3>4. QED
      BY <2>2, <3>2, <3>3, AppendIsConcat
  <2>6. QED
    BY <2>2, <2>3, <2>4, <2>5
<1> HIDE DEF S
<1>7. m \in S
  BY <1>1, <1>5, <1>6, Induction
<1>8. SubSeq(clip, 1, m) = clip
  BY SubSeqFull DEF m
<1>9. QED
  BY <1>1, <1>3, <1>7, <1>8 DEF S, m

-----------------------------------------------------------------------------
\* Types.

Place == [row : Nat \ {0}, col : Nat]
Docs == [lines : Text, cursor : Place, anchor : Place, selecting : BOOLEAN]
Entries == [lines : Text, cursor : Place]
Row == Seq(Letters)

\* Every variable stays in its domain: no command makes the document empty.
TextTypes ==
    /\ doc \in Docs
    /\ hist \in History(Entries)
    /\ clipboard \in Text
    /\ saved \in Text
    /\ latest \in Text
    /\ modified \in BOOLEAN
    /\ running \in BOOLEAN

LEMMA LeftOf ==
    ASSUME NEW S, NEW s \in Seq(S), NEW n \in 0..Len(s)
    PROVE  /\ Left(s, n) \in Seq(S) /\ Len(Left(s, n)) = n
           /\ \A i \in 1..n : Left(s, n)[i] = s[i]
<1>1. s \in [1..Len(s) -> S] /\ Len(s) \in Nat
  BY LenProperties
<1>2. \A i \in 1..n : s[i] \in S
  BY <1>1
<1>3. /\ SubSeq(s, 1, n) \in Seq(S)
      /\ Len(SubSeq(s, 1, n)) = IF 1 <= n THEN n - 1 + 1 ELSE 0
      /\ \A i \in 1..n - 1 + 1 : SubSeq(s, 1, n)[i] = s[1 + i - 1]
  BY <1>1, <1>2, SubSeqProperties
<1>4. QED
  BY <1>1, <1>3 DEF Left

LEMMA RightOf ==
    ASSUME NEW S, NEW s \in Seq(S), NEW n \in Nat
    PROVE  /\ Right(s, n) \in Seq(S)
           /\ n <= Len(s) => Len(Right(s, n)) = Len(s) - n
           /\ \A i \in 1..(Len(s) - n) : Right(s, n)[i] = s[n + i]
<1>1. s \in [1..Len(s) -> S] /\ Len(s) \in Nat
  BY LenProperties
<1>2. \A i \in n + 1..Len(s) : s[i] \in S
  BY <1>1
<1>3. /\ SubSeq(s, n + 1, Len(s)) \in Seq(S)
      /\ Len(SubSeq(s, n + 1, Len(s))) = IF n + 1 <= Len(s) THEN Len(s) - (n + 1) + 1 ELSE 0
      /\ \A i \in 1..Len(s) - (n + 1) + 1 : SubSeq(s, n + 1, Len(s))[i] = s[n + 1 + i - 1]
  BY <1>1, <1>2, SubSeqProperties
<1> DEFINE r == SubSeq(s, n + 1, Len(s))
           m == Len(s)
<1> HIDE DEF r, m
<1>4. /\ n <= m => Len(r) = m - n
      /\ \A i \in 1..(m - n) : r[i] = s[n + i]
  <2>1. m \in Nat
    BY <1>1 DEF m
  <2>2. \A i \in 1..(m - n) : i \in 1..m - (n + 1) + 1 /\ n + 1 + i - 1 = n + i
    BY <2>1
  <2>3. Len(r) = IF n + 1 <= m THEN m - (n + 1) + 1 ELSE 0
    BY <1>3 DEF r, m
  <2>4. \A i \in 1..m - (n + 1) + 1 : r[i] = s[n + 1 + i - 1]
    BY <1>3 DEF r, m
  <2>5. QED
    BY <2>1, <2>2, <2>3, <2>4
<1>5. QED
  BY <1>3, <1>4 DEF Right, r, m

LEMMA SpliceOf ==
    ASSUME NEW S, NEW s \in Seq(S), NEW new \in Seq(S),
           NEW first \in 1..Len(s), NEW last \in first..Len(s)
    PROVE  LET r == Splice(s, first, last, new)
           IN  /\ r \in Seq(S)
               /\ Len(r) = first - 1 + Len(new) + (Len(s) - last)
               /\ \A i \in 1..Len(r) :
                     r[i] = IF i < first THEN s[i]
                            ELSE IF i < first + Len(new) THEN new[i - first + 1]
                            ELSE s[i - first - Len(new) + 1 + last]
<1> DEFINE a == Left(s, first - 1)
           b == Right(s, last)
           m == Len(s)
           n == Len(new)
<1>1. m \in Nat /\ n \in Nat /\ first \in 1..m /\ last \in first..m
  OBVIOUS
<1>2. /\ a \in Seq(S) /\ Len(a) = first - 1 /\ \A i \in 1..(first - 1) : a[i] = s[i]
      /\ b \in Seq(S) /\ Len(b) = m - last /\ \A i \in 1..(m - last) : b[i] = s[last + i]
  <2>1. first - 1 \in 0..Len(s) /\ last \in Nat /\ last <= Len(s)
    BY <1>1
  <2>2. a \in Seq(S) /\ Len(a) = first - 1 /\ \A i \in 1..(first - 1) : a[i] = s[i]
    BY <2>1, LeftOf
  <2>3. b \in Seq(S) /\ Len(b) = m - last /\ \A i \in 1..(m - last) : b[i] = s[last + i]
    BY <2>1, RightOf
  <2>4. QED
    BY <2>2, <2>3
<1>3. Splice(s, first, last, new) = (a \o new) \o b
  BY DEF Splice, Left, Right
<1> HIDE DEF a, b
<1> DEFINE c == a \o new
<1>4. /\ c \in Seq(S) /\ Len(c) = first - 1 + n
      /\ \A i \in 1..(first - 1 + n) : c[i] = IF i <= first - 1 THEN a[i] ELSE new[i - (first - 1)]
  <2>1. /\ c \in Seq(S) /\ Len(c) = Len(a) + Len(new)
        /\ \A i \in 1..(Len(a) + Len(new)) :
              c[i] = IF i <= Len(a) THEN a[i] ELSE new[i - Len(a)]
    BY <1>2, ConcatProperties
  <2>2. QED
    BY <1>2, <2>1
<1> HIDE DEF c
<1> DEFINE r == c \o b
<1>5. /\ r \in Seq(S) /\ Len(r) = first - 1 + n + (m - last)
      /\ \A i \in 1..(first - 1 + n + (m - last)) :
            r[i] = IF i <= first - 1 + n THEN c[i] ELSE b[i - (first - 1 + n)]
  <2>1. /\ r \in Seq(S) /\ Len(r) = Len(c) + Len(b)
        /\ \A i \in 1..(Len(c) + Len(b)) :
              r[i] = IF i <= Len(c) THEN c[i] ELSE b[i - Len(c)]
    BY <1>2, <1>4, ConcatProperties
  <2>2. QED
    BY <1>2, <1>4, <2>1
<1> HIDE DEF r, m, n
<1>6. ASSUME NEW i \in 1..Len(r)
      PROVE  r[i] = IF i < first THEN s[i]
                    ELSE IF i < first + n THEN new[i - first + 1]
                    ELSE s[i - first - n + 1 + last]
  <2>1. CASE i < first
    <3>1. i <= first - 1 + n /\ i \in 1..(first - 1 + n) /\ i <= first - 1 /\ i \in 1..(first - 1)
      BY <1>1, <1>5, <2>1
    <3>2. QED
      BY <1>2, <1>4, <1>5, <2>1, <3>1
  <2>2. CASE ~(i < first) /\ i < first + n
    <3>1. i <= first - 1 + n /\ i \in 1..(first - 1 + n) /\ ~(i <= first - 1)
      BY <1>1, <1>5, <2>2
    <3>2. i - (first - 1) = i - first + 1
      BY <1>1
    <3>3. QED
      BY <1>4, <1>5, <2>2, <3>1, <3>2
  <2>3. CASE ~(i < first) /\ ~(i < first + n)
    <3>1. ~(i <= first - 1 + n) /\ i - (first - 1 + n) \in 1..(m - last)
      BY <1>1, <1>5, <2>3
    <3>2. last + (i - (first - 1 + n)) = i - first - n + 1 + last
      BY <1>1
    <3>3. QED
      BY <1>2, <1>5, <2>3, <3>1, <3>2
  <2>4. QED
    BY <2>1, <2>2, <2>3
<1>7. QED
  BY <1>3, <1>5, <1>6 DEF c, r, m, n

LEMMA TextSpliced ==
    ASSUME NEW s \in Text, NEW new \in Seq(Row), new # <<>>,
           NEW first \in 1..Len(s), NEW last \in first..Len(s)
    PROVE  Splice(s, first, last, new) \in Text
<1>1. s \in Seq(Row) /\ Len(s) \in Nat
  BY DEF Text, Row
<1>2. /\ Splice(s, first, last, new) \in Seq(Row)
      /\ Len(Splice(s, first, last, new)) = first - 1 + Len(new) + (Len(s) - last)
  BY <1>1, SpliceOf
<1>3. Len(new) \in Nat \ {0}
  BY EmptySeq
<1>4. Splice(s, first, last, new) # <<>>
  BY <1>1, <1>2, <1>3, Len(<<>>) = 0
<1>5. QED
  BY <1>2, <1>4 DEF Text, Row

-----------------------------------------------------------------------------
\* Every edit makes a document of a document.

LEMMA DocParts ==
    ASSUME NEW d \in Docs
    PROVE  /\ d.lines \in Text /\ d.lines \in Seq(Row) /\ Len(d.lines) \in Nat \ {0}
           /\ d.cursor \in Place /\ d.anchor \in Place
           /\ \A p \in Place : InRows(d, p) =>
                 p.row \in 1..Len(d.lines) /\ d.lines[p.row] \in Row
<1>1. d.lines \in Text /\ d.cursor \in Place /\ d.anchor \in Place
  BY DEF Docs
<1>2. d.lines \in Seq(Row) /\ Len(d.lines) \in Nat \ {0}
  BY <1>1, EmptySeq DEF Text, Row
<1>3. QED
  BY <1>1, <1>2, ElementOfSeq DEF InRows

LEMMA DocMade ==
    ASSUME NEW d \in Docs, NEW x \in Text, NEW p \in Place
    PROVE  /\ [d EXCEPT !.lines = x] \in Docs
           /\ [d EXCEPT !.lines = x, !.cursor = p] \in Docs
           /\ [d EXCEPT !.lines = x, !.cursor = p, !.selecting = FALSE] \in Docs
BY DEF Docs

LEMMA RowReplaced ==
    ASSUME NEW t \in Text, NEW r \in 1..Len(t), NEW line \in Row
    PROVE  [t EXCEPT ![r] = line] \in Text
<1>1. t \in Seq(Row) /\ Len(t) \in Nat
  BY DEF Text, Row
<1>2. [t EXCEPT ![r] = line] \in Seq(Row) /\ Len([t EXCEPT ![r] = line]) = Len(t)
  BY <1>1, ExceptSeq
<1>3. [t EXCEPT ![r] = line] # <<>>
  BY <1>1, <1>2, Len(<<>>) = 0
<1>4. QED
  BY <1>2, <1>3 DEF Text, Row

LEMMA SelectionEnds ==
    ASSUME NEW d \in Docs
    PROVE  /\ From(d) \in Place /\ To(d) \in Place
           /\ From(d).row <= To(d).row
           /\ From(d).row = To(d).row => From(d).col <= To(d).col
           /\ {From(d), To(d)} = {d.anchor, d.cursor}
BY DocParts DEF From, To, Before, Place

LEMMA ClampedPlace ==
    ASSUME NEW d \in Docs, InRows(d, d.cursor)
    PROVE  /\ Clamped(d) \in Place /\ Clamped(d).row = d.cursor.row
           /\ Clamped(d).col \in 0..Len(Line(d))
           /\ Line(d) \in Row /\ Len(Line(d)) \in Nat
<1>1. Line(d) \in Row
  BY DocParts DEF Line
<1>2. Len(Line(d)) \in Nat
  BY <1>1 DEF Row
<1>3. d.cursor.row \in Nat \ {0} /\ d.cursor.col \in Nat
  BY DocParts DEF Place
<1>4. QED
  BY <1>1, <1>2, <1>3 DEF Clamped, At, Min2, Place

LEMMA RemovedDoc ==
    ASSUME NEW d \in Docs, SelectionReadable(d)
    PROVE  Removed(d) \in Docs
<1> DEFINE f == From(d)
           t == To(d)
           first == d.lines[f.row]
           rest == Right(d.lines[t.row], t.col)
           joined == IF f.row = t.row
                     THEN IF t.col > Len(first) THEN first ELSE Left(first, f.col) \o rest
                     ELSE IF f.col > Len(first) THEN first ELSE Left(first, f.col) \o rest
<1>1. /\ f \in Place /\ t \in Place /\ f.row \in 1..Len(d.lines) /\ t.row \in 1..Len(d.lines)
      /\ f.row <= t.row /\ (f.row = t.row => f.col <= t.col)
      /\ first \in Row /\ d.lines[t.row] \in Row /\ Len(first) \in Nat
  <2>1. first \in Row /\ d.lines[t.row] \in Row
    BY SelectionEnds, DocParts DEF SelectionReadable
  <2>2. QED
    BY <2>1, SelectionEnds, DocParts DEF SelectionReadable, Row
<1>2. f.col \in Nat /\ t.col \in Nat
  BY <1>1 DEF Place
<1>3. rest \in Row
  BY <1>1, <1>2, RightOf DEF Row
<1> HIDE DEF first, rest
<1>4. f.col <= Len(first) => Left(first, f.col) \o rest \in Row
  <2>1. f.col <= Len(first) => Left(first, f.col) \in Row
    BY <1>1, <1>2, LeftOf DEF Row
  <2>2. QED
    BY <1>3, <2>1, ConcatProperties DEF Row
<1>5. joined \in Row
  BY <1>1, <1>2, <1>4
<1> HIDE DEF joined
<1>6. <<joined>> \in Seq(Row) /\ <<joined>> # <<>>
  BY <1>5
<1>7. t.row \in f.row..Len(d.lines)
  BY <1>1
<1> DEFINE x == Splice(d.lines, f.row, t.row, <<joined>>)
<1>8. x \in Text
  BY <1>1, <1>6, <1>7, DocParts, TextSpliced
<1>9. Removed(d) = [d EXCEPT !.lines = x, !.cursor = f, !.selecting = FALSE]
  BY DEF Removed, joined, first, rest
<1>10. f \in Place
  BY <1>1
<1> HIDE DEF x, f, t
<1>11. QED
  BY <1>8, <1>9, <1>10, DocMade, ZenonT(40)

LEMMA TypedDoc ==
    ASSUME NEW d \in Docs, InRows(d, d.cursor), NEW chars \in Row
    PROVE  Typed(d, chars) \in Docs
<1> DEFINE c == Clamped(d)
           new == Left(d.lines[c.row], c.col) \o chars \o Right(d.lines[c.row], c.col)
           x == [d.lines EXCEPT ![c.row] = new]
           p == At(c.row, c.col + Len(chars))
<1>1. /\ c \in Place /\ c.row \in 1..Len(d.lines)
      /\ d.lines[c.row] \in Row /\ c.col \in 0..Len(d.lines[c.row]) /\ c.col \in Nat
  BY ClampedPlace, DocParts DEF Line
<1> HIDE DEF c
<1>2. new \in Row
  <2>1. Left(d.lines[c.row], c.col) \in Seq(Letters) /\ Right(d.lines[c.row], c.col) \in Seq(Letters)
    BY <1>1, LeftOf, RightOf DEF Row
  <2>2. QED
    BY <2>1, ConcatProperties DEF Row
<1> HIDE DEF new
<1>3. x \in Text
  BY <1>1, <1>2, DocParts, RowReplaced
<1>4. p \in Place
  BY <1>1 DEF Place, At, Row
<1>5. Typed(d, chars) = [d EXCEPT !.lines = x, !.cursor = p]
  BY DEF Typed, c, new, Docs
<1> HIDE DEF x, p
<1>6. QED
  BY <1>3, <1>4, <1>5, DocMade, ZenonT(40)

LEMMA SplitDoc ==
    ASSUME NEW d \in Docs, InRows(d, d.cursor)
    PROVE  SplitLine(d) \in Docs
<1> DEFINE c == Clamped(d)
           new == <<Left(Line(d), c.col), Right(Line(d), c.col)>>
           x == Splice(d.lines, c.row, c.row, new)
<1>1. /\ c \in Place /\ c.row \in 1..Len(d.lines) /\ c.row \in c.row..Len(d.lines)
      /\ Line(d) \in Row /\ c.col \in 0..Len(Line(d)) /\ c.col \in Nat
  BY ClampedPlace, DocParts DEF Line
<1> HIDE DEF c
<1>2. Left(Line(d), c.col) \in Row /\ Right(Line(d), c.col) \in Row
  BY <1>1, LeftOf, RightOf DEF Row
<1>3. new \in Seq(Row) /\ new # <<>>
  BY <1>2
<1> HIDE DEF new
<1>4. x \in Text
  BY <1>1, <1>3, DocParts, TextSpliced
<1>5. At(c.row + 1, 0) \in Place
  BY <1>1 DEF Place, At
<1>6. SplitLine(d) = [d EXCEPT !.lines = x, !.cursor = At(c.row + 1, 0)]
  BY DEF SplitLine, c, new
<1> HIDE DEF x
<1>7. QED
  BY <1>4, <1>5, <1>6, DocMade

LEMMA MergedText ==
    ASSUME NEW t \in Text, NEW r \in 1..(Len(t) - 1)
    PROVE  Merged(t, r) \in Text
<1>1. t \in Seq(Row) /\ Len(t) \in Nat
  BY DEF Text, Row
<1>2. r \in 1..Len(t) /\ r + 1 \in r..Len(t) /\ r + 1 \in 1..Len(t)
  BY <1>1
<1>3. t[r] \o t[r + 1] \in Row
  <2>1. t[r] \in Row /\ t[r + 1] \in Row
    BY <1>1, <1>2, ElementOfSeq
  <2>2. QED
    BY <2>1, ConcatProperties DEF Row
<1> DEFINE new == <<t[r] \o t[r + 1]>>
<1>4. new \in Seq(Row) /\ new # <<>>
  BY <1>3
<1> HIDE DEF new
<1>5. Splice(t, r, r + 1, new) \in Text
  BY <1>2, <1>4, TextSpliced
<1>6. QED
  BY <1>5 DEF Merged, new

LEMMA ErasedDoc ==
    ASSUME NEW d \in Docs, InRows(d, d.cursor)
    PROVE  Erased(d) \in Docs
<1> DEFINE r == d.cursor.row
           c == d.cursor.col
           line == d.lines[r]
<1>1. /\ r \in 1..Len(d.lines) /\ c \in Nat /\ line \in Row /\ Len(line) \in Nat
      /\ Len(d.lines) \in Nat /\ d.lines \in Text /\ d.lines \in Seq(Row)
  BY DocParts DEF Place, Row
<1>2. CASE c > 0
  <2> DEFINE new == Left(line, Min2(c - 1, Len(line))) \o Right(line, c)
             x == [d.lines EXCEPT ![r] = new]
  <2>1. Min2(c - 1, Len(line)) \in 0..Len(line)
    BY <1>1, <1>2 DEF Min2
  <2>2. new \in Row
    <3>1. /\ Left(line, Min2(c - 1, Len(line))) \in Seq(Letters)
          /\ Right(line, c) \in Seq(Letters)
      BY <1>1, <2>1, LeftOf, RightOf DEF Row
    <3>2. QED
      BY <3>1, ConcatProperties DEF Row
  <2> HIDE DEF new
  <2>3. x \in Text
    BY <1>1, <2>2, RowReplaced
  <2>4. At(r, c - 1) \in Place
    BY <1>1, <1>2 DEF At, Place
  <2>5. Erased(d) = [d EXCEPT !.lines = x, !.cursor = At(r, c - 1)]
    BY <1>2 DEF Erased, new, Docs
  <2> HIDE DEF x
  <2>6. QED
    BY <2>3, <2>4, <2>5, DocMade
<1>3. CASE ~(c > 0) /\ r > 1
  <2> DEFINE x == Merged(d.lines, r - 1)
             p == At(r - 1, Len(d.lines[r - 1]))
  <2>1. r - 1 \in 1..(Len(d.lines) - 1) /\ r - 1 \in 1..Len(d.lines)
    BY <1>1, <1>3
  <2>2. x \in Text
    BY <1>1, <2>1, MergedText
  <2>3. p \in Place
    <3>1. d.lines[r - 1] \in Row
      BY <1>1, <2>1, ElementOfSeq
    <3>2. r - 1 \in Nat \ {0} /\ Len(d.lines[r - 1]) \in Nat
      BY <1>1, <1>3, <3>1, SMTT(30) DEF Row
    <3>3. QED
      BY <3>2 DEF At, Place
  <2>4. Erased(d) = [d EXCEPT !.lines = x, !.cursor = p]
    BY <1>3 DEF Erased
  <2> HIDE DEF x, p
  <2>5. QED
    BY <2>2, <2>3, <2>4, DocMade, ZenonT(40)
<1>4. CASE ~(c > 0) /\ ~(r > 1)
  BY <1>4 DEF Erased
<1>5. QED
  BY <1>2, <1>3, <1>4

LEMMA ErasedForwardDoc ==
    ASSUME NEW d \in Docs, InRows(d, d.cursor)
    PROVE  ErasedForward(d) \in Docs
<1> DEFINE r == d.cursor.row
           c == d.cursor.col
           line == d.lines[r]
<1>1. /\ r \in 1..Len(d.lines) /\ c \in Nat /\ line \in Row /\ Len(line) \in Nat
      /\ Len(d.lines) \in Nat /\ d.lines \in Text
  BY DocParts DEF Place, Row
<1>2. CASE c < Len(line)
  <2> DEFINE new == Left(line, c) \o Right(line, c + 1)
             x == [d.lines EXCEPT ![r] = new]
  <2>1. new \in Row
    <3>1. c \in 0..Len(line) /\ c + 1 \in Nat /\ line \in Seq(Letters)
      BY <1>1, <1>2 DEF Row
    <3> HIDE DEF line, c
    <3>2. Left(line, c) \in Seq(Letters) /\ Right(line, c + 1) \in Seq(Letters)
      BY <3>1, LeftOf, RightOf
    <3>3. QED
      BY <3>2, ConcatProperties DEF Row
  <2> HIDE DEF new
  <2>2. x \in Text
    BY <1>1, <2>1, RowReplaced
  <2>3. ErasedForward(d) = [d EXCEPT !.lines = x]
    BY <1>2 DEF ErasedForward, Line, new, Docs
  <2> HIDE DEF x
  <2>4. QED
    BY <2>2, <2>3, DocParts, DocMade
<1>3. CASE ~(c < Len(line)) /\ r < Len(d.lines)
  <2> DEFINE x == Merged(d.lines, r)
  <2>1. r \in 1..(Len(d.lines) - 1)
    BY <1>1, <1>3
  <2>2. x \in Text
    BY <1>1, <2>1, MergedText
  <2>3. ErasedForward(d) = [d EXCEPT !.lines = x]
    BY <1>3 DEF ErasedForward, Line
  <2> HIDE DEF x
  <2>4. QED
    BY <2>2, <2>3, DocParts, DocMade
<1>4. CASE ~(c < Len(line)) /\ ~(r < Len(d.lines))
  BY <1>4 DEF ErasedForward, Line
<1>5. QED
  BY <1>2, <1>3, <1>4

LEMMA DuplicatedDoc ==
    ASSUME NEW d \in Docs, InRows(d, d.cursor)
    PROVE  Duplicated(d) \in Docs
<1> DEFINE r == d.cursor.row
           x == Splice(d.lines, r, r, <<Line(d), Line(d)>>)
           p == [d.cursor EXCEPT !.row = @ + 1]
<1>1. r \in 1..Len(d.lines) /\ r \in r..Len(d.lines) /\ Line(d) \in Row /\ d.lines \in Text
  BY DocParts DEF Line, Place
<1>2. <<Line(d), Line(d)>> \in Seq(Row) /\ <<Line(d), Line(d)>> # <<>>
  BY <1>1
<1>3. x \in Text
  BY <1>1, <1>2, TextSpliced
<1>4. p \in Place
  BY DocParts DEF Place
<1>5. Duplicated(d) = [d EXCEPT !.lines = x, !.cursor = p]
  BY DEF Duplicated, Docs
<1> HIDE DEF x, p
<1>6. QED
  BY <1>3, <1>4, <1>5, DocMade, ZenonT(40)

LEMMA RestoredDoc ==
    ASSUME NEW d \in Docs, NEW e \in Entries
    PROVE  Recalled(d, e) \in Docs
<1> DEFINE x == Append(e.lines, <<>>)
<1>1. e.lines \in Seq(Row) /\ <<>> \in Row /\ e.cursor \in Place
  BY DEF Entries, Text, Row
<1>2. x \in Text
  BY <1>1, AppendProperties DEF Text, Row
<1>3. Recalled(d, e) = [d EXCEPT !.lines = x, !.cursor = e.cursor, !.selecting = FALSE]
  BY DEF Recalled
<1> HIDE DEF x
<1>4. QED
  BY <1>1, <1>2, <1>3, DocMade, ZenonT(40)

LEMMA SelectedText ==
    ASSUME NEW d \in Docs, SelectionReadable(d)
    PROVE  Selected(d) \in Text
<1> DEFINE f == From(d)
           t == To(d)
           piece(r) == SubSeq(d.lines[r], IF r = f.row THEN f.col + 1 ELSE 1,
                              IF r = t.row THEN Min2(t.col, Len(d.lines[r])) ELSE Len(d.lines[r]))
           k == t.row - f.row + 1
<1>1. /\ f \in Place /\ t \in Place /\ f.row \in 1..Len(d.lines) /\ t.row \in 1..Len(d.lines)
      /\ f.row <= t.row /\ d.lines \in Seq(Row) /\ Len(d.lines) \in Nat
  BY SelectionEnds, DocParts DEF SelectionReadable
<1>2. f.col \in Nat /\ t.col \in Nat /\ k \in Nat \ {0}
  BY <1>1 DEF Place
<1> HIDE DEF f, t
<1>3. ASSUME NEW i \in 1..k PROVE piece(f.row + i - 1) \in Row
  <2> DEFINE r == f.row + i - 1
             s == d.lines[r]
             a == IF r = f.row THEN f.col + 1 ELSE 1
             b == IF r = t.row THEN Min2(t.col, Len(s)) ELSE Len(s)
  <2>1. r \in 1..Len(d.lines)
    BY <1>1, <1>2
  <2>2. s \in Seq(Letters) /\ Len(s) \in Nat
    BY <1>1, <2>1, ElementOfSeq DEF Row
  <2>3. a \in Nat \ {0} /\ b \in Nat /\ b <= Len(s)
    BY <1>2, <2>2 DEF Min2
  <2> HIDE DEF r, s, a, b
  <2>4. \A j \in a..b : s[j] \in Letters
    BY <2>2, <2>3, ElementOfSeq
  <2>5. SubSeq(s, a, b) \in Seq(Letters)
    BY <2>3, <2>4, SubSeqProperties
  <2>6. QED
    BY <2>5 DEF Row, r, s, a, b
<1> HIDE DEF piece, k
<1>4. [i \in 1..k |-> piece(f.row + i - 1)] \in [1..k -> Row]
  BY <1>3
<1>5. /\ [i \in 1..k |-> piece(f.row + i - 1)] \in Seq(Row)
      /\ Len([i \in 1..k |-> piece(f.row + i - 1)]) = k
  BY <1>2, <1>4, SeqDef, LenProperties
<1>6. Selected(d) = [i \in 1..k |-> piece(f.row + i - 1)]
  BY DEF Selected, piece, f, t, k
<1>7. QED
  BY <1>2, <1>5, <1>6, Len(<<>>) = 0 DEF Text, Row

LEMMA PastedDoc ==
    ASSUME NEW d \in Docs, clipboard \in Text, PasteDefined(d)
    PROVE  Pasted(d, clipboard) \in Docs
<1> DEFINE u == Unselected(d)
           r == u.cursor.row
           c == u.cursor.col
           lines == Kept(clipboard)
           n == Len(lines)
           before == [lines EXCEPT ![1] = Left(Line(u), c) \o @]
           new == [before EXCEPT ![n] = @ \o Right(Line(u), c)]
           x == Splice(u.lines, r, r, new)
           p == At(r + n - 1, Len(before[n]))
<1>1. u \in Docs
  BY RemovedDoc DEF Unselected, PasteDefined
<1>2. /\ r \in 1..Len(u.lines) /\ r \in r..Len(u.lines) /\ r \in Nat \ {0}
      /\ Line(u) \in Row /\ c \in 0..Len(Line(u)) /\ c \in Nat /\ u.lines \in Text
  BY <1>1, DocParts DEF PasteDefined, InText, InRows, Line, Place, Row
<1>3. lines \in Seq(Row) /\ lines # <<>>
  BY KeptLines DEF PasteDefined, Text, Row
<1>4. n \in Nat \ {0} /\ 1 \in 1..n /\ n \in 1..n
  BY <1>3, EmptySeq
<1> HIDE DEF u, r, c, lines
<1>5. Left(Line(u), c) \in Row /\ Right(Line(u), c) \in Row
  BY <1>2, LeftOf, RightOf DEF Row
<1>6. before \in Seq(Row) /\ Len(before) = n
  <2>1. lines[1] \in Row
    BY <1>3, <1>4, ElementOfSeq
  <2>2. Left(Line(u), c) \o lines[1] \in Row
    BY <1>5, <2>1, ConcatProperties DEF Row
  <2>3. QED
    BY <1>3, <1>4, <2>2, ExceptSeq
<1> HIDE DEF before
<1>7. before[n] \in Row /\ Len(before[n]) \in Nat
  BY <1>4, <1>6, ElementOfSeq DEF Row
<1>8. new \in Seq(Row) /\ new # <<>>
  <2>1. before[n] \o Right(Line(u), c) \in Row
    BY <1>5, <1>7, ConcatProperties DEF Row
  <2>2. new \in Seq(Row) /\ Len(new) = n
    BY <1>4, <1>6, <2>1, ExceptSeq
  <2>3. QED
    BY <1>4, <2>2, Len(<<>>) = 0
<1> HIDE DEF new, n
<1>9. x \in Text
  BY <1>2, <1>8, TextSpliced
<1>10. p \in Place
  BY <1>2, <1>4, <1>7 DEF At, Place
<1>11. Pasted(d, clipboard) = [u EXCEPT !.lines = x, !.cursor = p]
  BY DEF Pasted, u, r, c, lines, n, before, new
<1> HIDE DEF x, p
<1>12. QED
  BY <1>1, <1>9, <1>10, <1>11, DocMade, ZenonT(40)

-----------------------------------------------------------------------------
\* So does every command.

LEMMA EntryMade ==
    ASSUME NEW d \in Docs
    PROVE  Entry(d) \in Entries
BY DEF Entry, Entries, Docs

LEMMA HistoryMade ==
    ASSUME NEW h \in History(Entries), NEW d \in Docs
    PROVE  /\ Pushed(h, d) \in History(Entries)
           /\ Committed(h, d) \in History(Entries)
           /\ \A b \in BOOLEAN : [h EXCEPT !.pending = b] \in History(Entries)
<1> DEFINE base == IF Len(h.undo) >= MaxUndo THEN Tail(h.undo) ELSE h.undo
           new == Append(base, Entry(d))
<1>1. h.undo \in Seq(Entries) /\ h.redo \in Seq(Entries) /\ h.pending \in BOOLEAN
  BY DEF History
<1>2. base \in Seq(Entries)
  <2>1. CASE Len(h.undo) >= MaxUndo
    <3>1. h.undo # <<>>
      BY <1>1, <2>1, Len(<<>>) = 0, UndoAssumption
    <3>2. QED
      BY <1>1, <2>1, <3>1, TailShrinks
  <2>2. QED
    BY <1>1, <2>1
<1> HIDE DEF base
<1>3. new \in Seq(Entries)
  BY <1>2, EntryMade, AppendProperties
<1>4. Pushed(h, d) = [h EXCEPT !.undo = new, !.redo = <<>>]
  BY DEF Pushed, base
<1> HIDE DEF new
<1>5. Pushed(h, d) \in History(Entries)
  <2> DEFINE g == [h EXCEPT !.undo = new]
  <2>1. g \in History(Entries)
    BY <1>3 DEF History
  <2>2. Pushed(h, d) = [g EXCEPT !.redo = <<>>]
    BY <1>4
  <2> HIDE DEF g
  <2>3. <<>> \in Seq(Entries)
    OBVIOUS
  <2>4. QED
    BY <2>1, <2>2, <2>3 DEF History
<1>6. \A g \in History(Entries), b \in BOOLEAN : [g EXCEPT !.pending = b] \in History(Entries)
  BY DEF History
<1>7. QED
  BY <1>5, <1>6 DEF Committed

LEMMA StacksMade ==
    ASSUME NEW s \in Seq(Entries), NEW d \in Docs
    PROVE  /\ Stacked(s, d) \in Seq(Entries)
           /\ s # <<>> => Rest(s) \in Seq(Entries) /\ Top(s) \in Entries
<1>1. Append(s, Entry(d)) \in Seq(Entries)
  BY EntryMade, AppendProperties
<1>2. s # <<>> => Len(s) \in 1..Len(s)
  BY EmptySeq
<1>3. s # <<>> => s[Len(s)] \in Entries
  BY <1>2, ElementOfSeq
<1>4. s # <<>> => Rest(s) \in Seq(Entries)
  BY RestShrinks
<1>5. QED
  BY <1>1, <1>3, <1>4 DEF Stacked, Top

LEMMA LeavesTypes ==
    ASSUME TextTypes, NEW d \in Docs, NEW h \in History(Entries), NEW changed \in BOOLEAN,
           LeavesBehind(d, h, changed), clipboard' \in Text
    PROVE  TextTypes'
<1>1. d.lines \in Text
  BY DEF Docs
<1>2. QED
  BY <1>1 DEF LeavesBehind, TextTypes

LEMMA StrayTypes ==
    ASSUME TextTypes, Stray
    PROVE  TextTypes'
BY DEF Stray, TextTypes

LEMMA ShowsTypes ==
    ASSUME TextTypes, NEW x \in Place, NEW y \in Place, NEW z \in BOOLEAN, Shows(x, y, z)
    PROVE  TextTypes'
<1>1. doc' = [doc EXCEPT !.cursor = x, !.anchor = y, !.selecting = z]
  BY DEF Shows
<1>2. doc' \in Docs
  BY <1>1 DEF TextTypes, Docs
<1>3. QED
  BY <1>2 DEF Shows, TextTypes

LEMMA CommandedDoc ==
    ASSUME doc \in Docs, InRows(doc, doc.cursor), NEW shift \in BOOLEAN
    PROVE  /\ Commanded(shift) \in Docs
           /\ InRows(Commanded(shift), Commanded(shift).cursor)
<1>1. Clamped(doc) \in Place /\ Clamped(doc).row = doc.cursor.row
  BY ClampedPlace
<1>2. /\ Commanded(shift) \in Docs
      /\ Commanded(shift).lines = doc.lines /\ Commanded(shift).cursor = Clamped(doc)
  BY <1>1 DEF Commanded, Docs
<1>3. QED
  BY <1>1, <1>2 DEF InRows

LEMMA MovedPlace ==
    ASSUME doc \in Docs, NEW key \in Arrows \cup {"home", "end"}, MoveReadable(key)
    PROVE  Moved(key) \in Place
<1> DEFINE r == doc.cursor.row
           c == doc.cursor.col
           to(row) == At(row, Min2(c, Len(doc.lines[row])))
<1>1. r \in Nat \ {0} /\ c \in Nat /\ doc.cursor \in Place /\ Len(doc.lines) \in Nat \ {0}
  BY DocParts DEF Place
<1>2. \A i \in 1..Len(doc.lines) : Len(doc.lines[i]) \in Nat
  BY DocParts, ElementOfSeq DEF Row
<1>3. \A i \in Nat \ {0}, j \in Nat : At(i, j) \in Place
  BY DEF At, Place
<1>4. \A i \in 1..Len(doc.lines) : to(i) \in Place
  <2>1. \A i \in 1..Len(doc.lines) : Min2(c, Len(doc.lines[i])) \in Nat /\ i \in Nat \ {0}
    BY <1>1, <1>2 DEF Min2
  <2>2. QED
    BY <1>3, <2>1
<1>5. CASE key = "up"
  <2>1. r <= Len(doc.lines) + 1
    BY <1>5 DEF MoveReadable
  <2>2. r > 1 => r - 1 \in 1..Len(doc.lines)
    BY <1>1, <2>1
  <2>3. Moved(key) = IF r > 1 THEN to(r - 1) ELSE doc.cursor
    BY <1>5 DEF Moved
  <2> HIDE DEF to, r, c
  <2>4. QED
    BY <1>1, <1>4, <2>2, <2>3
<1>6. CASE key = "down"
  <2>1. r < Len(doc.lines) => r + 1 \in 1..Len(doc.lines)
    BY <1>1
  <2>2. Moved(key) = IF r < Len(doc.lines) THEN to(r + 1) ELSE doc.cursor
    BY <1>6 DEF Moved
  <2> HIDE DEF to, r, c
  <2>3. QED
    BY <1>1, <1>4, <2>1, <2>2
<1>7. CASE key = "left"
  <2>1. ~(c > 0) => r <= Len(doc.lines) + 1
    BY <1>1, <1>7 DEF MoveReadable
  <2>2. Moved(key) = IF c > 0 THEN At(r, c - 1)
                     ELSE IF r > 1 THEN At(r - 1, Len(doc.lines[r - 1])) ELSE doc.cursor
    BY <1>7 DEF Moved
  <2>3. c > 0 => c - 1 \in Nat
    BY <1>1
  <2>4. ~(c > 0) /\ r > 1 => r - 1 \in Nat \ {0} /\ Len(doc.lines[r - 1]) \in Nat
    <3>1. ~(c > 0) /\ r > 1 => r - 1 \in Nat \ {0} /\ r - 1 \in 1..Len(doc.lines)
      BY <1>1, <2>1
    <3>2. QED
      BY <1>2, <3>1
  <2> HIDE DEF r, c
  <2>5. QED
    BY <1>1, <1>3, <2>2, <2>3, <2>4
<1>8. CASE key = "right"
  <2>1. Moved(key) = IF c < Len(Line(doc)) THEN At(r, c + 1)
                     ELSE IF r < Len(doc.lines) THEN At(r + 1, 0) ELSE doc.cursor
    BY <1>8 DEF Moved
  <2>2. c + 1 \in Nat /\ r + 1 \in Nat \ {0} /\ 0 \in Nat
    BY <1>1
  <2> HIDE DEF r, c
  <2>3. QED
    BY <1>1, <1>3, <2>1, <2>2
<1>9. CASE key = "home"
  <2>1. Moved(key) = At(r, 0)
    BY <1>9 DEF Moved
  <2>2. QED
    BY <1>1, <1>3, <2>1
<1>10. CASE key = "end"
  <2>1. Moved(key) = At(r, Len(Line(doc)))
    BY <1>10 DEF Moved
  <2>2. InRows(doc, doc.cursor)
    BY <1>10 DEF MoveReadable
  <2>3. Len(Line(doc)) \in Nat
    BY <2>2, ClampedPlace
  <2>4. QED
    BY <1>1, <1>3, <2>1, <2>3
<1>11. QED
  BY <1>5, <1>6, <1>7, <1>8, <1>9, <1>10 DEF Arrows

\* A command keeps the types, and either leaves its text as the latest or
\* touches neither texts nor stacks; undo and redo are on their own.
Untouched == UNCHANGED <<latest, hist>> /\ doc'.lines = doc.lines
Stepping == latest' = doc'.lines \/ Untouched \/ Undo \/ Redo

LEMMA CommandStep ==
    ASSUME TextTypes, [Next]_vars
    PROVE  TextTypes' /\ Stepping
<1> USE DEF TextTypes
<1>l. ASSUME NEW d \in Docs, NEW h \in History(Entries), NEW changed \in BOOLEAN,
             LeavesBehind(d, h, changed), clipboard' \in Text
      PROVE  TextTypes' /\ Stepping
  BY <1>l, LeavesTypes DEF LeavesBehind, Stepping
<1>s. ASSUME Stray PROVE TextTypes' /\ Stepping
  BY <1>s, StrayTypes DEF Stray, Stepping, Untouched
<1>v. ASSUME NEW x \in Place, NEW y \in Place, NEW z \in BOOLEAN, Shows(x, y, z)
      PROVE  TextTypes' /\ Stepping
  <2>1. doc'.lines = doc.lines /\ UNCHANGED <<latest, hist>>
    BY <1>v DEF Shows, Docs
  <2>2. QED
    BY <1>v, <2>1, ShowsTypes DEF Stepping, Untouched
<1>h. /\ Pushed(hist, doc) \in History(Entries)
      /\ Pushed(Pushed(hist, doc), doc) \in History(Entries)
      /\ Committed(hist, doc) \in History(Entries)
      /\ Pushed(Committed(hist, doc), doc) \in History(Entries)
  BY HistoryMade
<1>d. doc \in Docs /\ hist \in History(Entries) /\ clipboard \in Text
      /\ doc.cursor \in Place /\ doc.anchor \in Place /\ doc.selecting \in BOOLEAN
  BY DEF Docs
<1> HIDE DEF TextTypes
<1>c. Chars \subseteq Letters /\ Blank \in Letters
  BY DEF Letters
<1>1. ASSUME NEW c \in Chars, Type(c) PROVE TextTypes' /\ Stepping
  <2>1. <<c>> \in Row /\ InRows(doc, doc.cursor)
    BY <1>1, <1>c DEF Type, Row
  <2>2. Typed(doc, <<c>>) \in Docs
    BY <1>d, <2>1, TypedDoc
  <2>3. clipboard' \in Text
    BY <1>1, <1>d DEF Type
  <2>4. LeavesBehind(Typed(doc, <<c>>),
               IF c = Blank THEN Committed(hist, Typed(doc, <<c>>))
               ELSE [hist EXCEPT !.pending = TRUE], TRUE)
    BY <1>1 DEF Type
  <2>5. (IF c = Blank THEN Committed(hist, Typed(doc, <<c>>))
         ELSE [hist EXCEPT !.pending = TRUE]) \in History(Entries)
    BY <1>d, <2>2, HistoryMade
  <2>6. QED
    BY <1>l, <2>2, <2>3, <2>4, <2>5
<1>2. CASE TypeTab
  <2>1. [i \in 1..TabWidth |-> Blank] \in Row
    <3>1. [i \in 1..TabWidth |-> Blank] \in [1..TabWidth -> Letters]
      BY <1>c
    <3>2. QED
      BY <3>1, TextAssumption, SeqDef DEF Row
  <2>2. <<Blank>> \in Row /\ InRows(doc, doc.cursor)
    BY <1>2, <1>c DEF TypeTab, Row
  <2>3. Typed(doc, [i \in 1..TabWidth |-> Blank]) \in Docs /\ Typed(doc, <<Blank>>) \in Docs
    BY <1>d, <2>1, <2>2, TypedDoc
  <2>4. Committed(hist, Typed(doc, <<Blank>>)) \in History(Entries)
    BY <1>d, <2>3, HistoryMade
  <2>5. QED
    BY <1>2, <1>d, <1>l, <2>3, <2>4 DEF TypeTab
<1>3. CASE InsertNewline
  BY <1>3, <1>h, <1>d, <1>l, SplitDoc DEF InsertNewline
<1>4. CASE DeleteCharacter
  <2>1. CASE doc.selecting /\ SelectionReadable(doc)
    BY <1>4, <1>h, <1>d, <1>l, <2>1, RemovedDoc DEF DeleteCharacter
  <2>2. CASE doc.selecting /\ ~SelectionReadable(doc)
    BY <1>4, <1>s, <2>2 DEF DeleteCharacter
  <2>3. CASE ~doc.selecting /\ InRows(doc, doc.cursor)
    BY <1>4, <1>h, <1>d, <1>l, <2>3, ErasedDoc DEF DeleteCharacter
  <2>4. CASE ~doc.selecting /\ ~InRows(doc, doc.cursor)
    BY <1>4, <1>h, <1>d, <1>l, <2>4 DEF DeleteCharacter
  <2>5. QED
    BY <2>1, <2>2, <2>3, <2>4
<1>5. CASE DeleteForward
  BY <1>5, <1>h, <1>d, <1>l, <1>s, RemovedDoc, ErasedForwardDoc DEF DeleteForward, LeavesBehind, Stray
<1>6. CASE Copy
  <2>1. CASE SelectionReadable(doc)
    <3>1. Selected(doc) \in Text
      BY <1>d, <2>1, SelectedText
    <3>2. clipboard' = Selected(doc)
          /\ UNCHANGED <<doc, dragged, hist, modified, saved, latest, running>>
      BY <1>6, <2>1 DEF Copy
    <3>3. QED
      BY <3>1, <3>2 DEF TextTypes, Stepping, Untouched
  <2>2. CASE ~SelectionReadable(doc)
    BY <1>6, <1>s, <2>2 DEF Copy
  <2>3. QED
    BY <2>1, <2>2
<1>7. CASE Cut
  <2>1. CASE SelectionReadable(doc)
    BY <1>7, <1>h, <1>d, <1>l, <2>1, SelectedText, RemovedDoc DEF Cut
  <2>2. CASE ~SelectionReadable(doc)
    BY <1>7, <1>s, <2>2 DEF Cut
  <2>3. QED
    BY <2>1, <2>2
<1>8. CASE Paste
  <2>1. CASE PasteDefined(doc)
    BY <1>8, <1>h, <1>d, <1>l, <2>1, PastedDoc DEF Paste
  <2>2. CASE ~PasteDefined(doc)
    BY <1>8, <1>s, <2>2 DEF Paste
  <2>3. QED
    BY <2>1, <2>2
<1>9. CASE Undo
  <2>1. hist.undo \in Seq(Entries) /\ hist.redo \in Seq(Entries) /\ hist.undo # <<>>
    BY <1>9, <1>d DEF Undo, History
  <2>2. Recalled(doc, Top(hist.undo)) \in Docs
    BY <1>d, <2>1, StacksMade, RestoredDoc
  <2>3. hist' \in History(Entries)
    BY <1>9, <1>d, <2>1, StacksMade DEF Undo, History
  <2>4. QED
    BY <1>9, <2>2, <2>3 DEF Undo, TextTypes, Stepping
<1>10. CASE Redo
  <2>1. hist.undo \in Seq(Entries) /\ hist.redo \in Seq(Entries) /\ hist.redo # <<>>
    BY <1>10, <1>d DEF Redo, History
  <2>2. Recalled(doc, Top(hist.redo)) \in Docs
    BY <1>d, <2>1, StacksMade, RestoredDoc
  <2>3. hist' \in History(Entries)
    BY <1>10, <1>d, <2>1, StacksMade DEF Redo, History
  <2>4. QED
    BY <1>10, <2>2, <2>3 DEF Redo, TextTypes, Stepping
<1>11. CASE Save
  <2>1. doc.lines \in Text
    BY <1>d DEF Docs
  <2>2. QED
    BY <1>11, <2>1 DEF Save, TextTypes, Stepping, Untouched
<1>12. ASSUME NEW shift \in BOOLEAN, DuplicateLine(shift) PROVE TextTypes' /\ Stepping
  <2>1. CASE InRows(doc, doc.cursor)
    <3>1. Duplicated(Commanded(shift)) \in Docs
      BY <1>d, <2>1, CommandedDoc, DuplicatedDoc
    <3>2. Pushed(Committed(hist, Commanded(shift)), Commanded(shift)) \in History(Entries)
      BY <1>d, <2>1, CommandedDoc, HistoryMade
    <3>3. QED
      BY <1>12, <1>d, <1>l, <2>1, <3>1, <3>2 DEF DuplicateLine
  <2>2. CASE ~InRows(doc, doc.cursor)
    BY <1>12, <1>s, <2>2 DEF DuplicateLine
  <2>3. QED
    BY <2>1, <2>2
<1>13. ASSUME NEW key \in Arrows \cup {"home", "end"}, NEW mods \in SUBSET {"shift", "cmd"},
              MoveCursor(key, mods)
       PROVE  TextTypes' /\ Stepping
  <2> DEFINE opens == key \in Arrows /\ mods # {} /\ ~doc.selecting
  <2>1. CASE MoveReadable(key)
    <3>1. Moved(key) \in Place
      BY <1>d, <2>1, MovedPlace
    <3>2. (IF opens THEN doc.cursor ELSE doc.anchor) \in Place
      BY <1>d
    <3>3. ("shift" \in mods /\ (doc.selecting \/ opens)) \in BOOLEAN
      BY <1>d
    <3>4. Shows(Moved(key), IF opens THEN doc.cursor ELSE doc.anchor,
                "shift" \in mods /\ (doc.selecting \/ opens))
      BY <1>13, <2>1 DEF MoveCursor
    <3> HIDE DEF opens
    <3>5. QED
      BY <1>v, <3>1, <3>2, <3>3, <3>4
  <2>2. CASE ~MoveReadable(key)
    BY <1>13, <1>s, <2>2 DEF MoveCursor
  <2>3. QED
    BY <2>1, <2>2
<1>14. ASSUME NEW key \in {"top", "bottom"}, NEW shift \in BOOLEAN, JumpToEnd(key, shift)
       PROVE  TextTypes' /\ Stepping
  <2>1. CASE InRows(doc, doc.cursor)
    <3> DEFINE last == Len(doc.lines)
               p == IF key = "top" THEN At(1, 0) ELSE At(last, Len(doc.lines[last]))
    <3>1. p \in Place
      <4>1. last \in Nat \ {0} /\ last \in 1..last /\ doc.lines \in Seq(Row)
        BY <1>d, DocParts
      <4>2. Len(doc.lines[last]) \in Nat
        BY <4>1, ElementOfSeq DEF Row
      <4>3. QED
        BY <4>1, <4>2 DEF At, Place
    <3>2. Commanded(shift).anchor \in Place /\ Commanded(shift).selecting \in BOOLEAN
      BY <1>d, <2>1, CommandedDoc DEF Docs
    <3>3. Shows(p, Commanded(shift).anchor, Commanded(shift).selecting)
      BY <1>14, <2>1 DEF JumpToEnd
    <3> HIDE DEF p
    <3>4. QED
      BY <1>v, <3>1, <3>2, <3>3
  <2>2. CASE ~InRows(doc, doc.cursor)
    BY <1>14, <1>s, <2>2 DEF JumpToEnd
  <2>3. QED
    BY <2>1, <2>2
<1>15. CASE SelectAll
  <2>1. Len(doc.lines) \in Nat \ {0} /\ Len(doc.lines) \in 1..Len(doc.lines)
        /\ doc.lines \in Seq(Row)
    BY <1>d, DocParts
  <2>2. Len(doc.lines[Len(doc.lines)]) \in Nat
    BY <2>1, ElementOfSeq DEF Row
  <2>3. At(Len(doc.lines), Len(doc.lines[Len(doc.lines)])) \in Place /\ At(1, 0) \in Place
    BY <2>1, <2>2 DEF At, Place
  <2>4. QED
    BY <1>15, <1>v, <2>3 DEF SelectAll
<1>16. ASSUME NEW p \in Places(doc), JumpTo(p) \/ Click(p) \/ Drag(p)
       PROVE  TextTypes' /\ Stepping
  <2>1. p \in Place
    <3>1. Len(doc.lines) \in Nat
      BY <1>d, DocParts
    <3>2. QED
      BY <3>1 DEF Places, At, Place
  <2>2. QED
    BY <1>16, <1>d, <1>v, <2>1 DEF JumpTo, Click, Drag
<1>17. CASE Release
  <2>1. ((doc.selecting \/ dragged) /\ doc.anchor # doc.cursor) \in BOOLEAN
    OBVIOUS
  <2>2. QED
    BY <1>17, <1>d, <1>v, <2>1 DEF Release
<1>18. CASE GrabThumb
  BY <1>18, <1>d, <1>v DEF GrabThumb
<1>19. ASSUME NEW t \in Others, Reload(t) \/ Patch(t) PROVE TextTypes' /\ Stepping
  <2>1. t \in Text
    BY TextAssumption
  <2>2. /\ doc' = [doc EXCEPT !.lines = t] /\ saved' = t /\ latest' = t
        /\ hist' \in {hist, Pushed(hist, doc)}
        /\ UNCHANGED <<clipboard, modified, running>>
    BY <1>19 DEF Reload, Patch
  <2>3. doc' \in Docs /\ doc'.lines = t
    BY <1>d, <2>1, <2>2 DEF Docs
  <2>4. QED
    BY <1>h, <2>1, <2>2, <2>3 DEF TextTypes, Stepping
<1>20. CASE UNCHANGED vars
  BY <1>20 DEF vars, TextTypes, Stepping, Untouched
<1>21. QED
  BY <1>1, <1>2, <1>3, <1>4, <1>5, <1>6, <1>7, <1>8, <1>9, <1>10, <1>11, <1>12, <1>13,
     <1>14, <1>15, <1>16, <1>17, <1>18, <1>19, <1>20 DEF Next

-----------------------------------------------------------------------------
\* The last edit stays within reach of undo and redo.

LEMMA SameItself ==
    ASSUME NEW t \in Text
    PROVE  Same(t, t)
<1>1. Len(t) \in Nat
  BY DEF Text
<1>2. Min2(Len(t), Len(t)) = Len(t)
  BY DEF Min2
<1>3. (Len(t) + 1)..Len(t) = {}
  BY <1>1
<1>4. QED
  BY <1>2, <1>3 DEF Same

\* Texts that are the same agree where both have a line, and element by element.
LEMMA SameByLine ==
    ASSUME NEW s \in Seq(Row), NEW t \in Seq(Row)
    PROVE  Same(s, t) <=>
              /\ \A i \in 1..Len(s) : i <= Len(t) => s[i] = t[i]
              /\ \A i \in 1..Len(s) : i > Len(t) => s[i] = <<>>
              /\ \A i \in 1..Len(t) : i > Len(s) => t[i] = <<>>
<1> DEFINE m == Len(s)
           k == Len(t)
           n == Min2(m, k)
           a == SubSeq(s, 1, n)
           b == SubSeq(t, 1, n)
<1>1. m \in Nat /\ k \in Nat /\ n \in Nat /\ n <= m /\ n <= k /\ (n = m \/ n = k)
  BY DEF Min2
<1> HIDE DEF n
<1>2. /\ a \in Seq(Row) /\ Len(a) = n /\ \A i \in 1..n : a[i] = s[i]
      /\ b \in Seq(Row) /\ Len(b) = n /\ \A i \in 1..n : b[i] = t[i]
  <2>1. n \in 0..Len(s) /\ n \in 0..Len(t)
    BY <1>1
  <2>2. QED
    BY <2>1, LeftOf DEF Left
<1> HIDE DEF a, b
<1>3. a = b <=> \A i \in 1..n : s[i] = t[i]
  <2>1. ASSUME \A i \in 1..n : s[i] = t[i] PROVE a = b
    BY <1>2, <2>1, SeqEqual
  <2>2. QED
    BY <1>2, <2>1
<1>4. Same(s, t) <=> /\ a = b
                     /\ \A i \in (n + 1)..m : s[i] = <<>>
                     /\ \A i \in (n + 1)..k : t[i] = <<>>
  BY DEF Same, a, b, n
<1> HIDE DEF m, k
<1>5. /\ \A i : i \in 1..n <=> i \in 1..m /\ i <= k
      /\ \A i : i \in (n + 1)..m <=> i \in 1..m /\ i > k
      /\ \A i : i \in (n + 1)..k <=> i \in 1..k /\ i > m
  BY <1>1
<1>6. QED
  BY <1>3, <1>4, <1>5 DEF m, k

\* A text that came back with one more empty line is the same.
LEMMA SameWithLine ==
    ASSUME NEW s \in Text, NEW t \in Text, Same(s, t)
    PROVE  Same(s, Append(t, <<>>))
<1>1. s \in Seq(Row) /\ t \in Seq(Row) /\ <<>> \in Row
  BY DEF Text, Row
<1> DEFINE u == Append(t, <<>>)
<1>2. /\ u \in Seq(Row) /\ Len(u) = Len(t) + 1
      /\ \A i \in 1..Len(t) : u[i] = t[i]
      /\ u[Len(t) + 1] = <<>>
  BY <1>1, AppendProperties
<1> HIDE DEF u
<1>3. Len(s) \in Nat /\ Len(t) \in Nat
  BY <1>1
<1>4. /\ \A i \in 1..Len(s) : i <= Len(t) => s[i] = t[i]
      /\ \A i \in 1..Len(s) : i > Len(t) => s[i] = <<>>
      /\ \A i \in 1..Len(t) : i > Len(s) => t[i] = <<>>
  BY <1>1, SameByLine
<1>5. \A i \in 1..Len(s) : i <= Len(u) => s[i] = u[i]
  <2>1. ASSUME NEW i \in 1..Len(s), i <= Len(u) PROVE s[i] = u[i]
    <3>1. CASE i <= Len(t)
      BY <1>2, <1>3, <1>4, <3>1
    <3>2. CASE ~(i <= Len(t))
      <4>1. i = Len(t) + 1
        BY <1>2, <1>3, <2>1, <3>2
      <4>2. QED
        BY <1>2, <1>3, <1>4, <4>1
    <3>3. QED
      BY <3>1, <3>2
  <2>2. QED
    BY <2>1
<1>6. \A i \in 1..Len(s) : i > Len(u) => s[i] = <<>>
  BY <1>2, <1>3, <1>4
<1>7. \A i \in 1..Len(u) : i > Len(s) => u[i] = <<>>
  <2>1. \A i \in 1..Len(u) : i \in 1..Len(t) \/ i = Len(t) + 1
    BY <1>2, <1>3
  <2>2. QED
    BY <1>2, <1>4, <2>1
<1>8. QED
  BY <1>1, <1>2, <1>5, <1>6, <1>7, SameByLine DEF u

\* Taking the top off one stack, showing its text and putting the text shown
\* until then on the other stack loses none of the texts.
Reached(t, lines, one, other) ==
    \/ Same(t, lines)
    \/ \E i \in DOMAIN one : Same(t, one[i].lines)
    \/ \E i \in DOMAIN other : Same(t, other[i].lines)

LEMMA StepReaches ==
    ASSUME NEW t \in Text, NEW d \in Docs, NEW one \in Seq(Entries), one # <<>>,
           NEW other \in Seq(Entries), Len(one) + Len(other) <= MaxUndo,
           Reached(t, d.lines, one, other)
    PROVE  Reached(t, Recalled(d, Top(one)).lines, Rest(one), Stacked(other, d))
<1> DEFINE n == Len(one)
           m == Len(other)
           new == Stacked(other, d)
<1>1. n \in Nat \ {0} /\ m \in Nat /\ m < MaxUndo
  BY EmptySeq, UndoAssumption
<1>2. /\ Len(new) = m + 1 /\ new \in Seq(Entries)
      /\ \A i \in 1..m : new[i] = other[i]
      /\ new[m + 1] = Entry(d)
  BY <1>1, EntryMade, AppendProperties DEF Stacked
<1>3. Rest(one) = Left(one, n - 1)
  BY DEF Rest, Left
<1>4. n - 1 \in 0..Len(one) /\ DOMAIN one = 1..n /\ DOMAIN other = 1..m
  BY <1>1
<1>5. Len(Rest(one)) = n - 1 /\ \A i \in 1..(n - 1) : Rest(one)[i] = one[i]
  BY <1>3, <1>4, LeftOf
<1>6. DOMAIN Rest(one) = 1..(n - 1) /\ DOMAIN new = 1..(m + 1)
  <2>1. Rest(one) \in Seq(Entries)
    BY RestShrinks
  <2>2. QED
    BY <1>2, <1>5, <2>1
<1>7. Top(one) \in Entries /\ Top(one) = one[n] /\ Top(one).lines \in Text
  BY StacksMade DEF Top, Entries
<1>8. Recalled(d, Top(one)).lines = Append(Top(one).lines, <<>>)
  BY DEF Recalled, Docs
<1> HIDE DEF n, m, new
<1>9. CASE Same(t, d.lines)
  <2>1. m + 1 \in DOMAIN new /\ new[m + 1].lines = d.lines
    BY <1>1, <1>2, <1>6 DEF Entry
  <2>2. QED
    BY <1>9, <2>1 DEF Reached, new
<1>10. ASSUME NEW i \in DOMAIN one, Same(t, one[i].lines)
       PROVE  Reached(t, Recalled(d, Top(one)).lines, Rest(one), new)
  <2>1. CASE i = n
    BY <1>7, <1>8, <1>10, <2>1, SameWithLine DEF Reached
  <2>2. CASE i # n
    <3>1. i \in DOMAIN Rest(one) /\ Rest(one)[i] = one[i]
      BY <1>1, <1>4, <1>5, <1>6, <2>2
    <3>2. QED
      BY <1>10, <3>1 DEF Reached
  <2>3. QED
    BY <2>1, <2>2
<1>11. ASSUME NEW i \in DOMAIN other, Same(t, other[i].lines)
       PROVE  Reached(t, Recalled(d, Top(one)).lines, Rest(one), new)
  <2>1. i \in DOMAIN new /\ new[i] = other[i]
    BY <1>1, <1>2, <1>4, <1>6
  <2>2. QED
    BY <1>11, <2>1 DEF Reached
<1>12. QED
  BY <1>9, <1>10, <1>11 DEF Reached, new

TextInv == TextTypes /\ HistoryInv /\ LatestKept

LEMMA InitText == Init => TextInv
<1> SUFFICES ASSUME Init PROVE TextInv
  OBVIOUS
<1>1. /\ doc = [lines |-> Start, cursor |-> At(1, 0), anchor |-> At(1, 0), selecting |-> FALSE]
      /\ hist = [undo |-> <<>>, redo |-> <<>>, pending |-> FALSE]
      /\ clipboard = NoText /\ saved = Start /\ latest = Start
      /\ modified = FALSE /\ running = TRUE
  BY DEF Init
<1>2. NoText \in Text /\ At(1, 0) \in Place
  BY DEF NoText, Text, At, Place
<1>3. hist \in History(Entries)
  BY <1>1 DEF History
<1>4. TextTypes
  BY <1>1, <1>2, <1>3, TextAssumption DEF TextTypes, Docs
<1>5. LatestKept
  BY <1>1, SameItself, TextAssumption DEF LatestKept
<1>6. QED
  BY <1>4, <1>5, InitShared DEF TextInv

LEMMA StepText == TextInv /\ [Next]_vars => TextInv'
<1> SUFFICES ASSUME TextInv, [Next]_vars PROVE TextInv'
  OBVIOUS
<1>1. TextTypes' /\ Stepping /\ HistoryInv'
  BY CommandStep, StepShared DEF TextInv
<1>2. CASE latest' = doc'.lines
  <2>1. latest' \in Text
    BY <1>1 DEF TextTypes
  <2>2. QED
    BY <1>1, <1>2, <2>1, SameItself DEF TextInv, LatestKept
<1>3. CASE Untouched
  BY <1>1, <1>3 DEF Untouched, TextInv, LatestKept
<1>4. CASE Undo \/ Redo
  <2>1. /\ latest \in Text /\ doc \in Docs /\ latest' = latest
        /\ hist.undo \in Seq(Entries) /\ hist.redo \in Seq(Entries)
    BY <1>4 DEF TextInv, TextTypes, History, Undo, Redo
  <2>2. Len(hist.undo) + Len(hist.redo) <= MaxUndo
    BY DEF TextInv, HistoryInv, SharedHistory
  <2>3. Reached(latest, doc.lines, hist.undo, hist.redo)
    BY DEF TextInv, LatestKept, Reached
  <2>4. CASE Undo
    <3>1. /\ hist.undo # <<>>
          /\ doc' = Recalled(doc, Top(hist.undo))
          /\ hist'.undo = Rest(hist.undo) /\ hist'.redo = Stacked(hist.redo, doc)
      BY <2>4 DEF Undo
    <3>2. Reached(latest, doc'.lines, hist'.undo, hist'.redo)
      BY <2>1, <2>2, <2>3, <3>1, StepReaches
    <3>3. QED
      BY <1>1, <2>1, <3>2 DEF TextInv, LatestKept, Reached
  <2>5. CASE Redo
    <3>1. /\ hist.redo # <<>>
          /\ doc' = Recalled(doc, Top(hist.redo))
          /\ hist'.redo = Rest(hist.redo) /\ hist'.undo = Stacked(hist.undo, doc)
      BY <2>5 DEF Redo
    <3>2. Len(hist.redo) + Len(hist.undo) <= MaxUndo
      <4> DEFINE m == Len(hist.undo)
                 n == Len(hist.redo)
      <4>1. m \in Nat /\ n \in Nat
        BY <2>1, LenProperties
      <4>2. m + n <= MaxUndo
        BY <2>2
      <4> HIDE DEF m, n
      <4>3. n + m <= MaxUndo
        BY <4>1, <4>2
      <4>4. QED
        BY <4>3 DEF m, n
    <3>3. Reached(latest, doc.lines, hist.redo, hist.undo)
      BY <2>3 DEF Reached
    <3>4. Reached(latest, doc'.lines, hist'.redo, hist'.undo)
      BY <2>1, <3>1, <3>2, <3>3, StepReaches
    <3>5. QED
      BY <1>1, <2>1, <3>4 DEF TextInv, LatestKept, Reached
  <2>6. QED
    BY <1>4, <2>4, <2>5
<1>5. QED
  BY <1>1, <1>2, <1>3, <1>4 DEF Stepping

\* Texts stay texts: no command, and no file changed from outside, leaves the
\* document without a line, the clipboard or a stack with something else.
THEOREM TextsAreTexts == Spec => []TextTypes
<1>1. TextInv => TextTypes
  BY DEF TextInv
<1>2. QED
  BY <1>1, InitText, StepText, PTL DEF Spec

\* What the last editing command left is shown or on one of the stacks, for
\* any way of going back and forth (performUndo, performRedo).
THEOREM LatestStays == Spec => []LatestKept
<1>1. TextInv => LatestKept
  BY DEF TextInv
<1>2. QED
  BY <1>1, InitText, StepText, PTL DEF Spec

-----------------------------------------------------------------------------
\* Cutting a selection out and pasting it back.

LEMMA LinePieces ==
    ASSUME NEW S, NEW s \in Seq(S), NEW a \in 0..Len(s), NEW b \in a..Len(s)
    PROVE  /\ Left(s, a) \o SubSeq(s, a + 1, b) = Left(s, b)
           /\ Left(s, b) \o Right(s, b) = s
           /\ SubSeq(s, a + 1, b) \in Seq(S)
<1>1. Len(s) \in Nat
  OBVIOUS
<1>2. 1 \in 1..(Len(s) + 1) /\ a \in 1 - 1..Len(s) /\ b \in 1 - 1..Len(s) /\ Len(s) \in b..Len(s)
  BY <1>1
<1>3. SubSeq(s, 1, a) \o SubSeq(s, a + 1, b) = SubSeq(s, 1, b)
  BY <1>2, ConcatAdjacentSubSeq
<1>4. SubSeq(s, 1, b) \o SubSeq(s, b + 1, Len(s)) = SubSeq(s, 1, Len(s))
  BY <1>2, ConcatAdjacentSubSeq
<1>5. SubSeq(s, 1, Len(s)) = s
  BY SubSeqFull
<1>6. SubSeq(s, a + 1, b) \in Seq(S)
  <2>1. a + 1 \in Int /\ b \in Int /\ \A i \in a + 1..b : s[i] \in S
    BY <1>1
  <2>2. QED
    BY <2>1, SubSeqProperties
<1>7. QED
  BY <1>3, <1>4, <1>5, <1>6 DEF Left, Right

LEMMA JoinedPieces ==
    ASSUME NEW S, NEW s \in Seq(S), NEW w \in Seq(S)
    PROVE  Left(s \o w, Len(s)) = s /\ Right(s \o w, Len(s)) = w
<1> DEFINE j == s \o w
           m == Len(s)
           n == Len(w)
<1>1. /\ m \in Nat /\ n \in Nat
      /\ j \in Seq(S) /\ Len(j) = m + n
      /\ \A i \in 1..(m + n) : j[i] = IF i <= m THEN s[i] ELSE w[i - m]
  BY ConcatProperties
<1> HIDE DEF j, m, n
<1>2. Left(j, m) = s
  <2>1. m \in 0..Len(j)
    BY <1>1
  <2>2. Left(j, m) \in Seq(S) /\ Len(Left(j, m)) = m /\ \A i \in 1..m : Left(j, m)[i] = j[i]
    BY <1>1, <2>1, LeftOf
  <2>3. \A i \in 1..m : j[i] = s[i]
    BY <1>1
  <2>4. QED
    BY <2>2, <2>3, SeqEqual DEF m
<1>3. Right(j, m) = w
  <2>0. m \in Nat /\ j \in Seq(S)
    BY <1>1
  <2>1. /\ Right(j, m) \in Seq(S)
        /\ m <= Len(j) => Len(Right(j, m)) = Len(j) - m
        /\ \A i \in 1..(Len(j) - m) : Right(j, m)[i] = j[m + i]
    BY <2>0, RightOf
  <2>2. m <= Len(j) /\ Len(j) - m = n
    BY <1>1
  <2>3. \A i \in 1..n : j[m + i] = w[i]
    <3>1. ASSUME NEW i \in 1..n PROVE j[m + i] = w[i]
      <4>1. m + i \in 1..(m + n) /\ ~(m + i <= m) /\ m + i - m = i
        BY <1>1
      <4>2. QED
        BY <1>1, <4>1
    <3>2. QED
      BY <3>1
  <2>4. QED
    BY <2>1, <2>2, <2>3, SeqEqual DEF n
<1>4. QED
  BY <1>2, <1>3 DEF j, m

\* Rows first to last of s have become the one row of x.
Joined(S, s, first, last, one, x) ==
    LET n == last - first + 1
    IN  /\ x \in Seq(S)
        /\ Len(x) = Len(s) - n + 1
        /\ first \in 1..Len(x) /\ x[first] = one[1]
        /\ \A i \in 1..Len(x) : x[i] = IF i < first THEN s[i]
                                      ELSE IF i < first + 1 THEN one[1]
                                      ELSE s[i + n - 1]

LEMMA RowsJoined ==
    ASSUME NEW S, NEW s \in Seq(S), NEW first \in 1..Len(s), NEW last \in first..Len(s),
           NEW one \in Seq(S)
    PROVE  Len(one) = 1 => Joined(S, s, first, last, one, Splice(s, first, last, one))
<1> DEFINE m == Len(s)
           n == last - first + 1
           z == Splice(s, first, last, one)
<1>1. m \in Nat /\ first \in 1..m /\ last \in first..m /\ n \in Nat \ {0}
  OBVIOUS
<1>2. /\ z \in Seq(S)
      /\ Len(z) = first - 1 + Len(one) + (Len(s) - last)
      /\ \A i \in 1..Len(z) :
            z[i] = IF i < first THEN s[i]
                   ELSE IF i < first + Len(one) THEN one[i - first + 1]
                   ELSE s[i - first - Len(one) + 1 + last]
  BY SpliceOf
<1> HIDE DEF z
<1>3. SUFFICES ASSUME Len(one) = 1
               PROVE  /\ Len(z) = m - n + 1
                      /\ first \in 1..Len(z) /\ z[first] = one[1]
                      /\ \A i \in 1..Len(z) : z[i] = IF i < first THEN s[i]
                                                    ELSE IF i < first + 1 THEN one[1]
                                                    ELSE s[i + n - 1]
  BY <1>2 DEF Joined, z
<1>4. Len(z) = m - n + 1
  BY <1>1, <1>2, <1>3
<1>5. ASSUME NEW i \in 1..Len(z)
      PROVE  z[i] = IF i < first THEN s[i] ELSE IF i < first + 1 THEN one[1] ELSE s[i + n - 1]
  <2>1. i < first + 1 /\ ~(i < first) => i - first + 1 = 1
    BY <1>1
  <2>2. i - first - 1 + 1 + last = i + n - 1
    BY <1>1
  <2>3. QED
    BY <1>2, <1>3, <2>1, <2>2
<1>6. first \in 1..Len(z) /\ ~(first < first) /\ first < first + 1
  BY <1>1, <1>4
<1>7. z[first] = one[1]
  BY <1>5, <1>6
<1>8. QED
  BY <1>4, <1>5, <1>6, <1>7

\* And that row becomes the rows it stands for again.
LEMMA SplicedBack ==
    ASSUME NEW S, NEW s \in Seq(S), NEW first \in 1..Len(s), NEW last \in first..Len(s),
           NEW one \in Seq(S), NEW new \in Seq(S)
    PROVE  /\ Len(one) = 1
           /\ Len(new) = last - first + 1
           /\ \A i \in 1..Len(new) : new[i] = s[first + i - 1]
           => Splice(Splice(s, first, last, one), first, first, new) = s
<1>1. Len(one) = 1 => Joined(S, s, first, last, one, Splice(s, first, last, one))
  BY RowsJoined
<1> DEFINE x == Splice(s, first, last, one)
           m == Len(s)
           n == last - first + 1
           y == Splice(x, first, first, new)
<1>2. m \in Nat /\ first \in 1..m /\ last \in first..m /\ n \in Nat \ {0}
  OBVIOUS
<1> HIDE DEF x
<1>3. SUFFICES ASSUME Len(one) = 1, Len(new) = n,
                      \A i \in 1..Len(new) : new[i] = s[first + i - 1]
               PROVE  y = s
  BY DEF x
<1>4. /\ x \in Seq(S) /\ Len(x) = m - n + 1
      /\ first \in 1..Len(x)
      /\ \A i \in 1..Len(x) : x[i] = IF i < first THEN s[i]
                                    ELSE IF i < first + 1 THEN one[1]
                                    ELSE s[i + n - 1]
  BY <1>1, <1>3 DEF Joined, x
<1>5. first \in 1..Len(x) /\ first \in first..Len(x) /\ x \in Seq(S)
  BY <1>2, <1>4
<1>6. /\ y \in Seq(S)
      /\ Len(y) = first - 1 + Len(new) + (Len(x) - first)
      /\ \A i \in 1..Len(y) :
            y[i] = IF i < first THEN x[i]
                   ELSE IF i < first + Len(new) THEN new[i - first + 1]
                   ELSE x[i - first - Len(new) + 1 + first]
  BY <1>5, SpliceOf
<1> HIDE DEF y
<1>7. Len(y) = m
  BY <1>2, <1>3, <1>4, <1>6
<1>8. ASSUME NEW i \in 1..Len(y) PROVE y[i] = s[i]
  <2>1. CASE i < first
    <3>1. i \in 1..Len(x)
      BY <1>2, <1>5, <2>1
    <3>2. QED
      BY <1>4, <1>6, <2>1, <3>1
  <2>2. CASE ~(i < first) /\ i < first + Len(new)
    <3>1. i - first + 1 \in 1..Len(new) /\ first + (i - first + 1) - 1 = i
      BY <1>2, <2>2
    <3>2. QED
      BY <1>3, <1>6, <2>2, <3>1
  <2>3. CASE ~(i < first) /\ ~(i < first + Len(new))
    <3> DEFINE k == i - n + 1
    <3>1. i \in 1..m /\ ~(i < first + n) /\ Len(x) = m - n + 1
      BY <1>3, <1>4, <1>7, <2>3
    <3>2. /\ i - first - Len(new) + 1 + first = k /\ k \in 1..Len(x)
          /\ ~(k < first + 1) /\ ~(k < first) /\ k + n - 1 = i
      BY <1>2, <1>3, <3>1
    <3>3. QED
      BY <1>4, <1>6, <2>3, <3>2
  <2>4. QED
    BY <2>1, <2>2, <2>3
<1>9. QED
  BY <1>6, <1>7, <1>8, SeqEqual

\* What is left of the rows a selection begins and ends in.
CutHead(d) == Left(d.lines[From(d).row], From(d).col)
CutTail(d) == Right(d.lines[To(d).row], To(d).col)
CutRows(d) == To(d).row - From(d).row + 1

LEMMA CutEnds ==
    ASSUME NEW d \in Docs, InText(d, d.anchor), InText(d, d.cursor)
    PROVE  /\ d.lines \in Seq(Row) /\ Len(d.lines) \in Nat
           /\ From(d).row \in 1..Len(d.lines) /\ To(d).row \in From(d).row..Len(d.lines)
           /\ To(d).row \in 1..Len(d.lines)
           /\ From(d).col \in 0..Len(d.lines[From(d).row])
           /\ To(d).col \in 0..Len(d.lines[To(d).row])
           /\ d.lines[From(d).row] \in Row /\ d.lines[To(d).row] \in Row
           /\ From(d).row = To(d).row => From(d).col <= To(d).col
           /\ To(d) = At(To(d).row, To(d).col)
           /\ From(d).row \in Nat /\ To(d).row \in Nat
<1>1. /\ From(d) \in Place /\ To(d) \in Place
      /\ From(d) \in {d.anchor, d.cursor} /\ To(d) \in {d.anchor, d.cursor}
      /\ From(d).row <= To(d).row
      /\ From(d).row = To(d).row => From(d).col <= To(d).col
  BY SelectionEnds
<1>2. InText(d, From(d)) /\ InText(d, To(d))
  BY <1>1
<1>3. /\ d.lines \in Seq(Row) /\ Len(d.lines) \in Nat
      /\ From(d).row \in 1..Len(d.lines) /\ To(d).row \in 1..Len(d.lines)
      /\ d.lines[From(d).row] \in Row /\ d.lines[To(d).row] \in Row
  BY <1>1, <1>2, DocParts DEF InText, InRows
<1>4. /\ From(d).col \in Nat /\ From(d).row \in Nat /\ To(d).row \in Nat /\ To(d).col \in Nat
      /\ To(d) = At(To(d).row, To(d).col)
  BY <1>1 DEF Place, At
<1>5. Len(d.lines[From(d).row]) \in Nat /\ Len(d.lines[To(d).row]) \in Nat
  BY <1>3, SMTT(30) DEF Row
<1>6. From(d).col <= Len(d.lines[From(d).row]) /\ To(d).col <= Len(d.lines[To(d).row])
  BY <1>2 DEF InText
<1>7. /\ From(d).col \in 0..Len(d.lines[From(d).row])
      /\ To(d).col \in 0..Len(d.lines[To(d).row])
  BY <1>4, <1>5, <1>6
<1>8. To(d).row \in From(d).row..Len(d.lines)
  BY <1>1, <1>3
<1>9. QED
  BY <1>1, <1>3, <1>4, <1>7, <1>8

LEMMA CutJoins ==
    ASSUME NEW d \in Docs, InText(d, d.anchor), InText(d, d.cursor)
    PROVE  /\ Removed(d).lines = Splice(d.lines, From(d).row, To(d).row, <<CutHead(d) \o CutTail(d)>>)
           /\ Removed(d).cursor = From(d)
           /\ Removed(d).selecting = FALSE
<1> DEFINE f == From(d)
           t == To(d)
           first == d.lines[f.row]
           rest == Right(d.lines[t.row], t.col)
           joined == IF f.row = t.row
                     THEN IF t.col > Len(first) THEN first ELSE Left(first, f.col) \o rest
                     ELSE IF f.col > Len(first) THEN first ELSE Left(first, f.col) \o rest
           x == Splice(d.lines, f.row, t.row, <<joined>>)
<1>1. joined = CutHead(d) \o CutTail(d)
  <2>1. first \in Row /\ Len(first) \in Nat /\ f.col \in 0..Len(first)
    BY CutEnds DEF Row
  <2>2. ~(f.col > Len(first))
    BY <2>1
  <2>3. f.row = t.row => ~(t.col > Len(first))
    <3>1. t.col \in 0..Len(d.lines[t.row])
      BY CutEnds
    <3>2. QED
      BY <2>1, <3>1
  <2> HIDE DEF first, rest, f, t
  <2>4. joined = Left(first, f.col) \o rest
    BY <2>2, <2>3
  <2>5. QED
    BY <2>4 DEF CutHead, CutTail, first, rest, f, t
<1>2. Removed(d) = [d EXCEPT !.lines = x, !.cursor = f, !.selecting = FALSE]
  BY DEF Removed
<1>3. x = Splice(d.lines, f.row, t.row, <<CutHead(d) \o CutTail(d)>>)
  BY <1>1
<1> HIDE DEF x, joined
<1>4. Removed(d).lines = x /\ Removed(d).cursor = f /\ Removed(d).selecting = FALSE
  BY <1>2 DEF Docs
<1>5. QED
  BY <1>3, <1>4

\* A selection of one row lies between its two columns; of more rows the first
\* is taken from the column on, the last up to the column, and the rest whole.
LEMMA CutPieces ==
    ASSUME NEW d \in Docs, InText(d, d.anchor), InText(d, d.cursor)
    PROVE  /\ Selected(d) \in Seq(Row) /\ Len(Selected(d)) = CutRows(d)
           /\ CutRows(d) = 1 =>
                Selected(d)[1] = SubSeq(d.lines[From(d).row], From(d).col + 1, To(d).col)
           /\ CutRows(d) # 1 =>
                /\ Selected(d)[1] = Right(d.lines[From(d).row], From(d).col)
                /\ Selected(d)[CutRows(d)] = Left(d.lines[To(d).row], To(d).col)
                /\ \A i \in 2..(CutRows(d) - 1) : Selected(d)[i] = d.lines[From(d).row + i - 1]
<1> DEFINE f == From(d)
           t == To(d)
           piece(r) == SubSeq(d.lines[r], IF r = f.row THEN f.col + 1 ELSE 1,
                              IF r = t.row THEN Min2(t.col, Len(d.lines[r])) ELSE Len(d.lines[r]))
           k == t.row - f.row + 1
           P == [i \in 1..k |-> piece(f.row + i - 1)]
<1>1. /\ d.lines \in Seq(Row) /\ Len(d.lines) \in Nat
      /\ f.row \in 1..Len(d.lines) /\ t.row \in f.row..Len(d.lines) /\ t.row \in 1..Len(d.lines)
      /\ f.col \in 0..Len(d.lines[f.row]) /\ t.col \in 0..Len(d.lines[t.row])
      /\ f.row \in Nat /\ t.row \in Nat
  BY CutEnds
<1>2. k \in Nat \ {0}
  BY <1>1
<1>3. Selected(d) = P
  BY DEF Selected
<1>4. SelectionReadable(d)
  <2>1. t.col <= Len(d.lines[t.row])
    <3>1. d.lines[t.row] \in Row
      BY CutEnds
    <3>2. Len(d.lines[t.row]) \in Nat
      BY <3>1 DEF Row
    <3>3. QED
      BY <1>1, <3>2
  <2>2. InRows(d, f) /\ InRows(d, t)
    BY <1>1 DEF InRows
  <2>3. QED
    BY <2>1, <2>2 DEF SelectionReadable
<1>5. Selected(d) \in Seq(Row)
  BY <1>4, SelectedText DEF Text, Row
<1>6. Len(Selected(d)) = k
  BY <1>2, <1>3, <1>5, LenProperties
<1> HIDE DEF f, t
<1>7. \A i \in 1..k : Selected(d)[i] = piece(f.row + i - 1)
  BY <1>3
<1>8. Min2(t.col, Len(d.lines[t.row])) = t.col
  BY <1>4, <1>1, CutEnds DEF Min2, Row, t
<1>9. k = 1 => Selected(d)[1] = SubSeq(d.lines[f.row], f.col + 1, t.col)
  <2>1. SUFFICES ASSUME k = 1 PROVE Selected(d)[1] = SubSeq(d.lines[f.row], f.col + 1, t.col)
    OBVIOUS
  <2>2. f.row = t.row /\ f.row + 1 - 1 = f.row
    BY <1>1, <2>1
  <2>3. 1 \in 1..k
    BY <1>2
  <2>4. Selected(d)[1] = piece(f.row + 1 - 1)
    BY <1>7, <2>3
  <2>5. QED
    BY <1>8, <2>2, <2>4
<1>10. ASSUME k # 1
       PROVE  /\ Selected(d)[1] = Right(d.lines[f.row], f.col)
              /\ Selected(d)[k] = Left(d.lines[t.row], t.col)
              /\ \A i \in 2..(k - 1) : Selected(d)[i] = d.lines[f.row + i - 1]
  <2>1. f.row + 1 - 1 = f.row /\ f.row + k - 1 = t.row /\ f.row # t.row
        /\ 1 \in 1..k /\ k \in 1..k
    BY <1>1, <1>2, <1>10
  <2>2. Selected(d)[1] = Right(d.lines[f.row], f.col)
    <3>1. Selected(d)[1] = piece(f.row + 1 - 1)
      BY <1>7, <2>1
    <3>2. QED
      BY <2>1, <3>1 DEF Right
  <2>3. Selected(d)[k] = Left(d.lines[t.row], t.col)
    <3>1. Selected(d)[k] = piece(f.row + k - 1)
      BY <1>7, <2>1
    <3>2. QED
      BY <1>8, <2>1, <3>1 DEF Left
  <2>4. ASSUME NEW i \in 2..(k - 1) PROVE Selected(d)[i] = d.lines[f.row + i - 1]
    <3> DEFINE r == f.row + i - 1
    <3>1. i \in 1..k /\ r \in 1..Len(d.lines) /\ r # f.row /\ r # t.row
      <4> DEFINE a == f.row
                 b == t.row
                 m == Len(d.lines)
      <4>1. a \in Nat /\ b \in Nat /\ m \in Nat /\ a >= 1 /\ b <= m
        BY <1>1
      <4> HIDE DEF a, b, m
      <4>2. i \in 2..(b - a)
        BY <4>1 DEF a, b
      <4>3. i \in 1..(b - a + 1) /\ a + i - 1 \in 1..m /\ a + i - 1 # a /\ a + i - 1 # b
        BY <4>1, <4>2
      <4>4. QED
        BY <4>3 DEF a, b, m
    <3>2. Selected(d)[i] = piece(r)
      BY <1>7, <3>1
    <3> HIDE DEF r
    <3>3. Selected(d)[i] = SubSeq(d.lines[r], 1, Len(d.lines[r]))
      BY <3>1, <3>2
    <3>4. d.lines[r] \in Row
      BY <1>1, <3>1, ElementOfSeq
    <3>5. QED
      BY <3>3, <3>4, SubSeqFull DEF Row, r
  <2>5. QED
    BY <2>2, <2>3, <2>4
<1>11. CutRows(d) = k
  BY DEF CutRows, f, t
<1> HIDE DEF k, piece
<1>12. QED
  BY <1>5, <1>6, <1>9, <1>10, <1>11 DEF f, t

\* A text with a selection in it, cut and pasted.
LEMMA CutThenPasted ==
    ASSUME NEW d \in Docs, InText(d, d.anchor), InText(d, d.cursor),
           \A i \in DOMAIN Selected(d) : Selected(d)[i] # <<>>
    PROVE  LET back == Pasted(Removed(d), Selected(d))
           IN  back.lines = d.lines /\ back.cursor = To(d)
<1> DEFINE L == d.lines
           a == From(d).row
           b == To(d).row
           first == L[a]
           last == L[b]
           p == From(d).col
           q == To(d).col
           P == Selected(d)
           n == CutRows(d)
           one == <<CutHead(d) \o CutTail(d)>>
           u == Removed(d)
<1>1. /\ L \in Seq(Row) /\ Len(L) \in Nat /\ a \in 1..Len(L) /\ b \in a..Len(L) /\ b \in 1..Len(L)
      /\ p \in 0..Len(first) /\ q \in 0..Len(last) /\ first \in Row /\ last \in Row
      /\ a = b => p <= q
      /\ To(d) = At(b, q) /\ a \in Nat /\ b \in Nat
      /\ n = b - a + 1
  BY CutEnds DEF CutRows
<1>2. /\ P \in Seq(Row) /\ Len(P) = n
      /\ n = 1 => P[1] = SubSeq(first, p + 1, q)
      /\ n # 1 => /\ P[1] = Right(first, p)
                  /\ P[n] = Left(last, q)
                  /\ \A i \in 2..(n - 1) : P[i] = L[a + i - 1]
  BY CutPieces
<1>3. CutHead(d) = Left(first, p) /\ CutTail(d) = Right(last, q)
  BY DEF CutHead, CutTail
<1>4. /\ u.lines = Splice(L, a, b, one) /\ u.cursor = From(d) /\ u.selecting = FALSE
  BY CutJoins
<1>5. Kept(P) = P
  BY <1>2, KeptLines
<1>6. From(d).row = a /\ From(d).col = p
  OBVIOUS
<1> HIDE DEF L, a, b, p, q, P, n, u, one
<1>7. n \in Nat \ {0} /\ 1 \in 1..n /\ n \in 1..n
  BY <1>1
<1> DEFINE h == Left(first, p)
           e == Right(last, q)
<1>8. /\ first \in Seq(Letters) /\ last \in Seq(Letters) /\ Len(first) \in Nat /\ Len(last) \in Nat
      /\ p \in Nat /\ q \in Nat
  BY <1>1 DEF Row
<1>9. h \in Seq(Letters) /\ Len(h) = p /\ e \in Seq(Letters)
  <2> HIDE DEF first, last
  <2>1. h \in Seq(Letters) /\ Len(h) = p
    BY <1>1, <1>8, LeftOf
  <2>2. e \in Seq(Letters)
    BY <1>8, RightOf
  <2>3. QED
    BY <2>1, <2>2
<1>10. one \in Seq(Row) /\ Len(one) = 1 /\ one[1] = h \o e
  <2>1. h \o e \in Row
    BY <1>9, ConcatProperties DEF Row
  <2>2. one = <<h \o e>>
    BY <1>3 DEF one
  <2> HIDE DEF h, e
  <2>3. QED
    BY <2>1, <2>2
<1> DEFINE x == Splice(L, a, b, one)
<1>11. x \in Seq(Row) /\ a \in 1..Len(x) /\ x[a] = h \o e
  <2>1. Joined(Row, L, a, b, one, x)
    BY <1>1, <1>10, RowsJoined
  <2> HIDE DEF x
  <2>2. QED
    BY <1>10, <2>1 DEF Joined
<1> DEFINE before == [P EXCEPT ![1] = h \o @]
           new == [before EXCEPT ![n] = @ \o e]
<1>12. LET back == Pasted(u, P)
       IN  /\ back.lines = Splice(x, a, a, new)
           /\ back.cursor = At(a + n - 1, Len(before[n]))
  <2>1. Unselected(u) = u
    BY <1>4 DEF Unselected
  <2>2. Line(u) = h \o e
    BY <1>4, <1>6, <1>11 DEF Line
  <2>3. Left(Line(u), p) = h /\ Right(Line(u), p) = e
    <3> HIDE DEF h, e
    <3>1. Left(h \o e, Len(h)) = h /\ Right(h \o e, Len(h)) = e
      BY <1>9, JoinedPieces
    <3>2. QED
      BY <1>9, <2>2, <3>1
  <2>4. u.cursor.row = a /\ u.cursor.col = p /\ u.lines = x
    BY <1>4, <1>6
  <2> DEFINE c == Left(Line(u), u.cursor.col)
             w == Right(Line(u), u.cursor.col)
             g == [P EXCEPT ![1] = c \o @]
             y == Splice(u.lines, u.cursor.row, u.cursor.row, [g EXCEPT ![n] = @ \o w])
             z == At(u.cursor.row + n - 1, Len(g[n]))
  <2>5. Pasted(u, P) = [u EXCEPT !.lines = y, !.cursor = z]
    <3>1. n = Len(P)
      BY <1>2
    <3>2. QED
      BY <1>5, <2>1, <3>1 DEF Pasted
  <2>6. y = Splice(x, a, a, new) /\ z = At(a + n - 1, Len(before[n]))
    <3>1. c = h /\ w = e
      BY <2>3, <2>4
    <3> HIDE DEF c, w, h, e, x
    <3>2. QED
      BY <2>4, <3>1
  <2>7. u \in Docs
    <3>1. SelectionReadable(d)
      BY <1>1, <1>8 DEF SelectionReadable, InRows, a, b, q, L
    <3>2. QED
      BY <3>1, RemovedDoc DEF u
  <2> HIDE DEF y, z, new, before, x
  <2>8. Pasted(u, P).lines = y /\ Pasted(u, P).cursor = z
    BY <2>5, <2>7 DEF Docs
  <2>9. QED
    BY <2>6, <2>8
<1> HIDE DEF x
<1>13. before \in Seq(Row) /\ Len(before) = n
  <2>1. P[1] \in Row
    BY <1>2, <1>7, ElementOfSeq
  <2>2. h \o P[1] \in Row
    BY <1>9, <2>1, ConcatProperties DEF Row
  <2> HIDE DEF h
  <2>3. QED
    BY <1>2, <1>7, <2>2, ExceptSeq
<1>14. new \in Seq(Row) /\ Len(new) = n
  <2>1. before[n] \in Row
    BY <1>7, <1>13, ElementOfSeq
  <2>2. before[n] \o e \in Row
    BY <1>9, <2>1, ConcatProperties DEF Row
  <2> HIDE DEF e, before
  <2>3. QED
    BY <1>7, <1>13, <2>2, ExceptSeq
<1>15. /\ before[1] = h \o P[1] /\ \A i \in 1..n : i # 1 => before[i] = P[i]
       /\ new[n] = before[n] \o e /\ \A i \in 1..n : i # n => new[i] = before[i]
  <2> HIDE DEF h, e
  <2>1. DOMAIN P = 1..n
    BY <1>2
  <2>2. before[1] = h \o P[1] /\ \A i \in 1..n : i # 1 => before[i] = P[i]
    BY <1>7, <2>1
  <2>3. DOMAIN before = 1..n
    BY <2>1
  <2> HIDE DEF before
  <2>4. new[n] = before[n] \o e /\ \A i \in 1..n : i # n => new[i] = before[i]
    BY <1>7, <2>3
  <2>5. QED
    BY <2>2, <2>4
<1> HIDE DEF before, new
\* The first row with what was left before the selection, and the last with what
\* was left behind it.
<1>16. n = 1 => /\ a = b /\ h \o P[1] = Left(last, q) /\ Left(last, q) \o e = last
  <2>1. SUFFICES ASSUME n = 1 PROVE h \o P[1] = Left(last, q) /\ Left(last, q) \o e = last /\ a = b
    OBVIOUS
  <2>2. a = b
    BY <1>1, <2>1
  <2>3. first = last
    BY <2>2
  <2>4. P[1] = SubSeq(last, p + 1, q)
    BY <1>2, <2>1, <2>3
  <2>5. p \in 0..Len(last) /\ q \in p..Len(last)
    BY <1>1, <1>8, <2>2, <2>3
  <2>6. Left(last, p) \o SubSeq(last, p + 1, q) = Left(last, q) /\ Left(last, q) \o Right(last, q) = last
    <3> HIDE DEF last
    <3>1. QED
      BY <1>8, <2>5, LinePieces
  <2>7. h = Left(last, p)
    BY <2>3
  <2>8. QED
    BY <2>2, <2>4, <2>6, <2>7
<1>17. /\ h \o Right(first, p) = first
       /\ Left(last, q) \o e = last /\ Len(Left(last, q)) = q
  <2> HIDE DEF first, last
  <2>1. p \in p..Len(first) /\ q \in q..Len(last) /\ p \in 0..Len(first) /\ q \in 0..Len(last)
    BY <1>1, <1>8
  <2>2. Left(first, p) \o Right(first, p) = first
    BY <1>8, <2>1, LinePieces
  <2>3. Left(last, q) \o Right(last, q) = last
    BY <1>8, <2>1, LinePieces
  <2>4. Len(Left(last, q)) = q
    BY <1>8, <2>1, LeftOf
  <2>5. QED
    BY <2>2, <2>3, <2>4
<1>18. Len(before[n]) = q
  <2>1. CASE n = 1
    BY <1>15, <1>16, <1>17, <2>1
  <2>2. CASE n # 1
    BY <1>2, <1>7, <1>15, <1>17, <2>2
  <2>3. QED
    BY <2>1, <2>2
<1>19. ASSUME NEW i \in 1..n PROVE new[i] = L[a + i - 1]
  <2>1. CASE n = 1
    <3>1. i = n /\ a + i - 1 = b
      BY <1>1, <1>16, <2>1
    <3>2. new[n] = last
      BY <1>15, <1>16, <1>17, <2>1
    <3>3. QED
      BY <3>1, <3>2
  <2>2. CASE n # 1 /\ i = 1
    <3>1. a + i - 1 = a /\ i # n
      BY <1>1, <2>2
    <3>2. new[1] = h \o Right(first, p)
      BY <1>2, <1>7, <1>15, <2>2
    <3>3. QED
      BY <1>17, <2>2, <3>1, <3>2
  <2>3. CASE n # 1 /\ i = n
    <3>1. a + i - 1 = b
      BY <1>1, <2>3
    <3>2. new[n] = Left(last, q) \o e
      BY <1>2, <1>7, <1>15, <2>3
    <3>3. QED
      BY <1>17, <2>3, <3>1, <3>2
  <2>4. CASE n # 1 /\ i # 1 /\ i # n
    <3>1. i \in 2..(n - 1)
      BY <1>7, <2>4
    <3>2. P[i] = L[a + i - 1]
      BY <1>2, <2>4, <3>1
    <3>3. new[i] = P[i]
      BY <1>15, <2>4
    <3>4. QED
      BY <3>2, <3>3
  <2>5. QED
    BY <2>1, <2>2, <2>3, <2>4
<1>20. Splice(x, a, a, new) = L
  <2>1. Len(new) = b - a + 1 /\ \A i \in 1..Len(new) : new[i] = L[a + i - 1]
    BY <1>1, <1>14, <1>19
  <2>2. Splice(Splice(L, a, b, one), a, a, new) = L
    BY <1>1, <1>10, <1>14, <2>1, SplicedBack
  <2>3. QED
    BY <2>2 DEF x
<1>21. a + n - 1 = b
  BY <1>1
<1>22. QED
  <2>1. At(a + n - 1, Len(before[n])) = To(d)
    BY <1>1, <1>18, <1>21
  <2> HIDE DEF h, e
  <2>2. QED
    BY <1>12, <1>20, <2>1 DEF u, P, L, x, before, new

\* Cutting a selection out and pasting it back restores the text, for every
\* text and selection (editor_clipboard.c, forwards and backwards).
THEOREM CutIsUndone == Spec => []PasteUndoesCut
<1>1. TextInv => PasteUndoesCut
  <2>1. SUFFICES ASSUME TextInv, InText(doc, doc.anchor), InText(doc, doc.cursor),
                        \A i \in DOMAIN Selected(doc) : Selected(doc)[i] # <<>>
                 PROVE  LET back == Pasted(Removed(doc), Selected(doc))
                        IN  back.lines = doc.lines /\ back.cursor = To(doc)
    BY DEF PasteUndoesCut
  <2>2. doc \in Docs
    BY <2>1 DEF TextInv, TextTypes
  <2>3. QED
    BY <2>1, <2>2, CutThenPasted
<1>2. QED
  BY <1>1, InitText, StepText, PTL DEF Spec
=============================================================================
