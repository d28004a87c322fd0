--------------------------- MODULE FrameLoopProofs ---------------------------
(***************************************************************************)
(* Theorems about FrameLoop, for any projects, numbers of runs and files,  *)
(* budgets and ring.                                                       *)
(***************************************************************************)
EXTENDS FrameLoop, SequenceTheorems, TLAPS

(* A run is on its way.  From then on until it is started there is no      *)
(* other.                                                                  *)
Pending == refresh \/ wanted # None

(* Every file analysed moves the stamps of the diagnostics and the symbols *)
(* once, and a run that of the library at most once.                       *)
StampsBounded ==
    /\ \A s \in {"diagnostics", "symbols"} : stamp[s] + scan.left <= run * Files
    /\ stamp["library"] + (IF scan.phase \in {"begin", "files", "index", "finalize"} THEN 1 ELSE 0)
          <= run * Files

(* Results are those of the runs started so far.                           *)
ResultsOfRuns ==
    /\ \A r \in Range(results) : r.run <= run
    /\ frame.at = "flatten" => frame.result.run <= run /\ frame.left > 0
    /\ frame.at = "flatten" <=> frame.result # NoResult

(* A run announces diagnostics after its last file, and the project it     *)
(* was started for changes only if another run is wanted.                  *)
RunsInOrder ==
    /\ scan.phase \notin {"finished", "idle"} => settled = None
    /\ scan.phase # "idle" => run > 0
    /\ settled # None => run > 0 /\ settled = scan.root
    /\ ~Pending => scan.root = project

(* The result the current run pushed for a store is still to be applied.   *)
Announced(store) ==
    [store |-> store, run |-> run, root |-> scan.root, stamp |-> stamp[store]] \in Range(results)

OnItsWay(store) == Announced(store) \/ \E e \in Range(ring) : e.store = store

(* The engine takes the diagnostics when their result is applied ...       *)
EngineFollows ==
    settled # None /\ ~Pending =>
        "engine" \in fresh \/ frame.at = "flatten" \/ Announced("diagnostics")

(* ... the panels take theirs when the event is dispatched, the symbols'   *)
(* having been announced before.                                           *)
TreeFollows ==
    (scan.phase = "diagnostics" \/ settled # None) /\ ~Pending /\ ~lost =>
        "tree" \in fresh \/ noted \/ OnItsWay("symbols")

RowsFollow ==
    settled # None /\ scan.phase = "idle" /\ ~Pending /\ ~lost =>
        "rows" \in fresh \/ OnItsWay("library")

FrameInv ==
    /\ TypeOK
    /\ StampsBounded
    /\ ResultsOfRuns
    /\ RunsInOrder
    /\ EngineFollows
    /\ TreeFollows
    /\ RowsFollow

-----------------------------------------------------------------------------
\* What is in a sequence.

LEMMA AppendRange ==
    ASSUME NEW S, NEW s \in Seq(S), NEW e \in S
    PROVE  /\ Append(s, e) \in Seq(S) /\ Len(Append(s, e)) = Len(s) + 1
           /\ Range(Append(s, e)) = Range(s) \cup {e}
BY AppendProperties DEF Range

LEMMA TailRange ==
    ASSUME NEW S, NEW s \in Seq(S), s # <<>>
    PROVE  /\ Tail(s) \in Seq(S) /\ Len(Tail(s)) = Len(s) - 1 /\ Head(s) \in S
           /\ Range(s) = Range(Tail(s)) \cup {Head(s)}
<1> DEFINE t == Tail(s)
           m == Len(s)
<1>1. /\ m \in Nat \ {0} /\ s \in [1..m -> S] /\ Head(s) \in S /\ Head(s) = s[1]
      /\ t \in Seq(S) /\ Len(t) = m - 1 /\ \A i \in 1..(m - 1) : t[i] = s[i + 1]
  BY EmptySeq, HeadTailProperties, LenProperties
<1>2. DOMAIN s = 1..m /\ DOMAIN t = 1..(m - 1)
  BY <1>1, LenProperties
<1> HIDE DEF t, m
<1>3. ASSUME NEW i \in 1..m PROVE s[i] \in Range(t) \cup {s[1]}
  <2>1. i # 1 => i - 1 \in 1..(m - 1) /\ i - 1 + 1 = i
    BY <1>1
  <2>2. i # 1 => t[i - 1] = s[i]
    BY <1>1, <2>1
  <2>3. QED
    BY <1>2, <2>1, <2>2 DEF Range
<1>4. ASSUME NEW i \in 1..(m - 1) PROVE t[i] \in Range(s)
  <2>1. i + 1 \in 1..m
    BY <1>1
  <2>2. QED
    BY <1>1, <1>2, <2>1 DEF Range
<1>5. s[1] \in Range(s)
  <2>1. 1 \in 1..m
    BY <1>1
  <2>2. QED
    BY <1>2, <2>1 DEF Range
<1>6. Range(s) = Range(t) \cup {s[1]}
  BY <1>2, <1>3, <1>4, <1>5 DEF Range
<1>7. QED
  BY <1>1, <1>6 DEF t, m

LEMMA RemovedRange ==
    ASSUME NEW S, NEW s \in Seq(S), NEW i \in DOMAIN s
    PROVE  /\ RemoveAt(s, i) \in Seq(S) /\ s[i] \in S /\ s[i] \in Range(s)
           /\ Range(s) = Range(RemoveAt(s, i)) \cup {s[i]}
<1> DEFINE m == Len(s)
           a == SubSeq(s, 1, i - 1)
           b == SubSeq(s, i + 1, m)
           t == a \o b
<1>1. m \in Nat /\ s \in [1..m -> S] /\ i \in 1..m /\ DOMAIN s = 1..m
  BY LenProperties
<1>2. /\ a \in Seq(S) /\ Len(a) = i - 1 /\ \A j \in 1..(i - 1) : a[j] = s[j]
      /\ b \in Seq(S) /\ Len(b) = m - i /\ \A j \in 1..(m - i) : b[j] = s[i + j]
  <2>1. /\ 1 \in Int /\ i - 1 \in Int /\ i + 1 \in Int /\ m \in Int
        /\ \A j \in 1..(i - 1) : s[j] \in S
        /\ \A j \in (i + 1)..m : s[j] \in S
    BY <1>1
  <2>2. /\ a \in Seq(S) /\ Len(a) = (IF 1 <= i - 1 THEN i - 1 - 1 + 1 ELSE 0)
        /\ \A j \in 1..(i - 1 - 1 + 1) : a[j] = s[1 + j - 1]
    BY <2>1, SubSeqProperties
  <2>3. /\ b \in Seq(S) /\ Len(b) = (IF i + 1 <= m THEN m - (i + 1) + 1 ELSE 0)
        /\ \A j \in 1..(m - (i + 1) + 1) : b[j] = s[i + 1 + j - 1]
    BY <2>1, SubSeqProperties
  <2> HIDE DEF a, b, m
  <2>4. \A j \in 1..(i - 1) : j \in 1..(i - 1 - 1 + 1) /\ 1 + j - 1 = j
    BY <1>1
  <2>5. \A j \in 1..(m - i) : j \in 1..(m - (i + 1) + 1) /\ i + 1 + j - 1 = i + j
    BY <1>1
  <2>6. Len(a) = i - 1 /\ Len(b) = m - i
    BY <1>1, <2>2, <2>3
  <2>7. QED
    BY <2>2, <2>3, <2>4, <2>5, <2>6
<1> HIDE DEF a, b, m
<1>3. /\ t \in Seq(S) /\ Len(t) = m - 1
      /\ \A j \in 1..(m - 1) : t[j] = IF j <= i - 1 THEN a[j] ELSE b[j - (i - 1)]
  <2>1. /\ t \in Seq(S) /\ Len(t) = Len(a) + Len(b)
        /\ \A j \in 1..(Len(a) + Len(b)) : t[j] = IF j <= Len(a) THEN a[j] ELSE b[j - Len(a)]
    BY <1>2, ConcatProperties
  <2>2. Len(a) + Len(b) = m - 1
    BY <1>1, <1>2
  <2>3. QED
    BY <1>2, <2>1, <2>2
<1>4. DOMAIN t = 1..(m - 1)
  BY <1>3
<1> HIDE DEF t
<1>5. ASSUME NEW j \in 1..m PROVE s[j] \in Range(t) \cup {s[i]}
  <2>1. CASE j < i
    <3>1. j \in 1..(m - 1) /\ j <= i - 1 /\ j \in 1..(i - 1)
      BY <1>1, <2>1
    <3>2. QED
      BY <1>2, <1>3, <1>4, <3>1 DEF Range
  <2>2. CASE j > i
    <3>1. /\ j - 1 \in 1..(m - 1) /\ ~(j - 1 <= i - 1)
          /\ j - 1 - (i - 1) \in 1..(m - i) /\ i + (j - 1 - (i - 1)) = j
      BY <1>1, <2>2
    <3>2. t[j - 1] = s[j]
      BY <1>2, <1>3, <3>1
    <3>3. QED
      BY <1>4, <3>1, <3>2 DEF Range
  <2>3. QED
    BY <1>1, <2>1, <2>2
<1>6. ASSUME NEW j \in 1..(m - 1) PROVE t[j] \in Range(s)
  <2>1. CASE j <= i - 1
    <3>1. j \in 1..m /\ j \in 1..(i - 1)
      BY <1>1, <2>1
    <3>2. QED
      BY <1>1, <1>2, <1>3, <2>1, <3>1 DEF Range
  <2>2. CASE ~(j <= i - 1)
    <3>1. j - (i - 1) \in 1..(m - i) /\ i + (j - (i - 1)) \in 1..m
      BY <1>1, <2>2
    <3>2. t[j] = s[i + (j - (i - 1))]
      BY <1>2, <1>3, <2>2, <3>1
    <3>3. QED
      BY <1>1, <3>1, <3>2 DEF Range
  <2>3. QED
    BY <2>1, <2>2
<1>7. s[i] \in Range(s) /\ s[i] \in S
  BY <1>1 DEF Range
<1>8. Range(s) = Range(t) \cup {s[i]}
  BY <1>1, <1>4, <1>5, <1>6, <1>7 DEF Range
<1>9. QED
  BY <1>3, <1>7, <1>8 DEF RemoveAt, t, a, b, m

LEMMA QuietFollows == FrameInv => CopiesFollowStores
<1>1. SUFFICES ASSUME FrameInv, Quiet
               PROVE  {"engine", "rows"} \subseteq fresh /\ ("tree" \in fresh \/ noted)
  BY DEF CopiesFollowStores
<1>2. settled # None /\ ~Pending /\ ~lost /\ scan.phase = "idle" /\ frame.at # "flatten"
  BY <1>1, FrameLoopAssumption DEF Quiet, Pending, FrameInv, TypeOK
<1>3. Range(results) = {} /\ Range(ring) = {}
  BY <1>1 DEF Quiet, Range
<1>4. QED
  BY <1>1, <1>2, <1>3 DEF FrameInv, EngineFollows, TreeFollows, RowsFollow, OnItsWay, Announced

-----------------------------------------------------------------------------
\* The initial state, and the bounds of the stamps.

LEMMA BoundsOfRuns ==
    ASSUME TypeOK
    PROVE  /\ run * Files \in Nat /\ run * Files <= MaxRuns * Files
           /\ (run + 1) * Files = run * Files + Files
           /\ MaxRuns \in Nat \ {0} /\ Files \in Nat \ {0} /\ run \in Nat
           /\ MaxRuns * Files \in Nat
BY FrameLoopAssumption DEF TypeOK

LEMMA InitFrame == Init => FrameInv
<1>1. SUFFICES ASSUME Init PROVE FrameInv
  OBVIOUS
<1>2. /\ MaxRuns \in Nat \ {0} /\ Files \in Nat \ {0} /\ RingCapacity \in Nat /\ project \in Projects
      /\ ResultBudget \in Nat /\ EventBudget \in Nat /\ None \notin Projects
  BY <1>1, FrameLoopAssumption DEF Init
<1>3. MaxRuns * Files \in Nat /\ 0 * Files = 0
  BY <1>2
<1>4. TypeOK
  <2>1. /\ stamp \in [Stores -> Stamps] /\ published \in Stamps /\ label \in Stamps \cup {NoLabel}
        /\ scan \in [phase : Phases, root : Projects, full : BOOLEAN, cancel : BOOLEAN, left : 0..Files]
    BY <1>1, <1>2, <1>3 DEF Init, Stamps, Stores, Phases
  <2>2. results \in Seq(Result) /\ ring \in Seq(Event) /\ Len(ring) <= RingCapacity
    BY <1>1, <1>2 DEF Init
  <2>3. frame \in [at : {"drain", "flatten", "events", "render", "refresh"},
                   left : 0..(ResultBudget + EventBudget), result : Result \cup {NoResult}]
    BY <1>1, <1>2 DEF Init, At
  <2>4. run \in 0..MaxRuns /\ latest \in 0..run /\ wanted \in Wanted
    BY <1>1, <1>2 DEF Init, Wanted
  <2>5. QED
    BY <1>1, <1>2, <2>1, <2>2, <2>3, <2>4 DEF Init, TypeOK
<1>5. StampsBounded /\ ResultsOfRuns /\ RunsInOrder
  BY <1>1, <1>2, <1>3 DEF Init, StampsBounded, ResultsOfRuns, RunsInOrder, At, Stores, Range
<1>6. EngineFollows /\ TreeFollows /\ RowsFollow
  BY <1>1 DEF Init, EngineFollows, TreeFollows, RowsFollow
<1>7. QED
  BY <1>4, <1>5, <1>6 DEF FrameInv

-----------------------------------------------------------------------------
\* The worker.

\* Until the diagnostics are announced nothing is expected of the copies.
LEMMA NothingAnnounced ==
    settled' = None /\ scan'.phase # "diagnostics" => EngineFollows' /\ TreeFollows' /\ RowsFollow'
BY DEF EngineFollows, TreeFollows, RowsFollow

LEMMA BeginStep == FrameInv /\ Begin => FrameInv'
<1>1. SUFFICES ASSUME FrameInv, Begin PROVE FrameInv'
  OBVIOUS
<1>2. /\ scan.phase = "begin" /\ settled = None /\ settled' = None
      /\ UNCHANGED <<run, settled, asked, results, latest, ring, noted, label, lost, frame>>
      /\ scan' = [scan EXCEPT !.phase = scan'.phase] /\ scan'.phase \in {"finished", "files"}
  BY <1>1 DEF Begin, GoTo, FrameInv, TypeOK, RunsInOrder
<1>3. /\ published' \in {published, 0} /\ fresh' \subseteq fresh
      /\ stamp' = stamp \/ stamp' = [stamp EXCEPT !["diagnostics"] = 0]
  BY <1>1 DEF Begin
<1>4. /\ scan' \in [phase : Phases, root : Projects, full : BOOLEAN, cancel : BOOLEAN, left : 0..Files]
      /\ scan'.left = scan.left /\ scan'.root = scan.root
  BY <1>1, <1>2 DEF FrameInv, TypeOK, Phases
<1>5. 0 \in Stamps /\ scan.left \in Nat /\ run * Files \in Nat
  BY <1>1, BoundsOfRuns DEF Stamps, FrameInv, TypeOK
<1>6. stamp' \in [Stores -> Stamps]
  BY <1>1, <1>3, <1>5 DEF FrameInv, TypeOK
<1>7. TypeOK'
  BY <1>1, <1>2, <1>3, <1>4, <1>5, <1>6 DEF FrameInv, TypeOK, asked, Stamps
<1>8. StampsBounded'
  <2>1. stamp'["symbols"] = stamp["symbols"] /\ stamp'["library"] = stamp["library"]
        /\ stamp'["diagnostics"] \in {stamp["diagnostics"], 0}
    BY <1>1, <1>3 DEF FrameInv, TypeOK, Stores
  <2>2. scan.left <= run * Files /\ stamp["library"] + 1 <= run * Files /\ stamp["library"] \in Nat
    <3>1. stamp["symbols"] \in Nat /\ stamp["library"] \in Nat
      BY <1>1 DEF FrameInv, TypeOK, Stores, Stamps
    <3>2. stamp["symbols"] + scan.left <= run * Files
      BY <1>1 DEF FrameInv, StampsBounded
    <3>3. stamp["library"] + 1 <= run * Files
      BY <1>1, <1>2 DEF FrameInv, StampsBounded
    <3>4. QED
      BY <1>5, <3>1, <3>2, <3>3
  <2>3. \A s \in {"diagnostics", "symbols"} : stamp'[s] + scan'.left <= run * Files
    BY <1>1, <1>4, <1>5, <2>1, <2>2 DEF FrameInv, StampsBounded
  <2>4. QED
    BY <1>2, <1>5, <2>1, <2>2, <2>3 DEF StampsBounded
<1>9. ResultsOfRuns' /\ RunsInOrder'
  BY <1>1, <1>2, <1>4 DEF FrameInv, ResultsOfRuns, RunsInOrder, Pending, asked
<1>10. EngineFollows' /\ TreeFollows' /\ RowsFollow'
  BY <1>2, NothingAnnounced
<1>11. QED
  BY <1>7, <1>8, <1>9, <1>10 DEF FrameInv

Scans == [phase : Phases, root : Projects, full : BOOLEAN, cancel : BOOLEAN, left : 0..Files]

\* A step of the worker before it announces the diagnostics.
LEMMA WorkerGoesOn ==
    ASSUME FrameInv, settled = None, scan.phase # "idle",
           UNCHANGED <<run, settled, asked, results, latest, ring, noted, label, lost, frame>>,
           published' = published, fresh' \subseteq fresh,
           scan' \in Scans, scan'.root = scan.root, scan'.phase # "diagnostics",
           stamp' \in [Stores -> Stamps], StampsBounded'
    PROVE  FrameInv'
<1>1. TypeOK'
  BY DEF FrameInv, TypeOK, asked, Stamps, Scans
<1>2. ResultsOfRuns' /\ RunsInOrder'
  BY DEF FrameInv, ResultsOfRuns, RunsInOrder, Pending, asked
<1>3. EngineFollows' /\ TreeFollows' /\ RowsFollow'
  BY NothingAnnounced
<1>4. QED
  BY <1>1, <1>2, <1>3 DEF FrameInv

\* The stamps as numbers.
LEMMA StampNumbers ==
    ASSUME FrameInv
    PROVE  /\ stamp["diagnostics"] \in Nat /\ stamp["symbols"] \in Nat /\ stamp["library"] \in Nat
           /\ stamp["diagnostics"] + scan.left <= run * Files
           /\ stamp["symbols"] + scan.left <= run * Files
           /\ stamp["library"] <= run * Files
           /\ scan.phase \in {"begin", "files", "index", "finalize"} =>
                stamp["library"] + 1 <= run * Files
           /\ scan.left \in 0..Files /\ run * Files \in Nat /\ run * Files <= MaxRuns * Files
           /\ MaxRuns * Files \in Nat
<1>1. /\ stamp["diagnostics"] \in Nat /\ stamp["symbols"] \in Nat /\ stamp["library"] \in Nat
      /\ scan.left \in 0..Files
  BY DEF FrameInv, TypeOK, Stores, Stamps
<1>2. /\ run * Files \in Nat /\ run * Files <= MaxRuns * Files /\ MaxRuns * Files \in Nat
  BY BoundsOfRuns DEF FrameInv
<1>3. /\ stamp["diagnostics"] + scan.left <= run * Files
      /\ stamp["symbols"] + scan.left <= run * Files
      /\ stamp["library"] + (IF scan.phase \in {"begin", "files", "index", "finalize"} THEN 1 ELSE 0)
            <= run * Files
  BY DEF FrameInv, StampsBounded
<1>4. QED
  BY <1>1, <1>2, <1>3

LEMMA AnalyseFileStep == FrameInv /\ AnalyseFile => FrameInv'
<1>1. SUFFICES ASSUME FrameInv, AnalyseFile PROVE FrameInv'
  OBVIOUS
<1> DEFINE B == run * Files
           d == stamp["diagnostics"]
           y == stamp["symbols"]
           l == scan.left
<1>2. /\ scan.phase = "files" /\ l > 0
      /\ scan' = [scan EXCEPT !.left = l - 1]
      /\ stamp' = [stamp EXCEPT !["diagnostics"] = d + 1, !["symbols"] = y + 1]
      /\ fresh' \subseteq fresh
      /\ UNCHANGED <<run, settled, asked, results, latest, ring, published, noted, label, lost, frame>>
  BY <1>1 DEF AnalyseFile
<1>3. /\ d \in Nat /\ y \in Nat /\ d + l <= B /\ y + l <= B /\ l \in 0..Files /\ B \in Nat
      /\ B <= MaxRuns * Files /\ MaxRuns * Files \in Nat /\ Files \in Nat
  BY <1>1, StampNumbers, FrameLoopAssumption
<1>4. scan \in Scans /\ settled = None /\ stamp \in [Stores -> Stamps]
  BY <1>1, <1>2 DEF FrameInv, TypeOK, Scans, RunsInOrder
<1> HIDE DEF B, d, y, l
<1>5. /\ l - 1 \in 0..Files /\ d + 1 + (l - 1) <= B /\ y + 1 + (l - 1) <= B
      /\ d + 1 \in 0..(MaxRuns * Files) /\ y + 1 \in 0..(MaxRuns * Files)
  <2>1. l \in Nat /\ l > 0 /\ l <= Files
    BY <1>2, <1>3
  <2>2. l - 1 \in 0..Files /\ d + 1 + (l - 1) <= B /\ y + 1 + (l - 1) <= B
    BY <1>3, <2>1
  <2>3. d + 1 <= B /\ y + 1 <= B
    BY <1>3, <2>1
  <2> DEFINE M == MaxRuns * Files
  <2>4. M \in Nat /\ B <= M
    BY <1>3
  <2> HIDE DEF M
  <2>5. d + 1 \in 0..M /\ y + 1 \in 0..M
    BY <1>3, <2>3, <2>4
  <2>6. QED
    BY <2>2, <2>5 DEF M
<1>6. scan' \in Scans /\ scan'.root = scan.root /\ scan'.left = l - 1 /\ scan'.phase = "files"
  BY <1>2, <1>4, <1>5 DEF Scans
<1>7. /\ stamp' \in [Stores -> Stamps] /\ stamp'["diagnostics"] = d + 1 /\ stamp'["symbols"] = y + 1
      /\ stamp'["library"] = stamp["library"]
  BY <1>2, <1>4, <1>5 DEF Stores, Stamps
<1>8. StampsBounded'
  <2>1. \A s \in {"diagnostics", "symbols"} : stamp'[s] + scan'.left <= run' * Files
    BY <1>2, <1>5, <1>6, <1>7 DEF B
  <2>2. stamp'["library"] + 1 <= run' * Files
    BY <1>1, <1>2, <1>7, StampNumbers
  <2>3. QED
    BY <1>6, <2>1, <2>2 DEF StampsBounded
<1>9. QED
  BY <1>1, <1>2, <1>4, <1>6, <1>7, <1>8, WorkerGoesOn

LEMMA EndFilesStep == FrameInv /\ EndFiles => FrameInv'
<1>1. SUFFICES ASSUME FrameInv, EndFiles PROVE FrameInv'
  OBVIOUS
<1>2. /\ scan.phase = "files"
      /\ scan' = [scan EXCEPT !.phase = IF scan.full THEN "index" ELSE "finalize", !.left = 0]
      /\ UNCHANGED <<run, stamp, settled, asked, results, latest, ring, published, noted, label,
                     fresh, lost, frame>>
  BY <1>1 DEF EndFiles
<1>3. scan \in Scans /\ settled = None /\ stamp \in [Stores -> Stamps] /\ Files \in Nat
  BY <1>1, <1>2, FrameLoopAssumption DEF FrameInv, TypeOK, Scans, RunsInOrder
<1>4. /\ scan' \in Scans /\ scan'.root = scan.root /\ scan'.left = 0
      /\ scan'.phase \in {"index", "finalize"}
  <2> DEFINE phase == IF scan.full THEN "index" ELSE "finalize"
  <2>1. phase \in Phases /\ phase \in {"index", "finalize"} /\ 0 \in 0..Files
    BY <1>3 DEF Phases
  <2>2. scan' = [scan EXCEPT !.phase = phase, !.left = 0]
    BY <1>2
  <2> HIDE DEF phase
  <2>3. QED
    BY <1>3, <2>1, <2>2 DEF Scans
<1>5. StampsBounded'
  <2>1. /\ stamp["diagnostics"] + 0 <= run * Files /\ stamp["symbols"] + 0 <= run * Files
        /\ stamp["library"] + 1 <= run * Files
    BY <1>1, <1>2, StampNumbers
  <2>2. QED
    BY <1>2, <1>4, <2>1 DEF StampsBounded
<1>6. QED
  BY <1>1, <1>2, <1>3, <1>4, <1>5, WorkerGoesOn

LEMMA IndexLibraryStep == FrameInv /\ IndexLibrary => FrameInv'
<1>1. SUFFICES ASSUME FrameInv, IndexLibrary PROVE FrameInv'
  OBVIOUS
<1>2. /\ scan.phase = "index" /\ scan' = [scan EXCEPT !.phase = "finalize"]
      /\ stamp' = [stamp EXCEPT !["library"] = 0] /\ fresh' \subseteq fresh
      /\ UNCHANGED <<run, settled, asked, results, latest, ring, published, noted, label, lost, frame>>
  BY <1>1 DEF IndexLibrary, GoTo
<1>3. scan \in Scans /\ settled = None /\ stamp \in [Stores -> Stamps]
  BY <1>1, <1>2 DEF FrameInv, TypeOK, Scans, RunsInOrder
<1>4. /\ scan' \in Scans /\ scan'.root = scan.root /\ scan'.left = scan.left
      /\ scan'.phase = "finalize"
  BY <1>2, <1>3 DEF Scans, Phases
<1>5. 0 \in Stamps
  BY <1>1, StampNumbers DEF Stamps
<1>6. /\ stamp' \in [Stores -> Stamps] /\ stamp'["library"] = 0
      /\ stamp'["diagnostics"] = stamp["diagnostics"] /\ stamp'["symbols"] = stamp["symbols"]
  BY <1>2, <1>3, <1>5 DEF Stores
<1>7. StampsBounded'
  <2>1. 0 + 1 <= run * Files
    BY <1>1, <1>2, StampNumbers
  <2>2. /\ stamp["diagnostics"] + scan.left <= run * Files
        /\ stamp["symbols"] + scan.left <= run * Files
    BY <1>1, StampNumbers
  <2>3. QED
    BY <1>2, <1>4, <1>6, <2>1, <2>2 DEF StampsBounded
<1>8. QED
  BY <1>1, <1>2, <1>3, <1>4, <1>6, <1>7, WorkerGoesOn

LEMMA FinalizeLibraryStep == FrameInv /\ FinalizeLibrary => FrameInv'
<1>1. SUFFICES ASSUME FrameInv, FinalizeLibrary PROVE FrameInv'
  OBVIOUS
<1>2. PICK moves \in {0, 1} :
         stamp' = [stamp EXCEPT !["library"] = @ + moves]
  BY <1>1 DEF FinalizeLibrary
<1>3. /\ scan.phase = "finalize"
      /\ scan' = [scan EXCEPT !.phase = IF scan.cancel THEN "finished" ELSE "symbols"]
      /\ fresh' \subseteq fresh
      /\ UNCHANGED <<run, settled, asked, results, latest, ring, published, noted, label, lost, frame>>
  BY <1>1 DEF FinalizeLibrary, GoTo
<1>4. scan \in Scans /\ settled = None /\ stamp \in [Stores -> Stamps]
  BY <1>1, <1>3 DEF FrameInv, TypeOK, Scans, RunsInOrder
<1>5. /\ scan' \in Scans /\ scan'.root = scan.root /\ scan'.left = scan.left
      /\ scan'.phase \in {"finished", "symbols"}
  BY <1>3, <1>4 DEF Scans, Phases
<1> DEFINE l == stamp["library"]
           B == run * Files
           M == MaxRuns * Files
<1>6. l \in Nat /\ l + 1 <= B /\ B \in Nat /\ B <= M /\ M \in Nat
  BY <1>1, <1>3, StampNumbers
<1> HIDE DEF l, B, M
<1>7. l + moves \in 0..M /\ l + moves <= B
  BY <1>6
<1>8. /\ stamp' \in [Stores -> Stamps] /\ stamp'["library"] = l + moves
      /\ stamp'["diagnostics"] = stamp["diagnostics"] /\ stamp'["symbols"] = stamp["symbols"]
  BY <1>2, <1>4, <1>7 DEF Stores, Stamps, l, M
<1>9. StampsBounded'
  <2>1. /\ stamp["diagnostics"] + scan.left <= run * Files
        /\ stamp["symbols"] + scan.left <= run * Files
    BY <1>1, StampNumbers
  <2>2. l + moves + 0 <= run * Files
    BY <1>6, <1>7 DEF B
  <2>3. QED
    BY <1>3, <1>5, <1>8, <2>1, <2>2 DEF StampsBounded
<1>10. QED
  BY <1>1, <1>3, <1>4, <1>5, <1>8, <1>9, WorkerGoesOn

LEMMA PushResultStep == FrameInv /\ PushResult => FrameInv'
<1> DEFINE store == IF scan.phase = "finished" THEN "library" ELSE scan.phase
           r == [store |-> store, run |-> run, root |-> scan.root, stamp |-> stamp[store]]
<1>1. SUFFICES ASSUME FrameInv, PushResult PROVE FrameInv'
  OBVIOUS
<1>2. /\ scan.phase \in {"symbols", "diagnostics", "finished"}
      /\ results' = Append(results, r)
      /\ scan' = [scan EXCEPT !.phase = After(scan.phase)]
      /\ settled' = IF scan.phase = "diagnostics" THEN scan.root ELSE settled
      /\ UNCHANGED <<run, stamp, asked, latest, ring, published, noted, label, fresh, lost, frame>>
  BY <1>1 DEF PushResult, GoTo
<1>3. /\ scan \in Scans /\ stamp \in [Stores -> Stamps] /\ run \in 1..MaxRuns
      /\ results \in Seq(Result)
  BY <1>1, <1>2, FrameLoopAssumption DEF FrameInv, TypeOK, Scans, RunsInOrder
<1>4. store \in Stores /\ r \in Result
  BY <1>2, <1>3 DEF Stores, Result, Scans
<1>5. /\ scan' \in Scans /\ scan'.root = scan.root /\ scan'.left = scan.left
      /\ scan'.phase = After(scan.phase)
  <2>1. After(scan.phase) \in Phases
    BY <1>2 DEF After, Phases
  <2>2. QED
    BY <1>2, <1>3, <2>1 DEF Scans
<1> HIDE DEF r
<1>6. results' \in Seq(Result) /\ Range(results') = Range(results) \cup {r}
  BY <1>2, <1>3, <1>4, AppendRange
<1>7. TypeOK'
  <2>1. settled' \in Projects \cup {None}
    BY <1>1, <1>2, <1>3 DEF FrameInv, TypeOK, Scans
  <2>2. QED
    BY <1>1, <1>2, <1>5, <1>6, <2>1 DEF FrameInv, TypeOK, asked, Stamps, Scans
<1>8. StampsBounded'
  <2>1. After(scan.phase) \notin {"begin", "files", "index", "finalize"}
    BY <1>2 DEF After
  <2>2. /\ stamp["diagnostics"] + scan.left <= run * Files
        /\ stamp["symbols"] + scan.left <= run * Files
        /\ stamp["library"] + 0 <= run * Files
    BY <1>1, StampNumbers
  <2>3. QED
    BY <1>2, <1>5, <2>1, <2>2 DEF StampsBounded
<1>9. ResultsOfRuns' /\ RunsInOrder'
  <2>1. r.run = run /\ run <= run /\ run > 0
    BY <1>3 DEF r
  <2>2. ResultsOfRuns'
    BY <1>1, <1>2, <1>6, <2>1 DEF FrameInv, ResultsOfRuns
  <2>3. scan'.phase \notin {"finished", "idle"} => settled' = None
    BY <1>1, <1>2, <1>5 DEF FrameInv, RunsInOrder, After
  <2>4. QED
    BY <1>1, <1>2, <1>5, <2>1, <2>2, <2>3 DEF FrameInv, RunsInOrder, Pending, asked
<1>10. /\ scan.phase = "symbols" => Announced("symbols")'
       /\ scan.phase = "diagnostics" => Announced("diagnostics")'
       /\ scan.phase = "finished" => Announced("library")'
       /\ \A s \in Stores : Announced(s) => Announced(s)'
  <2>1. /\ run' = run /\ scan'.root = scan.root /\ stamp' = stamp
    BY <1>2, <1>5
  <2>2. r \in Range(results') /\ Range(results) \subseteq Range(results')
    BY <1>6
  <2>3. QED
    BY <2>1, <2>2 DEF Announced, r
<1>11. OnItsWay("symbols") => OnItsWay("symbols")'
  BY <1>2, <1>10 DEF OnItsWay, Stores
<1>12. EngineFollows'
  BY <1>1, <1>2, <1>10 DEF FrameInv, EngineFollows, Pending, asked, Stores
<1>13. TreeFollows'
  <2>1. scan.phase = "symbols" => OnItsWay("symbols")'
    BY <1>10 DEF OnItsWay
  <2>2. scan.phase # "symbols" =>
          ((scan'.phase = "diagnostics" \/ settled' # None)
              => (scan.phase = "diagnostics" \/ settled # None))
    BY <1>2, <1>5 DEF After
  <2>3. QED
    BY <1>1, <1>2, <1>11, <2>1, <2>2 DEF FrameInv, TreeFollows, Pending, asked
<1>14. RowsFollow'
  <2>1. scan'.phase = "idle" => OnItsWay("library")'
    BY <1>2, <1>5, <1>10 DEF After, OnItsWay
  <2>2. QED
    BY <2>1 DEF RowsFollow
<1>15. QED
  BY <1>7, <1>8, <1>9, <1>12, <1>13, <1>14 DEF FrameInv

-----------------------------------------------------------------------------
\* The main loop.

Frames == [at : {"drain", "flatten", "events", "render", "refresh"},
           left : 0..(ResultBudget + EventBudget), result : Result \cup {NoResult}]

LEMMA FrameAt ==
    ASSUME NEW step \in {"drain", "events", "render", "refresh"}
    PROVE  /\ At(step) \in Frames /\ At(step).at = step /\ At(step).result = NoResult
           /\ \A n \in 0..(ResultBudget + EventBudget) :
                /\ [At(step) EXCEPT !.left = n] \in Frames
                /\ [At(step) EXCEPT !.left = n].at = step
                /\ [At(step) EXCEPT !.left = n].result = NoResult
BY FrameLoopAssumption DEF At, Frames

\* A result is not the absence of one.
LEMMA ResultIsNone == NoResult \notin Result
BY DEF NoResult, Result

LEMMA EmittedEvent ==
    ASSUME FrameInv, NEW store \in Stores, NEW number \in Stamps
    PROVE  /\ Emitted(store, number) \in Seq(Event) /\ Len(Emitted(store, number)) <= RingCapacity
           /\ Range(ring) \subseteq Range(Emitted(store, number))
           /\ Len(ring) # RingCapacity =>
                EventOf(store, number) \in Range(Emitted(store, number))
           /\ EventOf(store, number).store = store
<1>1. /\ ring \in Seq(Event) /\ Len(ring) \in Nat /\ Len(ring) <= RingCapacity
      /\ RingCapacity \in Nat
  BY FrameLoopAssumption, LenProperties DEF FrameInv, TypeOK
<1>2. EventOf(store, number) \in Event /\ EventOf(store, number).store = store
  <2>1. 0 \in Stamps
    BY StampNumbers DEF Stamps
  <2>2. QED
    BY <2>1 DEF EventOf, Event
<1>3. CASE Len(ring) < RingCapacity
  <2>1. Emitted(store, number) = Append(ring, EventOf(store, number))
    BY <1>3 DEF Emitted
  <2>2. /\ Append(ring, EventOf(store, number)) \in Seq(Event)
        /\ Len(Append(ring, EventOf(store, number))) = Len(ring) + 1
        /\ Range(Append(ring, EventOf(store, number))) = Range(ring) \cup {EventOf(store, number)}
    BY <1>1, <1>2, AppendRange
  <2>3. QED
    BY <1>1, <1>2, <1>3, <2>1, <2>2
<1>4. CASE ~(Len(ring) < RingCapacity)
  BY <1>1, <1>2, <1>4 DEF Emitted
<1>5. QED
  BY <1>3, <1>4

\* Once a run is wanted, no more is expected of this one.
LEMMA RunIsWanted == Pending' => EngineFollows' /\ TreeFollows' /\ RowsFollow'
BY DEF EngineFollows, TreeFollows, RowsFollow

LEMMA AskWants ==
    ASSUME FrameInv, Ask
    PROVE  wanted' \in Wanted /\ wanted' # None
<1>1. PICK k \in Kinds : wanted' = IF wanted = "full" THEN "full" ELSE k
  BY DEF Ask
<1>2. wanted \in Wanted /\ k \in Wanted /\ k # None
  BY DEF FrameInv, TypeOK, Wanted, Kinds, None
<1>3. QED
  BY <1>1, <1>2 DEF None

\* What the worker keeps while the main loop goes on.
LEMMA WorkerWaits ==
    ASSUME FrameInv, UNCHANGED worker
    PROVE  /\ StampsBounded'
           /\ Pending' \/ (UNCHANGED asked) => RunsInOrder'
           /\ run' = run /\ scan' = scan /\ stamp' = stamp /\ settled' = settled
BY DEF FrameInv, StampsBounded, RunsInOrder, worker, asked, Pending

LEMMA RefreshStep == FrameInv /\ Refresh => FrameInv'
<1>1. SUFFICES ASSUME FrameInv, Refresh PROVE FrameInv'
  OBVIOUS
<1>2. /\ refresh' = FALSE /\ Ask
      /\ ring' = Emitted("library", stamp["library"]) /\ lost' \in BOOLEAN
      /\ UNCHANGED <<project, worker, results, latest, published, noted, label, fresh, frame>>
  BY <1>1 DEF Refresh, FrameInv, TypeOK
<1>3. wanted' \in Wanted /\ wanted' # None
  BY <1>1, <1>2, AskWants
<1>4. Pending'
  BY <1>3 DEF Pending
<1>5. ring' \in Seq(Event) /\ Len(ring') <= RingCapacity
  <2>1. "library" \in Stores /\ stamp["library"] \in Stamps
    BY <1>1 DEF FrameInv, TypeOK, Stores
  <2>2. QED
    BY <1>1, <1>2, <2>1, EmittedEvent
<1>6. StampsBounded' /\ RunsInOrder' /\ run' = run /\ scan' = scan /\ stamp' = stamp /\ settled' = settled
  BY <1>1, <1>2, <1>4, WorkerWaits
<1>7. TypeOK'
  BY <1>1, <1>2, <1>3, <1>5, <1>6 DEF FrameInv, TypeOK, Stamps
<1>8. ResultsOfRuns'
  BY <1>1, <1>2, <1>6 DEF FrameInv, ResultsOfRuns
<1>9. QED
  BY <1>4, <1>6, <1>7, <1>8, RunIsWanted DEF FrameInv

LEMMA InputStep == FrameInv /\ Input => FrameInv'
<1>1. SUFFICES ASSUME FrameInv, Input PROVE FrameInv'
  OBVIOUS
<1>2. /\ frame.at = "refresh" /\ ~refresh
      /\ frame' = [At("drain") EXCEPT !.left = ResultBudget]
      /\ UNCHANGED <<worker, results, latest, ring, published, noted, label, fresh, lost>>
  BY <1>1 DEF Input
<1>3. frame' \in Frames /\ frame'.at = "drain" /\ frame'.result = NoResult
  <2>1. ResultBudget \in 0..(ResultBudget + EventBudget)
    BY FrameLoopAssumption
  <2>2. QED
    BY <1>2, <2>1, FrameAt
<1>4. /\ project' \in Projects /\ refresh' \in BOOLEAN /\ wanted' \in Wanted
      /\ Pending' \/ UNCHANGED asked
  <2>1. CASE UNCHANGED asked
    BY <1>1, <2>1 DEF FrameInv, TypeOK, asked
  <2>2. CASE Ask /\ UNCHANGED <<project, refresh>>
    BY <1>1, <2>2, AskWants DEF FrameInv, TypeOK, Pending
  <2>3. CASE \E p \in Projects : project' = p /\ refresh' = TRUE /\ UNCHANGED wanted
    BY <1>1, <2>3 DEF FrameInv, TypeOK, Pending
  <2>4. QED
    BY <1>1, <2>1, <2>2, <2>3 DEF Input
<1>5. StampsBounded' /\ RunsInOrder' /\ run' = run /\ scan' = scan /\ stamp' = stamp /\ settled' = settled
  BY <1>1, <1>2, <1>4, WorkerWaits
<1>6. TypeOK'
  BY <1>1, <1>2, <1>3, <1>4, <1>5 DEF FrameInv, TypeOK, Stamps, Frames
<1>7. ResultsOfRuns'
  BY <1>1, <1>2, <1>3, <1>5 DEF FrameInv, ResultsOfRuns
<1>8. EngineFollows' /\ TreeFollows' /\ RowsFollow'
  <2>1. CASE Pending'
    BY <2>1, RunIsWanted
  <2>2. CASE UNCHANGED asked
    BY <1>1, <1>2, <1>5, <2>2
    DEF FrameInv, EngineFollows, TreeFollows, RowsFollow, OnItsWay, Announced, Pending, asked
  <2>3. QED
    BY <1>4, <2>1, <2>2
<1>9. QED
  BY <1>5, <1>6, <1>7, <1>8 DEF FrameInv

LEMMA EndDrainStep == FrameInv /\ EndDrain => FrameInv'
<1>1. SUFFICES ASSUME FrameInv, EndDrain PROVE FrameInv'
  OBVIOUS
<1>2. /\ frame.at = "drain" /\ frame' = [At("events") EXCEPT !.left = EventBudget]
      /\ UNCHANGED <<asked, worker, results, latest, ring, published, noted, label, fresh, lost>>
  BY <1>1 DEF EndDrain
<1>3. frame' \in Frames /\ frame'.at = "events" /\ frame'.result = NoResult
  <2>1. EventBudget \in 0..(ResultBudget + EventBudget)
    BY FrameLoopAssumption
  <2>2. QED
    BY <1>2, <2>1, FrameAt
<1>4. StampsBounded' /\ RunsInOrder' /\ run' = run /\ scan' = scan /\ stamp' = stamp /\ settled' = settled
  BY <1>1, <1>2, WorkerWaits
<1>5. TypeOK'
  BY <1>1, <1>2, <1>3, <1>4 DEF FrameInv, TypeOK, Stamps, Frames, asked
<1>6. ResultsOfRuns'
  BY <1>1, <1>2, <1>3, <1>4 DEF FrameInv, ResultsOfRuns
<1>7. EngineFollows' /\ TreeFollows' /\ RowsFollow'
  BY <1>1, <1>2, <1>4
  DEF FrameInv, EngineFollows, TreeFollows, RowsFollow, OnItsWay, Announced, Pending, asked
<1>8. QED
  BY <1>4, <1>5, <1>6, <1>7 DEF FrameInv

LEMMA RenderStep == FrameInv /\ Render => FrameInv'
<1>1. SUFFICES ASSUME FrameInv, Render PROVE FrameInv'
  OBVIOUS
<1>2. /\ frame.at = "render" /\ frame' = At("refresh")
      /\ UNCHANGED <<asked, worker, results, latest, ring, published, lost>>
  BY <1>1 DEF Render
<1>3. /\ noted' \in BOOLEAN /\ label' \in {label, published}
      /\ fresh \subseteq fresh' /\ fresh' \subseteq Copies
      /\ noted => noted' \/ "tree" \in fresh'
  <2>1. CASE UNCHANGED <<noted, label, fresh>>
    BY <1>1, <2>1 DEF FrameInv, TypeOK
  <2>2. ASSUME NEW shown \in ErrorsShown, noted' = FALSE,
               label' = IF shown THEN published ELSE label,
               fresh' = fresh \cup (IF noted THEN {"tree"} ELSE {})
                              \cup (IF shown /\ label # published THEN {"errors"} ELSE {})
        PROVE  /\ noted' \in BOOLEAN /\ label' \in {label, published}
               /\ fresh \subseteq fresh' /\ fresh' \subseteq Copies
               /\ noted => noted' \/ "tree" \in fresh'
    BY <1>1, <2>2 DEF FrameInv, TypeOK, Copies
  <2>3. QED
    BY <1>1, <2>1, <2>2 DEF Render
<1>4. frame' \in Frames /\ frame'.at = "refresh" /\ frame'.result = NoResult
  BY <1>2, FrameAt
<1>5. StampsBounded' /\ RunsInOrder' /\ run' = run /\ scan' = scan /\ stamp' = stamp /\ settled' = settled
  BY <1>1, <1>2, WorkerWaits
<1>6. TypeOK'
  BY <1>1, <1>2, <1>3, <1>4, <1>5 DEF FrameInv, TypeOK, Stamps, NoLabel, Frames, asked
<1>7. ResultsOfRuns'
  BY <1>1, <1>2, <1>4, <1>5 DEF FrameInv, ResultsOfRuns
<1>8. EngineFollows' /\ TreeFollows' /\ RowsFollow'
  BY <1>1, <1>2, <1>3, <1>5
  DEF FrameInv, EngineFollows, TreeFollows, RowsFollow, OnItsWay, Announced, Pending, asked
<1>9. QED
  BY <1>5, <1>6, <1>7, <1>8 DEF FrameInv

\* A result that is dropped is not the one the current run pushed, unless
\* another run is wanted.
LEMMA CurrentIsNotStale ==
    ASSUME FrameInv, ~Pending, NEW store,
           NEW r, r = [store |-> store, run |-> run, root |-> scan.root, stamp |-> stamp[store]]
    PROVE  ~Stale(r)
<1>1. latest <= run /\ latest \in Nat /\ run \in Nat /\ scan.root = project
  BY DEF FrameInv, TypeOK, RunsInOrder
<1>2. QED
  BY <1>1 DEF Stale, Superseded

\* What announcing a result does to the events and to what counts as applied.
LEMMA AnnounceStep ==
    ASSUME FrameInv, NEW r \in Result, r.run <= run, Announce(r)
    PROVE  /\ ring' \in Seq(Event) /\ Len(ring') <= RingCapacity /\ lost' \in BOOLEAN
           /\ latest' \in 0..run /\ (lost => lost')
           /\ Range(ring) \subseteq Range(ring')
           /\ ~lost' => \E e \in Range(ring') : e.store = r.store
<1>1. r.store \in Stores /\ r.stamp \in Stamps /\ r.run \in 1..MaxRuns
  BY DEF Result
<1>2. ring' = Emitted(r.store, r.stamp) /\ lost' = (lost \/ Len(ring) = RingCapacity)
  BY DEF Announce
<1>3. /\ ring' \in Seq(Event) /\ Len(ring') <= RingCapacity /\ Range(ring) \subseteq Range(ring')
      /\ Len(ring) # RingCapacity => EventOf(r.store, r.stamp) \in Range(ring')
      /\ EventOf(r.store, r.stamp).store = r.store
  BY <1>1, <1>2, EmittedEvent
<1>4. latest' \in 0..run
  BY <1>1 DEF Announce, FrameInv, TypeOK
<1>5. lost \in BOOLEAN
  BY DEF FrameInv, TypeOK
<1>6. QED
  BY <1>2, <1>3, <1>4, <1>5

LEMMA DrainStep == FrameInv /\ Drain => FrameInv'
<1>1. SUFFICES ASSUME FrameInv, Drain PROVE FrameInv'
  OBVIOUS
<1>2. PICK i \in Popped : LET r == results[i] IN
         /\ results' = RemoveAt(results, i)
         /\ IF ~Stale(r) /\ r.store = "diagnostics"
            THEN frame' = [frame EXCEPT !.at = "flatten", !.result = r]
            ELSE frame' = [frame EXCEPT !.left = @ - 1]
         /\ IF ~Stale(r) /\ r.store # "diagnostics"
            THEN Announce(r) ELSE UNCHANGED <<ring, lost, latest>>
  BY <1>1 DEF Drain
<1> DEFINE r == results[i]
<1>3. /\ frame.at = "drain" /\ frame.left > 0 /\ results # <<>>
      /\ UNCHANGED <<asked, worker, published, noted, label, fresh>>
  BY <1>1 DEF Drain
<1>4. /\ results \in Seq(Result) /\ frame \in Frames /\ Len(results) \in Nat
      /\ DOMAIN results = 1..Len(results)
  BY <1>1 DEF FrameInv, TypeOK, Frames
<1>5. i \in DOMAIN results
  <2>1. Len(results) \in Nat \ {0}
    BY <1>3, <1>4, EmptySeq
  <2>2. i \in {1, 2} /\ (i = 2 => Len(results) > 1)
    BY DEF Popped
  <2>3. QED
    BY <1>4, <2>1, <2>2
<1>6. /\ results' \in Seq(Result) /\ r \in Result /\ r \in Range(results)
      /\ Range(results) = Range(results') \cup {r}
  BY <1>2, <1>4, <1>5, RemovedRange
<1>7. r.run <= run /\ frame.result = NoResult
  BY <1>1, <1>3, <1>6 DEF FrameInv, ResultsOfRuns
<1> HIDE DEF r
<1>8. StampsBounded' /\ RunsInOrder' /\ run' = run /\ scan' = scan /\ stamp' = stamp /\ settled' = settled
  BY <1>1, <1>3, WorkerWaits
<1>9. /\ ring' \in Seq(Event) /\ Len(ring') <= RingCapacity /\ lost' \in BOOLEAN
      /\ latest' \in 0..run /\ (lost => lost')
      /\ Range(ring) \subseteq Range(ring')
      /\ ~Stale(r) /\ r.store # "diagnostics" /\ ~lost' => \E e \in Range(ring') : e.store = r.store
  <2>1. CASE ~Stale(r) /\ r.store # "diagnostics"
    <3>1. Announce(r)
      BY <1>2, <2>1 DEF r
    <3>2. QED
      BY <1>1, <1>6, <1>7, <3>1, AnnounceStep
  <2>2. CASE ~(~Stale(r) /\ r.store # "diagnostics")
    <3>1. UNCHANGED <<ring, lost, latest>>
      BY <1>2, <2>2 DEF r
    <3>2. QED
      BY <1>1, <2>2, <3>1 DEF FrameInv, TypeOK
  <2>3. QED
    BY <2>1, <2>2
<1>10. /\ frame' \in Frames
       /\ ~Stale(r) /\ r.store = "diagnostics" =>
            frame'.at = "flatten" /\ frame'.result = r /\ frame'.left = frame.left
       /\ Stale(r) \/ r.store # "diagnostics" => frame'.at = "drain" /\ frame'.result = NoResult
  <2>1. CASE ~Stale(r) /\ r.store = "diagnostics"
    <3>1. frame' = [frame EXCEPT !.at = "flatten", !.result = r]
      BY <1>2, <2>1 DEF r
    <3>2. QED
      BY <1>4, <1>6, <2>1, <3>1 DEF Frames
  <2>2. CASE ~(~Stale(r) /\ r.store = "diagnostics")
    <3>1. frame' = [frame EXCEPT !.left = @ - 1]
      BY <1>2, <2>2 DEF r
    <3>2. frame.left - 1 \in 0..(ResultBudget + EventBudget)
      BY <1>3, <1>4, FrameLoopAssumption DEF Frames
    <3>3. QED
      BY <1>3, <1>4, <1>7, <2>2, <3>1, <3>2 DEF Frames
  <2>3. QED
    BY <2>1, <2>2
<1>11. TypeOK'
  <2>1. /\ frame' \in Frames /\ results' \in Seq(Result) /\ ring' \in Seq(Event)
        /\ Len(ring') <= RingCapacity /\ lost' \in BOOLEAN /\ latest' \in 0..run
    BY <1>6, <1>9, <1>10, Zenon
  <2>2. /\ UNCHANGED <<project, refresh, wanted, run, scan, stamp, settled>>
        /\ UNCHANGED <<published, noted, label, fresh>>
    BY <1>3, <1>8 DEF asked
  <2>3. QED
    BY <1>1, <2>1, <2>2 DEF FrameInv, TypeOK, Stamps, NoLabel, Frames
<1>12. ResultsOfRuns'
  BY <1>1, <1>3, <1>6, <1>7, <1>8, <1>10, ResultIsNone DEF FrameInv, ResultsOfRuns
<1>13. ASSUME NEW store, ~Pending, Announced(store)
       PROVE  Announced(store)' \/ (r.store = store /\ ~Stale(r))
  <2> DEFINE c == [store |-> store, run |-> run, root |-> scan.root, stamp |-> stamp[store]]
  <2>1. c \in Range(results)
    BY <1>13 DEF Announced
  <2>2. c = r \/ c \in Range(results')
    BY <1>6, <2>1
  <2>3. c = r => r.store = store /\ ~Stale(r)
    BY <1>1, <1>13, CurrentIsNotStale
  <2>4. c \in Range(results') => Announced(store)'
    BY <1>8 DEF Announced
  <2>5. QED
    BY <2>2, <2>3, <2>4
<1>14. Pending' <=> Pending
  BY <1>3 DEF Pending, asked
<1>15. EngineFollows'
  BY <1>1, <1>3, <1>8, <1>10, <1>13, <1>14 DEF FrameInv, EngineFollows
<1>16. ASSUME NEW store \in {"symbols", "library"}, ~Pending, ~lost', OnItsWay(store)
       PROVE  OnItsWay(store)'
  BY <1>9, <1>13, <1>16 DEF OnItsWay
<1>17. TreeFollows' /\ RowsFollow'
  <2>1. /\ ~Pending /\ ~lost' /\ OnItsWay("symbols") => OnItsWay("symbols")'
        /\ ~Pending /\ ~lost' /\ OnItsWay("library") => OnItsWay("library")'
    BY <1>16
  <2>2. ~lost' => ~lost
    BY <1>9, Zenon
  <2>3. scan' = scan /\ settled' = settled /\ fresh' = fresh /\ noted' = noted
    BY <1>3, <1>8
  <2>4. TreeFollows /\ RowsFollow
    BY <1>1 DEF FrameInv
  <2>5. QED
    BY <1>14, <2>1, <2>2, <2>3, <2>4 DEF TreeFollows, RowsFollow
<1>18. QED
  BY <1>8, <1>11, <1>12, <1>15, <1>17 DEF FrameInv

LEMMA FlattenStep == FrameInv /\ Flatten => FrameInv'
<1>1. SUFFICES ASSUME FrameInv, Flatten PROVE FrameInv'
  OBVIOUS
<1> DEFINE r == frame.result
<1>2. /\ frame.at = "flatten" /\ fresh' = fresh \cup {"engine"} /\ Announce(r)
      /\ frame' = [At("drain") EXCEPT !.left = frame.left - 1]
      /\ UNCHANGED <<asked, worker, results, published, noted, label>>
  BY <1>1 DEF Flatten
<1>3. r \in Result /\ r.run <= run /\ frame \in Frames
  BY <1>1, <1>2 DEF FrameInv, ResultsOfRuns, TypeOK, Frames
<1>4. /\ ring' \in Seq(Event) /\ Len(ring') <= RingCapacity /\ lost' \in BOOLEAN
      /\ latest' \in 0..run /\ (lost => lost') /\ Range(ring) \subseteq Range(ring')
  BY <1>1, <1>2, <1>3, AnnounceStep
<1>5. frame' \in Frames /\ frame'.at = "drain" /\ frame'.result = NoResult
  <2>1. frame.left - 1 \in 0..(ResultBudget + EventBudget)
    BY <1>1, <1>2, <1>3, FrameLoopAssumption DEF FrameInv, ResultsOfRuns, Frames
  <2>2. QED
    BY <1>2, <2>1, FrameAt
<1>6. StampsBounded' /\ RunsInOrder' /\ run' = run /\ scan' = scan /\ stamp' = stamp /\ settled' = settled
  BY <1>1, <1>2, WorkerWaits
<1>7. TypeOK'
  <2>1. fresh' \subseteq Copies
    BY <1>1, <1>2 DEF FrameInv, TypeOK, Copies
  <2>2. /\ UNCHANGED <<project, refresh, wanted, run, scan, stamp, settled>>
        /\ UNCHANGED <<results, published, noted, label>>
    BY <1>2, <1>6 DEF asked
  <2>3. /\ ring' \in Seq(Event) /\ Len(ring') <= RingCapacity
        /\ lost' \in BOOLEAN /\ latest' \in 0..run
    BY <1>4, Zenon
  <2>4. QED
    BY <1>1, <1>5, <2>1, <2>2, <2>3 DEF FrameInv, TypeOK, Stamps, NoLabel, Frames
<1>8. ResultsOfRuns'
  BY <1>1, <1>2, <1>5, <1>6 DEF FrameInv, ResultsOfRuns
<1>9. EngineFollows'
  BY <1>2 DEF EngineFollows
<1>10. TreeFollows' /\ RowsFollow'
  <2>1. \A store : OnItsWay(store) => OnItsWay(store)'
    BY <1>2, <1>4, <1>6 DEF OnItsWay, Announced
  <2>2. (~lost' => ~lost) /\ (Pending' <=> Pending)
    BY <1>2, <1>4, Zenon DEF Pending, asked
  <2>3. TreeFollows /\ RowsFollow /\ fresh \subseteq fresh' /\ noted' = noted
    BY <1>1, <1>2 DEF FrameInv
  <2>4. QED
    BY <1>6, <2>1, <2>2, <2>3 DEF TreeFollows, RowsFollow
<1>11. QED
  BY <1>6, <1>7, <1>8, <1>9, <1>10 DEF FrameInv

LEMMA DispatchStep == FrameInv /\ Dispatch => FrameInv'
<1>1. SUFFICES ASSUME FrameInv, Dispatch PROVE FrameInv'
  OBVIOUS
<1> DEFINE e == Head(ring)
<1>2. /\ frame.at = "events" /\ frame.left > 0 /\ ring # <<>>
      /\ noted' = (noted \/ e.store = "symbols")
      /\ published' = IF e.store = "diagnostics" THEN e.stamp ELSE published
      /\ fresh' = IF e.store = "library" THEN fresh \cup {"rows"} ELSE fresh
      /\ ring' = Tail(ring)
      /\ frame' = [frame EXCEPT !.left = @ - 1]
      /\ UNCHANGED <<asked, worker, results, latest, label, lost>>
  BY <1>1 DEF Dispatch
<1>3. /\ ring \in Seq(Event) /\ Len(ring) <= RingCapacity /\ Len(ring) \in Nat /\ RingCapacity \in Nat
      /\ frame \in Frames /\ frame.result = NoResult
  BY <1>1, <1>2, FrameLoopAssumption DEF FrameInv, TypeOK, Frames, ResultsOfRuns
<1>4. /\ ring' \in Seq(Event) /\ Len(ring') = Len(ring) - 1 /\ e \in Event
      /\ Range(ring) = Range(ring') \cup {e}
  BY <1>2, <1>3, TailRange
<1> HIDE DEF e
<1>5. frame' \in Frames /\ frame'.at = "events" /\ frame'.result = NoResult
  <2>1. frame.left - 1 \in 0..(ResultBudget + EventBudget)
    BY <1>2, <1>3, FrameLoopAssumption DEF Frames
  <2>2. QED
    BY <1>2, <1>3, <2>1 DEF Frames
<1>6. StampsBounded' /\ RunsInOrder' /\ run' = run /\ scan' = scan /\ stamp' = stamp /\ settled' = settled
  BY <1>1, <1>2, WorkerWaits
<1>7. TypeOK'
  <2>1. fresh' \subseteq Copies /\ noted' \in BOOLEAN /\ published' \in Stamps
    BY <1>1, <1>2, <1>4 DEF FrameInv, TypeOK, Copies, Event
  <2>2. Len(ring') <= RingCapacity
    BY <1>3, <1>4
  <2>3. /\ UNCHANGED <<project, refresh, wanted, run, scan, stamp, settled>>
        /\ UNCHANGED <<results, latest, label, lost>>
    BY <1>2, <1>6 DEF asked
  <2>4. QED
    BY <1>1, <1>4, <1>5, <2>1, <2>2, <2>3 DEF FrameInv, TypeOK, Stamps, NoLabel, Frames
<1>8. ResultsOfRuns'
  BY <1>1, <1>2, <1>5, <1>6 DEF FrameInv, ResultsOfRuns
<1>9. \A store : OnItsWay(store) => OnItsWay(store)' \/ e.store = store
  BY <1>2, <1>4, <1>6 DEF OnItsWay, Announced
<1>10. EngineFollows' /\ TreeFollows' /\ RowsFollow'
  <2>1. EngineFollows'
    BY <1>1, <1>2, <1>6 DEF FrameInv, EngineFollows, Announced, Pending, asked
  <2>2. TreeFollows'
    <3>1. OnItsWay("symbols") => OnItsWay("symbols")' \/ noted'
      BY <1>2, <1>9
    <3>2. QED
      BY <1>1, <1>2, <1>6, <3>1 DEF FrameInv, TreeFollows, Pending, asked
  <2>3. RowsFollow'
    <3>1. OnItsWay("library") => OnItsWay("library")' \/ "rows" \in fresh'
      BY <1>2, <1>9
    <3>2. QED
      BY <1>1, <1>2, <1>6, <3>1 DEF FrameInv, RowsFollow, Pending, asked
  <2>4. QED
    BY <2>1, <2>2, <2>3
<1>11. QED
  BY <1>6, <1>7, <1>8, <1>10 DEF FrameInv

LEMMA TickStep == FrameInv /\ Tick => FrameInv'
<1>1. SUFFICES ASSUME FrameInv, Tick PROVE FrameInv'
  OBVIOUS
<1>2. /\ frame.at = "events" /\ frame' = At("render")
      /\ UNCHANGED <<stamp, project, refresh, results, latest, ring, published, noted, label, fresh, lost>>
  BY <1>1 DEF Tick
<1>3. frame' \in Frames /\ frame'.at = "render" /\ frame'.result = NoResult
  BY <1>2, FrameAt
<1>4. CASE /\ run' = run + 1 /\ run < MaxRuns /\ settled' = None /\ wanted' = None
           /\ scan.phase = "idle"
           /\ scan' = [phase |-> "begin", root |-> project, full |-> wanted = "full",
                       cancel |-> FALSE, left |-> Files]
  <2>1. /\ run \in Nat /\ MaxRuns \in Nat /\ Files \in Nat \ {0}
        /\ run * Files \in Nat /\ (run + 1) * Files = run * Files + Files
    BY <1>1, BoundsOfRuns DEF FrameInv
  <2>2. run' \in 0..MaxRuns /\ latest' \in 0..run' /\ run <= run'
    BY <1>1, <1>2, <1>4, <2>1 DEF FrameInv, TypeOK
  <2>3. /\ scan' \in Scans /\ scan'.left = Files /\ scan'.phase = "begin" /\ scan'.root = project
    <3>1. Files \in 0..Files /\ project \in Projects
      BY <1>1, <2>1 DEF FrameInv, TypeOK
    <3>2. QED
      BY <1>4, <3>1 DEF Scans, Phases
  <2>4. TypeOK'
    BY <1>1, <1>2, <1>3, <1>4, <2>2, <2>3 DEF FrameInv, TypeOK, Stamps, NoLabel, Frames, Scans, Wanted
  <2>5. StampsBounded'
    <3> DEFINE B == run * Files
               l == scan.left
    <3>1. /\ stamp["diagnostics"] \in Nat /\ stamp["symbols"] \in Nat /\ stamp["library"] \in Nat
          /\ l \in Nat /\ B \in Nat /\ stamp["library"] <= B
          /\ stamp["diagnostics"] + l <= B /\ stamp["symbols"] + l <= B
      BY <1>1, StampNumbers
    <3>2. run' * Files = B + Files
      BY <1>4, <2>1
    <3> HIDE DEF B, l
    <3>3. /\ stamp["diagnostics"] + Files <= B + Files /\ stamp["symbols"] + Files <= B + Files
          /\ stamp["library"] + 1 <= B + Files
      BY <2>1, <3>1
    <3>4. QED
      BY <1>2, <2>3, <3>2, <3>3 DEF StampsBounded
  <2>6. ResultsOfRuns'
    <3>1. \A r \in Range(results) : r.run \in Nat /\ r.run <= run
      <4>1. \A r \in Range(results) : r \in Result
        BY <1>1, ElementOfSeq DEF FrameInv, TypeOK, Range
      <4>2. QED
        BY <1>1, <4>1 DEF FrameInv, ResultsOfRuns, Result
    <3>2. \A r \in Range(results) : r.run <= run'
      BY <2>1, <1>4, <3>1
    <3>3. QED
      BY <1>2, <1>3, <3>2 DEF ResultsOfRuns
  <2>7. RunsInOrder'
    BY <1>2, <1>4, <2>1, <2>3 DEF RunsInOrder
  <2>8. EngineFollows' /\ TreeFollows' /\ RowsFollow'
    BY <1>4, <2>3, NothingAnnounced
  <2>9. QED
    BY <2>4, <2>5, <2>6, <2>7, <2>8 DEF FrameInv
<1>5. CASE /\ UNCHANGED <<run, settled, wanted>>
           /\ UNCHANGED scan \/ scan' = [scan EXCEPT !.cancel = TRUE]
  <2>1. /\ scan' \in Scans /\ scan'.left = scan.left /\ scan'.phase = scan.phase
        /\ scan'.root = scan.root
    BY <1>1, <1>5 DEF FrameInv, TypeOK, Scans
  <2>2. TypeOK'
    BY <1>1, <1>2, <1>3, <1>5, <2>1 DEF FrameInv, TypeOK, Stamps, NoLabel, Frames, Scans
  <2>3. StampsBounded'
    BY <1>1, <1>2, <1>5, <2>1 DEF FrameInv, StampsBounded
  <2>4. ResultsOfRuns' /\ RunsInOrder'
    BY <1>1, <1>2, <1>3, <1>5, <2>1 DEF FrameInv, ResultsOfRuns, RunsInOrder, Pending
  <2>5. EngineFollows' /\ TreeFollows' /\ RowsFollow'
    BY <1>1, <1>2, <1>5, <2>1
    DEF FrameInv, EngineFollows, TreeFollows, RowsFollow, OnItsWay, Announced, Pending
  <2>6. QED
    BY <2>2, <2>3, <2>4, <2>5 DEF FrameInv
<1>6. QED
  BY <1>1, <1>4, <1>5 DEF Tick

-----------------------------------------------------------------------------
\* The theorems.

LEMMA FrameStep == FrameInv /\ [Next]_vars => FrameInv'
<1>1. SUFFICES ASSUME FrameInv, [Next]_vars PROVE FrameInv'
  OBVIOUS
<1>2. CASE Worker
  BY <1>1, <1>2, BeginStep, AnalyseFileStep, EndFilesStep, IndexLibraryStep, FinalizeLibraryStep,
     PushResultStep DEF Worker
<1>3. CASE Main
  BY <1>1, <1>3, RefreshStep, InputStep, DrainStep, FlattenStep, EndDrainStep, DispatchStep,
     TickStep, RenderStep DEF Main
<1>4. CASE UNCHANGED vars
  BY <1>1, <1>4
  DEF vars, worker, asked, FrameInv, TypeOK, StampsBounded, ResultsOfRuns, RunsInOrder,
      EngineFollows, TreeFollows, RowsFollow, OnItsWay, Announced, Pending
<1>5. QED
  BY <1>1, <1>2, <1>3, <1>4 DEF Next

\* The results on their way, the events in the ring and the copies belong
\* together at every step of the worker and of the loop.
THEOREM FrameInvariant == Spec => []FrameInv
BY InitFrame, FrameStep, PTL DEF Spec

\* Whatever results were dropped because the worker had gone on, came in
\* another order or belonged to another run or project: when all is quiet the
\* engine and the panels hold what the stores hold
\* (mainthread_drain_completed_results, event_loop.c).
THEOREM CopiesAreFollowed == Spec => []CopiesFollowStores
BY FrameInvariant, QuietFollows, PTL
=============================================================================
