--------------------------- MODULE DesktopProofs ---------------------------
(***************************************************************************)
(* What this program sees of the desktop: the list of its outputs and      *)
(* windows, for every set of them and number of changes, the frames of the *)
(* direct capture, for every number of frames and render nodes, and the    *)
(* ring of the PipeWire readback, for every pool and size.                 *)
(* A batch of events is folded by a recursive function over a sequence of  *)
(* any length: the proofs walk it with a trace and the least index at      *)
(* which a fact would fail.                                                *)
(***************************************************************************)
EXTENDS DirectCapture, PipeWireCapture, SourceEnumerator, Integers, FiniteSetTheorems, WellFoundedInduction, TLAPS

\* A set of natural numbers has a least one.
Below == {ss \in Nat \X Nat : ss[1] < ss[2]}

LEMMA BelowWellFounded == IsWellFoundedOn(Below, Nat)
  BY NatLessThanWellFounded, Zenon DEF OpToRel, Below

LEMMA Least ==
  ASSUME NEW T \in SUBSET Nat, T # {}
  PROVE  \E x \in T : \A y \in T : x <= y
<1>1. \A x, y \in Nat : x < y => <<x, y>> \in Below
  BY DEF Below
<1>2. PICK x \in T : \A y \in T : ~ (<<y, x>> \in Below)
  BY BelowWellFounded, WFMin
<1>3. ASSUME NEW y \in T PROVE x <= y
  <2>1. x \in Nat /\ y \in Nat /\ ~ (<<y, x>> \in Below)
    BY <1>2
  <2>2. ~ (y < x)
    BY <1>1, <2>1
  <2> QED
    BY <2>1, <2>2
<1> QED
  BY <1>3

\* Induction, over a set: what holds at 0 and one further holds up to n.
LEMMA UpTo ==
  ASSUME NEW n \in Nat, NEW S, 0 \in S, \A i \in 1 .. n : i - 1 \in S => i \in S
  PROVE  \A i \in 0 .. n : i \in S
<1> DEFINE Out == {i \in 0 .. n : i \notin S}
<1> SUFFICES ASSUME Out # {} PROVE FALSE
  OBVIOUS
<1>1. Out \in SUBSET Nat
  OBVIOUS
<1>2. PICK x \in Out : \A y \in Out : x <= y
  BY <1>1, Least
<1>3. x \in 1 .. n /\ x \notin S
  BY <1>2
<1>4. x - 1 \in 0 .. n /\ ~ (x <= x - 1)
  BY <1>3
<1>5. x - 1 \in S
  BY <1>2, <1>4
<1> QED
  BY <1>3, <1>5

-----------------------------------------------------------------------------
\* The states of a batch, as the function AfterBatch chooses.
Begin == [out |-> eOut, top |-> eTop, dirty |-> eDirty]
OneMore(s, event) ==
  [out |-> OutAfter(s.out, event), top |-> TopAfter(s.top, event),
   dirty |-> s.dirty \union DirtyAfter(s.top, event)]
Stepping(batch, g) ==
  [i \in 0 .. Len(batch) |-> IF i = 0 THEN Begin ELSE OneMore(g[i - 1], batch[i])]

LEMMA AfterBatchIs ==
  ASSUME NEW batch
  PROVE  AfterBatch(batch) = (CHOOSE g : g = Stepping(batch, g))[Len(batch)]
  BY DEF AfterBatch, Stepping, Begin, OneMore

Events ==
  ({"global", "output_done", "global_remove"} \X Outputs)
    \union ({"toplevel", "closed", "done"} \X Windows) \union ({"title"} \X Windows \X Nat)

\* The tables as they will be after each event of the wire.
Leads(wire, out, top, o, t) ==
  /\ o[0] = out /\ t[0] = top
  /\ \A i \in 0 .. Len(wire) : DOMAIN o[i] = Outputs /\ DOMAIN t[i] = Windows
  /\ \A i \in 1 .. Len(wire) : /\ o[i] = OutAfter(o[i - 1], wire[i])
                              /\ t[i] = TopAfter(t[i - 1], wire[i])

\* What of the change sets the first i events of the wire mark.
Marked(t, i) == eDirty \union UNION {DirtyAfter(t[j - 1], eWire[j]) : j \in 1 .. i}

LEMMA MarkedNext ==
  ASSUME NEW t, NEW i \in Nat \ {0}
  PROVE  Marked(t, i) = Marked(t, i - 1) \union DirtyAfter(t[i - 1], eWire[i])
<1>1. 1 .. i = (1 .. i - 1) \union {i}
  OBVIOUS
<1> QED
  BY <1>1 DEF Marked

LEMMA BatchTraced ==
  ASSUME eWire \in Seq(Events), NEW o, NEW t, Leads(eWire, eOut, eTop, o, t), NEW k \in 1 .. Len(eWire)
  PROVE  AfterBatch(SubSeq(eWire, 1, k)) = [out |-> o[k], top |-> t[k], dirty |-> Marked(t, k)]
<1> DEFINE batch == SubSeq(eWire, 1, k)
           f == [i \in 0 .. k |-> [out |-> o[i], top |-> t[i], dirty |-> Marked(t, i)]]
           g == CHOOSE h : h = Stepping(batch, h)
<1>1. Len(batch) = k /\ k \in Nat /\ \A i \in 1 .. k : batch[i] = eWire[i]
  OBVIOUS
<1> HIDE DEF batch
<1>2. f[0] = Begin
  <2>1. Marked(t, 0) = eDirty
    BY DEF Marked
  <2> QED
    BY <1>1, <2>1 DEF Begin, Leads
<1>3. ASSUME NEW i \in 1 .. k PROVE i - 1 \in 0 .. k /\ i \in 0 .. k /\ f[i] = OneMore(f[i - 1], batch[i])
  <2>1. i - 1 \in 0 .. k /\ i \in 0 .. k /\ i \in Nat \ {0} /\ i \in 1 .. Len(eWire)
    BY <1>1
  <2>2. f[i - 1] = [out |-> o[i - 1], top |-> t[i - 1], dirty |-> Marked(t, i - 1)]
    BY <2>1
  <2>3. f[i] = [out |-> o[i], top |-> t[i], dirty |-> Marked(t, i)]
    BY <2>1
  <2>4. /\ o[i] = OutAfter(o[i - 1], eWire[i]) /\ t[i] = TopAfter(t[i - 1], eWire[i])
        /\ Marked(t, i) = Marked(t, i - 1) \union DirtyAfter(t[i - 1], eWire[i])
        /\ batch[i] = eWire[i]
    BY <1>1, <2>1, MarkedNext DEF Leads
  <2> HIDE DEF f
  <2> QED
    BY <2>1, <2>2, <2>3, <2>4 DEF OneMore
<1>4. f = Stepping(batch, f)
  <2> DEFINE value(i) == IF i = 0 THEN Begin ELSE OneMore(f[i - 1], batch[i])
  <2>1. \A i \in 0 .. k : f[i] = value(i)
    <3> SUFFICES ASSUME NEW i \in 0 .. k PROVE f[i] = value(i)
      OBVIOUS
    <3>1. CASE i = 0
      BY <1>2, <3>1
    <3>2. CASE i # 0
      <4>1. i \in 1 .. k
        BY <1>1, <3>2
      <4> HIDE DEF f
      <4> QED
        BY <1>3, <3>2, <4>1
    <3> QED
      BY <3>1, <3>2
  <2>2. f = [i \in 0 .. k |-> f[i]]
    OBVIOUS
  <2>3. Stepping(batch, f) = [i \in 0 .. k |-> value(i)]
    BY <1>1 DEF Stepping
  <2> HIDE DEF f, value
  <2> QED
    BY <2>1, <2>2, <2>3
<1> HIDE DEF f
<1>5. g = Stepping(batch, g)
  BY <1>4
<1> HIDE DEF g
<1>6. g[0] = Begin /\ \A i \in 1 .. k : g[i] = OneMore(g[i - 1], batch[i])
  <2> DEFINE value(i) == IF i = 0 THEN Begin ELSE OneMore(g[i - 1], batch[i])
  <2>1. g = [i \in 0 .. k |-> value(i)]
    BY <1>1, <1>5 DEF Stepping
  <2>2. \A i \in 0 .. k : g[i] = value(i)
    <3> HIDE DEF value
    <3> QED
      BY <2>1
  <2>3. 0 \in 0 .. k /\ \A i \in 1 .. k : i \in 0 .. k /\ i # 0
    BY <1>1
  <2> QED
    BY <2>2, <2>3
<1> DEFINE S == {i \in 0 .. k : g[i] = f[i]}
<1>7. 0 \in S
  BY <1>1, <1>2, <1>6
<1>8. ASSUME NEW i \in 1 .. k, i - 1 \in S PROVE i \in S
  <2>1. i \in 0 .. k /\ g[i - 1] = f[i - 1]
    BY <1>3, <1>8
  <2> QED
    BY <1>3, <1>6, <2>1
<1> HIDE DEF S
<1>9. k \in S
  <2>1. k \in Nat /\ k \in 0 .. k
    BY <1>1
  <2> QED
    BY <1>7, <1>8, <2>1, UpTo
<1>10. g[k] = f[k] /\ AfterBatch(batch) = g[k]
  BY <1>1, <1>9, AfterBatchIs DEF S, g
<1> QED
  BY <1>1, <1>10 DEF f, batch

\* An event that marks nothing changes nothing that is listed.
LEMMA UnmarkedUnchanged ==
  ASSUME NEW o, NEW t, NEW event
  PROVE  /\ "windows" \notin DirtyAfter(t, event) => TopAfter(t, event) = t
         /\ "monitors" \notin DirtyAfter(t, event) => OutAfter(o, event) = o
<1>1. ASSUME "windows" \notin DirtyAfter(t, event) PROVE TopAfter(t, event) = t
  <2>1. event[1] # "toplevel"
    BY <1>1 DEF DirtyAfter
  <2>2. event[1] \notin {"title", "done", "closed"} \/ t[event[2]].seen = "none"
    BY <1>1 DEF DirtyAfter
  <2> QED
    BY <2>1, <2>2 DEF TopAfter
<1>2. ASSUME "monitors" \notin DirtyAfter(t, event) PROVE OutAfter(o, event) = o
  <2>1. event[1] # "global" /\ event[1] # "output_done"
    BY <1>2 DEF DirtyAfter
  <2> QED
    BY <2>1 DEF OutAfter
<1> QED
  BY <1>1, <1>2

\* A batch that does not mark a list leaves its table alone.
LEMMA UnmarkedBatch ==
  ASSUME eWire \in Seq(Events), NEW o, NEW t, Leads(eWire, eOut, eTop, o, t), NEW k \in 1 .. Len(eWire)
  PROVE  /\ "windows" \notin Marked(t, k) => t[k] = eTop
         /\ "monitors" \notin Marked(t, k) => o[k] = eOut
<1>1. k \in Nat
  OBVIOUS
<1>2. ASSUME "windows" \notin Marked(t, k) PROVE t[k] = eTop
  <2> DEFINE S == {i \in 0 .. k : t[i] = eTop}
  <2>1. 0 \in S
    BY <1>1 DEF Leads
  <2>2. ASSUME NEW i \in 1 .. k, i - 1 \in S PROVE i \in S
    <3>1. i \in 0 .. k /\ i \in 1 .. Len(eWire) /\ t[i - 1] = eTop
      BY <2>2
    <3>2. "windows" \notin DirtyAfter(t[i - 1], eWire[i])
      BY <1>2 DEF Marked
    <3>3. TopAfter(t[i - 1], eWire[i]) = t[i - 1]
      BY <3>2, UnmarkedUnchanged
    <3> QED
      BY <3>1, <3>3 DEF Leads
  <2> HIDE DEF S
  <2>3. k \in S
    BY <1>1, <2>1, <2>2, UpTo
  <2> QED
    BY <2>3 DEF S
<1>3. ASSUME "monitors" \notin Marked(t, k) PROVE o[k] = eOut
  <2> DEFINE S == {i \in 0 .. k : o[i] = eOut}
  <2>1. 0 \in S
    BY <1>1 DEF Leads
  <2>2. ASSUME NEW i \in 1 .. k, i - 1 \in S PROVE i \in S
    <3>1. i \in 0 .. k /\ i \in 1 .. Len(eWire) /\ o[i - 1] = eOut
      BY <2>2
    <3>2. "monitors" \notin DirtyAfter(t[i - 1], eWire[i])
      BY <1>3 DEF Marked
    <3>3. OutAfter(o[i - 1], eWire[i]) = o[i - 1]
      BY <3>2, UnmarkedUnchanged
    <3> QED
      BY <3>1, <3>3 DEF Leads
  <2> HIDE DEF S
  <2>3. k \in S
    BY <1>1, <2>1, <2>2, UpTo
  <2> QED
    BY <2>3 DEF S
<1> QED
  BY <1>2, <1>3

-----------------------------------------------------------------------------
\* The invariant.

Listed(w) ==
  IF cOpen[w] # 0 THEN [seen |-> "ready", title |-> cOpen[w]] ELSE [seen |-> "none", title |-> 0]

\* The end of the wire, and what the tables are there.
Reaches(wire, out, top, out1, top1) ==
  \E o, t : Leads(wire, out, top, o, t) /\ o[Len(wire)] = out1 /\ t[Len(wire)] = top1

\* At the end of the wire the tables are those of the desktop.
EndsRight(out, top) ==
  (\A w \in Windows : top[w] = Listed(w)) /\ (\A p \in cPlugged : out[p] = "ready")
WireEndsRight == \E out, top : Reaches(eWire, eOut, eTop, out, top) /\ EndsRight(out, top)

DesktopShape ==
  /\ cPlugged \subseteq Outputs /\ cOpen \in [Windows -> Nat]
  /\ ePc \in {"none", "dispatch", "store", "send", "dead"}
  /\ eWire \in Seq(Events) /\ eDirty \subseteq Change
  /\ sQueue \in Seq(Change) /\ kSignals \subseteq Change
  /\ sLagged \in BOOLEAN
  /\ DOMAIN eOut = Outputs /\ DOMAIN eTop = Windows
  /\ DOMAIN kList = Change

\* The snapshot is what the tables list, but for what the batch just read marked.
SnapshotRight ==
  LET fresh == Recompute(eOut, eTop)
  IN  /\ ePc \in {"dispatch", "send", "dead"} => eSnap = fresh
      /\ ePc \in {"none", "dispatch", "dead"} => eDirty = {}
      /\ ePc = "store" => \A change \in Change : eSnap[change] # fresh[change] => change \in eDirty
      /\ ePc = "none" => /\ eWire = <<>> /\ eSnap = Empty /\ kList = Empty
                             /\ sQueue = <<>> /\ ~sLagged /\ kSignals = {}

\* Where the client's list differs from the snapshot, word of it is on its way.
WordIsOut(change) ==
  \/ change \in kSignals
  \/ sLagged
  \/ \E i \in 1 .. Len(sQueue) : sQueue[i] = change
  \/ ePc = "send" /\ change \in eDirty
ClientIsTold == \A change \in Change : kList[change] # eSnap[change] => WordIsOut(change)

SourcesInv ==
  /\ DesktopShape /\ SnapshotRight /\ ClientIsTold
  /\ ePc # "none" => WireEndsRight

LEMMA SourcesInitially == SourcesInit => SourcesInv
<1> SUFFICES ASSUME SourcesInit PROVE SourcesInv
  OBVIOUS
<1>1. DesktopShape
  <2>1. cOpen \in [Windows -> Nat] /\ cPlugged \subseteq Outputs
    BY DEF SourcesInit
  <2>2. DOMAIN kList = Change
    BY DEF SourcesInit, Change, Empty
  <2>3. eWire \in Seq(Events) /\ sQueue \in Seq(Change)
    BY DEF SourcesInit
  <2> QED
    BY <2>1, <2>2, <2>3 DEF SourcesInit, DesktopShape
<1>2. SnapshotRight /\ ClientIsTold /\ ePc = "none"
  BY DEF SourcesInit, SnapshotRight, ClientIsTold
<1> QED
  BY <1>1, <1>2 DEF SourcesInv

\* A quiet client: nothing on the wire, so the tables are the desktop's; no word out, so the
\* client's list is theirs.
LEMMA QuietIsRight == SourcesInv => QuietClientSeesTheDesktop
<1> SUFFICES ASSUME SourcesInv, Quiet
             PROVE  /\ kList.windows = {<<w, cOpen[w]>> : w \in {v \in Windows : cOpen[v] # 0}}
                    /\ cPlugged \subseteq kList.monitors
  BY DEF QuietClientSeesTheDesktop
<1>1. /\ DesktopShape /\ eSnap = Recompute(eOut, eTop) /\ eWire = <<>>
      /\ \A change \in Change : kList[change] = eSnap[change]
  BY DEF SourcesInv, Quiet, SnapshotRight, ClientIsTold, WordIsOut
<1>2. PICK out, top : Reaches(eWire, eOut, eTop, out, top) /\ EndsRight(out, top)
  BY DEF SourcesInv, Quiet, WireEndsRight
<1>9. out = eOut /\ top = eTop
  BY <1>1, <1>2 DEF Reaches, Leads
<1>3. (\A w \in Windows : eTop[w] = Listed(w)) /\ (\A p \in cPlugged : eOut[p] = "ready")
  BY <1>2, <1>9 DEF EndsRight
<1>4. kList.monitors = eSnap.monitors /\ kList.windows = eSnap.windows
  BY <1>1 DEF Change
<1>5. /\ eSnap.monitors = {o_1 \in Outputs : eOut[o_1] = "ready"}
      /\ eSnap.windows = {<<w, eTop[w].title>> : w \in {v \in Windows : eTop[v].seen = "ready"}}
  BY <1>1 DEF Recompute
<1>6. cPlugged \subseteq eSnap.monitors
  BY <1>1, <1>3, <1>5 DEF DesktopShape
<1>7. ASSUME NEW w \in Windows
      PROVE  /\ (eTop[w].seen = "ready") <=> (cOpen[w] # 0)
             /\ cOpen[w] # 0 => eTop[w].title = cOpen[w]
  <2>1. eTop[w] = Listed(w)
    BY <1>3
  <2>2. CASE cOpen[w] = 0
    BY <2>1, <2>2 DEF Listed
  <2>3. CASE cOpen[w] # 0
    BY <2>1, <2>3 DEF Listed
  <2> QED
    BY <2>2, <2>3
<1>8. eSnap.windows = {<<w, cOpen[w]>> : w \in {v \in Windows : cOpen[v] # 0}}
  BY <1>5, <1>7
<1> QED
  BY <1>4, <1>6, <1>8

-----------------------------------------------------------------------------
\* The enumerator.
LEMMA NewRight ==
  ASSUME SourcesInv, TryNew
  PROVE  SourcesInv'
<1>1. DesktopShape /\ eWire = <<>> /\ eDirty = {}
  BY DEF SourcesInv, SnapshotRight, TryNew
<1>2. /\ UNCHANGED <<cPlugged, cOpen, eWire, eDirty, sQueue, sLagged, kSignals>>
      /\ eOut' = [o \in Outputs |-> IF o \in cPlugged THEN "ready" ELSE "none"]
      /\ eTop' = [w \in Windows |-> Listed(w)]
      /\ eSnap' = Recompute(eOut', eTop') /\ kList' = eSnap' /\ ePc' = "dispatch"
  BY DEF TryNew, desktop, changes, Listed
<1>3. DesktopShape'
  <2>1. DOMAIN eOut' = Outputs /\ DOMAIN eTop' = Windows /\ DOMAIN kList' = Change
    BY <1>2 DEF Recompute, Change
  <2> QED
    BY <1>1, <1>2, <2>1 DEF DesktopShape
<1>4. SnapshotRight' /\ ClientIsTold'
  <2>1. Recompute(eOut, eTop)' = Recompute(eOut', eTop')
    BY DEF Recompute
  <2> QED
    BY <1>1, <1>2, <2>1 DEF SnapshotRight, ClientIsTold
<1>5. WireEndsRight'
  <2>4. PICK out, top : out = eOut' /\ top = eTop'
    OBVIOUS
  <2> DEFINE o == [i \in {0} |-> out]
             t == [i \in {0} |-> top]
  <2>1. Len(eWire') = 0
    BY <1>1, <1>2
  <2>2. Leads(eWire', eOut', eTop', o, t)
    BY <1>2, <2>1, <2>4 DEF Leads
  <2>3. EndsRight(out, top)'
    BY <1>1, <1>2, <2>1, <2>4 DEF EndsRight, Listed, DesktopShape
  <2>5. Reaches(eWire', eOut', eTop', out, top)
    BY <2>1, <2>2 DEF Reaches
  <2> QED
    BY <2>3, <2>5 DEF WireEndsRight
<1> QED
  BY <1>3, <1>4, <1>5 DEF SourcesInv

\* A batch: the tables move along the wire, and the marks say which lists moved.
LEMMA DispatchRight ==
  ASSUME SourcesInv, NEW k \in Nat, Dispatched(k)
  PROVE  SourcesInv'
<1> DEFINE after == AfterBatch(SubSeq(eWire, 1, k))
<1>1. /\ DesktopShape /\ SnapshotRight /\ ClientIsTold /\ ePc = "dispatch" /\ k \in 1 .. Len(eWire)
      /\ eDirty = {} /\ eSnap = Recompute(eOut, eTop)
  BY DEF SourcesInv, SnapshotRight, Dispatched
<1>2. /\ eOut' = after.out /\ eTop' = after.top /\ eDirty' = after.dirty
      /\ ePc' = IF after.dirty = {} THEN "dispatch" ELSE "store"
      /\ eWire' = SubSeq(eWire, k + 1, Len(eWire))
      /\ UNCHANGED <<cPlugged, cOpen, eSnap, sQueue, sLagged, kSignals, kList>>
  BY DEF Dispatched, desktop, changes, client
<1> HIDE DEF after
<1>12. PICK out, top : Reaches(eWire, eOut, eTop, out, top) /\ EndsRight(out, top)
  BY <1>1 DEF SourcesInv, WireEndsRight
<1>3. PICK o, t : Leads(eWire, eOut, eTop, o, t) /\ o[Len(eWire)] = out /\ t[Len(eWire)] = top
  BY <1>12 DEF Reaches
<1>4. after = [out |-> o[k], top |-> t[k], dirty |-> Marked(t, k)]
  BY <1>1, <1>3, BatchTraced DEF after, DesktopShape
<1>5. eOut' = o[k] /\ eTop' = t[k] /\ eDirty' = Marked(t, k)
  BY <1>2, <1>4
<1>6. eDirty' \subseteq Change
  BY <1>1, <1>5 DEF Marked, DirtyAfter, Change
<1>7. /\ Len(eWire) \in Nat /\ k \in 0 .. Len(eWire) /\ eWire' \in Seq(Events) /\ Len(eWire') = Len(eWire) - k
      /\ \A i \in 1 .. Len(eWire') : eWire'[i] = eWire[k + i]
  BY <1>1, <1>2 DEF DesktopShape
<1>8. DesktopShape'
  <2>1. DOMAIN eOut' = Outputs /\ DOMAIN eTop' = Windows
    BY <1>3, <1>5, <1>7 DEF Leads
  <2> QED
    BY <1>1, <1>2, <1>6, <1>7, <2>1 DEF DesktopShape
<1>9. SnapshotRight'
  <2>1. /\ "windows" \notin eDirty' => eTop' = eTop
        /\ "monitors" \notin eDirty' => eOut' = eOut
    BY <1>1, <1>3, <1>5, UnmarkedBatch DEF DesktopShape
  <2>2. \A out_1, top_1 : /\ Recompute(out_1, eTop).windows = Recompute(eOut, eTop).windows
                         /\ Recompute(eOut, top_1).monitors = Recompute(eOut, eTop).monitors
    BY DEF Recompute
  <2>3. Recompute(eOut, eTop)' = Recompute(eOut', eTop')
    BY DEF Recompute
  <2>4. \A change \in Change : eSnap'[change] # Recompute(eOut', eTop')[change] => change \in eDirty'
    <3>1. ASSUME "windows" \notin eDirty' PROVE eSnap'["windows"] = Recompute(eOut', eTop')["windows"]
      <4>1. eSnap'.windows = Recompute(eOut, eTop).windows
        BY <1>1, <1>2
      <4>2. Recompute(eOut', eTop').windows = Recompute(eOut, eTop).windows
        BY <2>1, <2>2, <3>1
      <4> QED
        BY <4>1, <4>2
    <3>2. ASSUME "monitors" \notin eDirty' PROVE eSnap'["monitors"] = Recompute(eOut', eTop')["monitors"]
      <4>1. eSnap'.monitors = Recompute(eOut, eTop).monitors
        BY <1>1, <1>2
      <4>2. Recompute(eOut', eTop').monitors = Recompute(eOut, eTop).monitors
        BY <2>1, <2>2, <3>2
      <4> QED
        BY <4>1, <4>2
    <3> QED
      BY <3>1, <3>2 DEF Change
  <2>5. eDirty' = {} => eSnap' = Recompute(eOut', eTop')
    BY <1>1, <1>2, <2>1
  <2>6. (eDirty' = {} /\ ePc' = "dispatch") \/ ePc' = "store"
    BY <1>2
  <2> QED
    BY <2>3, <2>4, <2>5, <2>6 DEF SnapshotRight
<1>10. ClientIsTold'
  BY <1>1, <1>2 DEF ClientIsTold, WordIsOut
<1>11. WireEndsRight'
  <2> DEFINE o1 == [i \in 0 .. Len(eWire) - k |-> o[k + i]]
             t1 == [i \in 0 .. Len(eWire) - k |-> t[k + i]]
  <2>1. PICK n : n = Len(eWire) - k
    OBVIOUS
  <2>2. PICK o2, t2 : o2 = o1 /\ t2 = t1
    OBVIOUS
  <2>3. \A i \in 0 .. n : o2[i] = o[k + i] /\ t2[i] = t[k + i] /\ k + i \in 0 .. Len(eWire)
    BY <1>7, <2>1, <2>2
  <2>4. n \in Nat /\ k + 0 = k /\ k + n = Len(eWire) /\ Len(eWire') = n
    BY <1>7, <2>1
  <2>5. \A i \in 1 .. n : i - 1 \in 0 .. n /\ i \in 0 .. n /\ k + i \in 1 .. Len(eWire)
                        /\ k + (i - 1) = (k + i) - 1
    BY <1>7, <2>1
  <2> HIDE DEF o1, t1
  <2>6. Leads(eWire', eOut', eTop', o2, t2)
    <3>1. o2[0] = eOut' /\ t2[0] = eTop'
      BY <1>5, <2>3, <2>4
    <3>2. \A i \in 0 .. n : DOMAIN o2[i] = Outputs /\ DOMAIN t2[i] = Windows
      BY <1>3, <2>3 DEF Leads
    <3>3. ASSUME NEW i \in 1 .. n
          PROVE  o2[i] = OutAfter(o2[i - 1], eWire'[i]) /\ t2[i] = TopAfter(t2[i - 1], eWire'[i])
      <4>1. /\ o2[i] = o[k + i] /\ o2[i - 1] = o[(k + i) - 1]
            /\ t2[i] = t[k + i] /\ t2[i - 1] = t[(k + i) - 1]
        BY <2>3, <2>5
      <4>2. eWire'[i] = eWire[k + i] /\ k + i \in 1 .. Len(eWire)
        BY <1>7, <2>4, <2>5
      <4>3. o[k + i] = OutAfter(o[(k + i) - 1], eWire[k + i]) /\ t[k + i] = TopAfter(t[(k + i) - 1], eWire[k + i])
        BY <1>3, <4>2 DEF Leads
      <4> QED
        BY <4>1, <4>2, <4>3
    <3> QED
      BY <2>4, <3>1, <3>2, <3>3 DEF Leads, OutAfter, TopAfter
  <2>7. o2[n] = o[Len(eWire)] /\ t2[n] = t[Len(eWire)]
    BY <2>3, <2>4
  <2>8. EndsRight(out, top)'
    BY <1>2, <1>12 DEF EndsRight, Listed
  <2>9. Reaches(eWire', eOut', eTop', out, top)
    BY <1>3, <2>4, <2>6, <2>7 DEF Reaches
  <2> QED
    BY <2>8, <2>9 DEF WireEndsRight
<1> QED
  BY <1>8, <1>9, <1>10, <1>11 DEF SourcesInv

\* The wire and the tables as they were, and the desktop: the wire still ends right.
LEMMA WireStays ==
  ASSUME SourcesInv, UNCHANGED <<cPlugged, cOpen, eWire, eOut, eTop>>, ePc # "none"
  PROVE  WireEndsRight'
<1>1. PICK out, top : Reaches(eWire, eOut, eTop, out, top) /\ EndsRight(out, top)
  BY DEF SourcesInv, WireEndsRight
<1>2. Reaches(eWire', eOut', eTop', out, top) /\ EndsRight(out, top)'
  BY <1>1 DEF EndsRight, Listed
<1> QED
  BY <1>2 DEF WireEndsRight

LEMMA StoreRight ==
  ASSUME SourcesInv, StoreSnapshot
  PROVE  SourcesInv'
<1>1. DesktopShape /\ SnapshotRight /\ ClientIsTold /\ ePc = "store" /\ WireEndsRight'
  BY WireStays DEF SourcesInv, StoreSnapshot, desktop, tables
<1>2. /\ eSnap' = Recompute(eOut, eTop) /\ ePc' = "send"
      /\ UNCHANGED <<cPlugged, cOpen, eWire, eOut, eTop, eDirty, sQueue, sLagged, kSignals, kList>>
  BY DEF StoreSnapshot, desktop, tables, changes, client
<1>3. DesktopShape'
  BY <1>1, <1>2 DEF DesktopShape
<1>4. SnapshotRight'
  <2>1. Recompute(eOut, eTop)' = Recompute(eOut, eTop)
    BY <1>2 DEF Recompute
  <2> QED
    BY <1>2, <2>1 DEF SnapshotRight
<1>5. \A change \in Change : eSnap[change] # eSnap'[change] => change \in eDirty
  BY <1>1, <1>2 DEF SnapshotRight
<1>6. ASSUME NEW change \in Change, kList'[change] # eSnap'[change] PROVE WordIsOut(change)'
  <2>1. CASE change \in eDirty
    BY <1>2, <2>1 DEF WordIsOut
  <2>2. CASE change \notin eDirty
    <3>1. WordIsOut(change)
      BY <1>1, <1>2, <1>5, <1>6, <2>2 DEF ClientIsTold
    <3> QED
      BY <1>1, <1>2, <3>1 DEF WordIsOut
  <2> QED
    BY <2>1, <2>2
<1> QED
  BY <1>1, <1>3, <1>4, <1>6 DEF SourcesInv, ClientIsTold

LEMMA BroadcastRight ==
  ASSUME SourcesInv, Broadcast
  PROVE  SourcesInv'
<1>1. DesktopShape /\ SnapshotRight /\ ClientIsTold /\ ePc = "send" /\ WireEndsRight'
  BY WireStays DEF SourcesInv, Broadcast, desktop
<1>2. /\ eDirty' = {} /\ ePc' = "dispatch"
      /\ UNCHANGED <<cPlugged, cOpen, eWire, eOut, eTop, eSnap, kSignals, kList>>
  BY DEF Broadcast, desktop, client
<1>3. Cardinality(eDirty) \in Nat
  <2>1. IsFiniteSet(Change)
    <3>1. IsFiniteSet({}) /\ Change = ({} \union {"monitors"}) \union {"windows"}
      BY FS_EmptySet DEF Change
    <3>2. IsFiniteSet({} \union {"monitors"})
      BY <3>1, FS_AddElement
    <3> QED
      BY <3>1, <3>2, FS_AddElement
  <2> QED
    BY <1>1, <2>1, FS_Subset, FS_CardinalityType DEF DesktopShape
<1>4. PICK order \in [1 .. Cardinality(eDirty) -> eDirty] :
        /\ {order[i] : i \in DOMAIN order} = eDirty
        /\ LET all == sQueue \o order
               lost == IF Len(all) > ChangeCap THEN Len(all) - ChangeCap ELSE 0
           IN  /\ sQueue' = SubSeq(all, lost + 1, Len(all))
               /\ sLagged' = (sLagged \/ lost > 0)
  BY DEF Broadcast
<1> DEFINE all == sQueue \o order
           lost == IF Len(all) > ChangeCap THEN Len(all) - ChangeCap ELSE 0
<1>5. order \in Seq(Change) /\ Len(order) = Cardinality(eDirty) /\ DOMAIN order = 1 .. Len(order)
  <2>1. PICK n \in Nat : n = Cardinality(eDirty)
    BY <1>3
  <2>2. order \in [1 .. n -> Change]
    BY <1>1, <2>1 DEF DesktopShape
  <2> QED
    BY <2>1, <2>2
<1>6. all \in Seq(Change) /\ Len(all) = Len(sQueue) + Len(order) /\ Len(sQueue) \in Nat /\ Len(order) \in Nat
      /\ (\A i \in 1 .. Len(sQueue) : all[i] = sQueue[i])
      /\ (\A i \in 1 .. Len(order) : all[Len(sQueue) + i] = order[i])
  <2>1. sQueue \in Seq(Change)
    BY <1>1 DEF DesktopShape
  <2> QED
    BY <1>5, <2>1
<1>7. sQueue' = SubSeq(all, lost + 1, Len(all)) /\ sLagged' = (sLagged \/ lost > 0)
  BY <1>4
<1> HIDE DEF all
<1>8. lost \in Nat /\ lost <= Len(all)
  BY <1>6, SourcesAssumption
<1> HIDE DEF lost
<1>9. sQueue' \in Seq(Change)
  BY <1>6, <1>7, <1>8
<1>10. sLagged' \in BOOLEAN /\ (sLagged => sLagged') /\ (lost > 0 => sLagged')
  BY <1>7
<1>11. lost = 0 => sQueue' = all
  BY <1>6, <1>7
<1>12. DesktopShape'
  BY <1>1, <1>2, <1>9, <1>10 DEF DesktopShape
<1>13. SnapshotRight'
  <2>1. Recompute(eOut, eTop)' = Recompute(eOut, eTop)
    BY <1>2 DEF Recompute
  <2> QED
    BY <1>1, <1>2, <2>1 DEF SnapshotRight
<1>14. ASSUME NEW change \in Change, kList'[change] # eSnap'[change] PROVE WordIsOut(change)'
  <2>1. WordIsOut(change)
    BY <1>1, <1>2, <1>14 DEF ClientIsTold
  <2>2. CASE change \in kSignals \/ sLagged \/ lost > 0
    BY <1>2, <1>10, <2>2 DEF WordIsOut
  <2>3. CASE lost = 0 /\ \E i \in 1 .. Len(sQueue) : sQueue[i] = change
    <3>1. PICK i \in 1 .. Len(sQueue) : sQueue[i] = change
      BY <2>3
    <3>2. i \in 1 .. Len(sQueue') /\ sQueue'[i] = change
      BY <1>6, <1>11, <2>3, <3>1
    <3> QED
      BY <3>2 DEF WordIsOut
  <2>4. CASE lost = 0 /\ change \in eDirty
    <3>1. PICK i \in 1 .. Len(order) : order[i] = change
      BY <1>4, <1>5, <2>4
    <3>2. Len(sQueue) + i \in 1 .. Len(sQueue') /\ sQueue'[Len(sQueue) + i] = change
      BY <1>6, <1>11, <2>4, <3>1
    <3> QED
      BY <3>2 DEF WordIsOut
  <2> QED
    BY <1>8, <2>1, <2>2, <2>3, <2>4 DEF WordIsOut
<1> QED
  BY <1>1, <1>12, <1>13, <1>14 DEF SourcesInv, ClientIsTold

LEMMA DiesRight ==
  ASSUME SourcesInv, EnumeratorDies
  PROVE  SourcesInv'
<1>1. DesktopShape /\ SnapshotRight /\ ClientIsTold /\ ePc = "dispatch" /\ WireEndsRight'
  BY WireStays DEF SourcesInv, EnumeratorDies, desktop, tables
<1>2. /\ ePc' = "dead"
      /\ UNCHANGED <<cPlugged, cOpen, eWire, eOut, eTop, eDirty, eSnap, sQueue, sLagged, kSignals, kList>>
  BY DEF EnumeratorDies, desktop, tables, changes, client
<1>3. Recompute(eOut, eTop)' = Recompute(eOut, eTop)
  BY <1>2 DEF Recompute
<1>4. DesktopShape' /\ SnapshotRight' /\ ClientIsTold'
  BY <1>1, <1>2, <1>3 DEF DesktopShape, SnapshotRight, ClientIsTold, WordIsOut
<1> QED
  BY <1>1, <1>4 DEF SourcesInv

-----------------------------------------------------------------------------
\* The daemon and the client.

LEMMA EmitRight ==
  ASSUME SourcesInv, EmitSignal
  PROVE  SourcesInv'
<1>1. DesktopShape /\ SnapshotRight /\ ClientIsTold
      /\ UNCHANGED <<cPlugged, cOpen, ePc, eWire, eOut, eTop, eDirty, eSnap, kList>>
  BY DEF SourcesInv, EmitSignal, desktop, tables
<1>4. ePc # "none"
  BY DEF SourcesInv, SnapshotRight, EmitSignal
<1>2. CASE sLagged /\ kSignals' = Change /\ sLagged' = FALSE /\ sQueue' = sQueue
  BY <1>1, <1>2, <1>4, WireStays DEF SourcesInv, DesktopShape, SnapshotRight, Recompute, ClientIsTold,
     WordIsOut
<1>3. CASE ~sLagged /\ sQueue # <<>> /\ kSignals' = kSignals \union {sQueue[1]} /\ sQueue' = Tail(sQueue)
           /\ sLagged' = sLagged
  <2>1. /\ sQueue' \in Seq(Change) /\ Len(sQueue') = Len(sQueue) - 1 /\ sQueue[1] \in Change
        /\ Len(sQueue) \in Nat /\ \A i \in 1 .. Len(sQueue') : sQueue'[i] = sQueue[i + 1]
    BY <1>1, <1>3 DEF DesktopShape
  <2>2. DesktopShape'
    BY <1>1, <1>3, <2>1 DEF DesktopShape
  <2>3. SnapshotRight'
    <3>1. Recompute(eOut, eTop)' = Recompute(eOut, eTop)
      BY <1>1 DEF Recompute
    <3> QED
      BY <1>1, <1>4, <3>1 DEF SnapshotRight
  <2>4. ASSUME NEW change \in Change, kList'[change] # eSnap'[change] PROVE WordIsOut(change)'
    <3>1. WordIsOut(change)
      BY <1>1, <2>4 DEF ClientIsTold
    <3>2. ASSUME NEW i \in 1 .. Len(sQueue), sQueue[i] = change
          PROVE  change \in kSignals' \/ \E j \in 1 .. Len(sQueue') : sQueue'[j] = change
      <4>1. CASE i = 1
        BY <1>3, <3>2, <4>1
      <4>2. CASE i # 1
        <5>1. i - 1 \in 1 .. Len(sQueue') /\ (i - 1) + 1 = i
          BY <2>1, <4>2
        <5> QED
          BY <2>1, <3>2, <5>1
      <4> QED
        BY <4>1, <4>2
    <3> QED
      BY <1>1, <1>3, <3>1, <3>2 DEF WordIsOut
  <2> QED
    BY <1>1, <2>2, <2>3, <2>4, WireStays DEF SourcesInv, ClientIsTold
<1> QED
  <2>1. kSignals \union AfterLag = Change
    BY <1>1 DEF DesktopShape, AfterLag
  <2> QED
    BY <1>2, <1>3, <2>1 DEF EmitSignal

LEMMA ListRight ==
  ASSUME SourcesInv, NEW change \in Change, ListAgain(change)
  PROVE  SourcesInv'
<1>1. DesktopShape /\ SnapshotRight /\ ClientIsTold /\ change \in kSignals
      /\ UNCHANGED <<cPlugged, cOpen, ePc, eWire, eOut, eTop, eDirty, eSnap, sQueue, sLagged>>
      /\ kSignals' = kSignals \ {change} /\ kList' = [kList EXCEPT ![change] = eSnap[change]]
  BY DEF SourcesInv, ListAgain, desktop, tables, changes
<1>2. /\ kList'[change] = eSnap[change] /\ DOMAIN kList' = Change
      /\ \A other \in Change : other # change => kList'[other] = kList[other]
  BY <1>1 DEF DesktopShape
<1>3. DesktopShape'
  BY <1>1, <1>2 DEF DesktopShape
<1>4. SnapshotRight'
  <2>1. Recompute(eOut, eTop)' = Recompute(eOut, eTop)
    BY <1>1 DEF Recompute
  <2>2. ePc # "none"
    BY <1>1 DEF SourcesInv, SnapshotRight
  <2> QED
    BY <1>1, <2>1, <2>2 DEF SnapshotRight
<1>5. ClientIsTold'
  BY <1>1, <1>2 DEF ClientIsTold, WordIsOut
<1> QED
  BY <1>1, <1>3, <1>4, <1>5, WireStays DEF SourcesInv

\* A thumbnail looks and touches nothing; nor does a step of another.
LEMMA OthersRight ==
  ASSUME SourcesInv,
         UNCHANGED <<cPlugged, cOpen, ePc, eWire, eOut, eTop, eDirty, eSnap, sQueue, sLagged, kSignals, kList>>
  PROVE  SourcesInv'
<1>1. Recompute(eOut, eTop)' = Recompute(eOut, eTop)
  BY DEF Recompute
<1>2. DesktopShape' /\ SnapshotRight' /\ ClientIsTold'
  BY <1>1 DEF SourcesInv, DesktopShape, SnapshotRight, ClientIsTold, WordIsOut
<1> QED
  BY <1>2, WireStays DEF SourcesInv

-----------------------------------------------------------------------------
\* The desktop.

\* What each event makes of a table.
LEMMA TableDomains ==
  ASSUME NEW o, NEW t, NEW event, DOMAIN o = Outputs, DOMAIN t = Windows
  PROVE  DOMAIN OutAfter(o, event) = Outputs /\ DOMAIN TopAfter(t, event) = Windows
<1>1. DOMAIN OutAfter(o, event) = Outputs
  BY DEF OutAfter
<1>2. DOMAIN TopAfter(t, event) = Windows
  BY DEF TopAfter
<1> QED
  BY <1>1, <1>2

LEMMA AfterToplevel ==
  ASSUME NEW t, DOMAIN t = Windows, NEW w \in Windows, NEW v \in Windows
  PROVE  TopAfter(t, <<"toplevel", w>>)[v] = IF v = w THEN [seen |-> "known", title |-> 0] ELSE t[v]
  BY DEF TopAfter

LEMMA AfterTitle ==
  ASSUME NEW t, DOMAIN t = Windows, NEW w \in Windows, NEW v \in Windows, NEW x, t[w].seen # "none"
  PROVE  TopAfter(t, <<"title", w, x>>)[v] =
           IF v = w THEN [seen |-> IF Wlr THEN "ready" ELSE t[w].seen, title |-> x] ELSE t[v]
  BY DEF TopAfter

LEMMA AfterDone ==
  ASSUME NEW t, DOMAIN t = Windows, NEW w \in Windows, NEW v \in Windows, NEW x, NEW seen, seen # "none",
         t[w] = [seen |-> seen, title |-> x]
  PROVE  TopAfter(t, <<"done", w>>)[v] = IF v = w THEN [seen |-> "ready", title |-> x] ELSE t[v]
  BY DEF TopAfter

LEMMA AfterClosed ==
  ASSUME NEW t, DOMAIN t = Windows, NEW w \in Windows, NEW v \in Windows, t[w].seen # "none"
  PROVE  TopAfter(t, <<"closed", w>>)[v] = IF v = w THEN [seen |-> "none", title |-> 0] ELSE t[v]
  BY DEF TopAfter

LEMMA OutputEvents ==
  ASSUME NEW o, NEW p \in Outputs, NEW q \in Outputs, DOMAIN o = Outputs
  PROVE  /\ OutAfter(o, <<"output_done", p>>)[q] = IF q = p THEN "ready" ELSE o[q]
         /\ OutAfter(o, <<"global", p>>)[q] = IF q = p THEN "bound" ELSE o[q]
  BY DEF OutAfter

LEMMA OutputEventsLeaveWindows ==
  ASSUME NEW t, NEW p
  PROVE  TopAfter(t, <<"global", p>>) = t /\ TopAfter(t, <<"output_done", p>>) = t
  BY DEF TopAfter

\* One event more on the wire.
LEMMA OneFurther ==
  ASSUME NEW wire \in Seq(Events), NEW out, NEW top, NEW out1, NEW top1, NEW event \in Events,
         Reaches(wire, out, top, out1, top1)
  PROVE  /\ Append(wire, event) \in Seq(Events)
         /\ Reaches(Append(wire, event), out, top, OutAfter(out1, event), TopAfter(top1, event))
<1>1. PICK o, t : Leads(wire, out, top, o, t) /\ o[Len(wire)] = out1 /\ t[Len(wire)] = top1
  BY DEF Reaches
<1>2. PICK n \in Nat : n = Len(wire)
  OBVIOUS
<1>3. PICK longer : longer = Append(wire, event)
  OBVIOUS
<1>4. /\ longer \in Seq(Events) /\ Len(longer) = n + 1 /\ longer[n + 1] = event
      /\ \A i \in 1 .. n : longer[i] = wire[i]
  BY <1>2, <1>3
<1>5. PICK out2, top2 : out2 = OutAfter(out1, event) /\ top2 = TopAfter(top1, event)
  OBVIOUS
<1> DEFINE o3 == [i \in 0 .. n + 1 |-> IF i = n + 1 THEN out2 ELSE o[i]]
           t3 == [i \in 0 .. n + 1 |-> IF i = n + 1 THEN top2 ELSE t[i]]
<1>6. /\ o3[n + 1] = out2 /\ t3[n + 1] = top2
      /\ \A i \in 0 .. n : o3[i] = o[i] /\ t3[i] = t[i]
  BY <1>2
<1> HIDE DEF o3, t3
<1>7. \A i \in 0 .. n + 1 : i = n + 1 \/ i \in 0 .. n
  BY <1>2
<1>8. \A i \in 1 .. n + 1 : (i = n + 1 /\ i - 1 = n /\ n \in 0 .. n)
                            \/ (i \in 1 .. n /\ i \in 0 .. n /\ i - 1 \in 0 .. n)
  BY <1>2
<1>9. DOMAIN out1 = Outputs /\ DOMAIN top1 = Windows /\ 0 \in 0 .. n /\ n \in 0 .. n
  BY <1>1, <1>2 DEF Leads
<1>10. DOMAIN out2 = Outputs /\ DOMAIN top2 = Windows
  BY <1>5, <1>9, TableDomains
<1>11. \A i \in 0 .. n + 1 : DOMAIN o3[i] = Outputs /\ DOMAIN t3[i] = Windows
  BY <1>1, <1>2, <1>6, <1>7, <1>10 DEF Leads
<1>12. ASSUME NEW i \in 1 .. n + 1
       PROVE  o3[i] = OutAfter(o3[i - 1], longer[i]) /\ t3[i] = TopAfter(t3[i - 1], longer[i])
  <2>1. CASE i = n + 1 /\ i - 1 = n
    BY <1>1, <1>2, <1>4, <1>5, <1>6, <1>9, <2>1
  <2>2. CASE i \in 1 .. n /\ i \in 0 .. n /\ i - 1 \in 0 .. n
    <3>1. o[i] = OutAfter(o[i - 1], wire[i]) /\ t[i] = TopAfter(t[i - 1], wire[i])
      BY <1>1, <1>2, <2>2 DEF Leads
    <3>2. o3[i] = o[i] /\ o3[i - 1] = o[i - 1] /\ t3[i] = t[i] /\ t3[i - 1] = t[i - 1] /\ longer[i] = wire[i]
      BY <1>4, <1>6, <2>2
    <3> QED
      BY <3>1, <3>2
  <2> QED
    BY <1>8, <2>1, <2>2
<1>13. o3[0] = out /\ t3[0] = top
  BY <1>1, <1>6, <1>9 DEF Leads
<1>14. Leads(longer, out, top, o3, t3)
  BY <1>4, <1>11, <1>12, <1>13 DEF Leads
<1>15. Reaches(longer, out, top, out2, top2)
  BY <1>4, <1>6, <1>14 DEF Reaches
<1> QED
  BY <1>3, <1>4, <1>5, <1>15

LEMMA ReachedDomains ==
  ASSUME NEW wire \in Seq(Events), NEW out, NEW top, NEW out1, NEW top1, Reaches(wire, out, top, out1, top1)
  PROVE  DOMAIN out1 = Outputs /\ DOMAIN top1 = Windows
<1>1. PICK o, t : Leads(wire, out, top, o, t) /\ o[Len(wire)] = out1 /\ t[Len(wire)] = top1
  BY DEF Reaches
<1>2. Len(wire) \in 0 .. Len(wire)
  OBVIOUS
<1> QED
  BY <1>1, <1>2 DEF Leads

LEMMA OneByOne ==
  ASSUME NEW wire \in Seq(Events), NEW a
  PROVE  wire \o <<a>> = Append(wire, a)
  OBVIOUS

LEMMA TwoByTwo ==
  ASSUME NEW wire \in Seq(Events), NEW a, NEW b, NEW wire1, wire1 = Append(wire, a)
  PROVE  wire \o <<a, b>> = Append(wire1, b)
  OBVIOUS

LEMMA ThreeByThree ==
  ASSUME NEW wire \in Seq(Events), NEW a, NEW b, NEW c, NEW wire1, NEW wire2,
         wire1 = Append(wire, a), wire2 = Append(wire1, b)
  PROVE  wire \o <<a, b, c>> = Append(wire2, c)
  OBVIOUS

\* A turn of the desktop, once the wire is known to end right.
LEMMA TurnRight ==
  ASSUME SourcesInv, NEW events, Turn(events), eWire' \in Seq(Events), WireEndsRight',
         cPlugged' \subseteq Outputs, cOpen' \in [Windows -> Nat]
  PROVE  SourcesInv'
<1>1. /\ DesktopShape /\ SnapshotRight /\ ClientIsTold /\ ePc # "none"
      /\ UNCHANGED <<ePc, eOut, eTop, eDirty, eSnap, sQueue, sLagged, kSignals, kList>>
  BY DEF SourcesInv, Turn, tables, changes, client
<1>2. Recompute(eOut, eTop)' = Recompute(eOut, eTop)
  BY <1>1 DEF Recompute
<1>3. DesktopShape' /\ SnapshotRight' /\ ClientIsTold'
  BY <1>1, <1>2 DEF DesktopShape, SnapshotRight, ClientIsTold, WordIsOut
<1> QED
  BY <1>3 DEF SourcesInv

\* What every turn starts from.
LEMMA TurnBegins ==
  ASSUME SourcesInv, NEW events, Turn(events)
  PROVE  /\ DesktopShape /\ eWire' = eWire \o events /\ eOut' = eOut /\ eTop' = eTop
         /\ \E out, top : /\ Reaches(eWire, eOut, eTop, out, top) /\ EndsRight(out, top)
                         /\ DOMAIN out = Outputs /\ DOMAIN top = Windows
<1>1. DesktopShape /\ WireEndsRight /\ eWire' = eWire \o events /\ eOut' = eOut /\ eTop' = eTop
  BY DEF SourcesInv, Turn, tables
<1>2. PICK out, top : Reaches(eWire, eOut, eTop, out, top) /\ EndsRight(out, top)
  BY <1>1 DEF WireEndsRight
<1>3. DOMAIN out = Outputs /\ DOMAIN top = Windows
  BY <1>1, <1>2, ReachedDomains DEF DesktopShape
<1> QED
  BY <1>1, <1>2, <1>3

LEMMA PlugRight ==
  ASSUME SourcesInv, NEW p \in Outputs, PlugOutput(p)
  PROVE  SourcesInv'
<1>1. PICK a, b : a = <<"global", p>> /\ b = <<"output_done", p>>
  OBVIOUS
<1>2. Turn(<<a, b>>) /\ cPlugged' = cPlugged \union {p} /\ cOpen' = cOpen
  BY <1>1 DEF PlugOutput
<1>3. DesktopShape /\ eWire \in Seq(Events) /\ eWire' = eWire \o <<a, b>> /\ eOut' = eOut /\ eTop' = eTop
  BY <1>2, TurnBegins DEF DesktopShape
<1>4. PICK out, top : /\ Reaches(eWire, eOut, eTop, out, top) /\ EndsRight(out, top)
                      /\ DOMAIN out = Outputs /\ DOMAIN top = Windows
  BY <1>2, TurnBegins
<1>5. a \in Events /\ b \in Events
  BY <1>1 DEF Events
<1>6. PICK out1, out2 : out1 = OutAfter(out, a) /\ out2 = OutAfter(out1, b)
  OBVIOUS
<1>7. TopAfter(top, a) = top /\ TopAfter(top, b) = top
  BY <1>1, OutputEventsLeaveWindows
<1>8. \A q \in Outputs : out2[q] = IF q = p THEN "ready" ELSE out[q]
  <2>1. DOMAIN out1 = Outputs /\ \A q \in Outputs : out1[q] = IF q = p THEN "bound" ELSE out[q]
    BY <1>1, <1>4, <1>6, OutputEvents, TableDomains
  <2>2. \A q \in Outputs : out2[q] = IF q = p THEN "ready" ELSE out1[q]
    BY <1>1, <1>6, <2>1, OutputEvents
  <2> QED
    BY <2>1, <2>2
<1>9. eWire' \in Seq(Events) /\ Reaches(eWire', eOut', eTop', out2, top)
  <2>1. PICK wire1 : wire1 = Append(eWire, a)
    OBVIOUS
  <2>2. wire1 \in Seq(Events) /\ Reaches(wire1, eOut, eTop, out1, top)
    BY <1>3, <1>4, <1>5, <1>6, <1>7, <2>1, OneFurther
  <2>3. PICK wire2 : wire2 = Append(wire1, b)
    OBVIOUS
  <2>4. wire2 \in Seq(Events) /\ Reaches(wire2, eOut, eTop, out2, top)
    BY <1>5, <1>6, <1>7, <2>2, <2>3, OneFurther
  <2>5. eWire' = wire2
    BY <1>3, <2>1, <2>3, TwoByTwo
  <2> QED
    BY <1>3, <2>4, <2>5
<1>10. cPlugged' \subseteq Outputs /\ cOpen' \in [Windows -> Nat]
  BY <1>2, <1>3 DEF DesktopShape
<1>11. EndsRight(out2, top)'
  BY <1>2, <1>4, <1>8, <1>10 DEF EndsRight, Listed
<1>12. WireEndsRight'
  BY <1>9, <1>11 DEF WireEndsRight
<1> QED
  BY <1>2, <1>9, <1>10, <1>12, TurnRight

LEMMA UnplugRight ==
  ASSUME SourcesInv, NEW p \in Outputs, UnplugOutput(p)
  PROVE  SourcesInv'
<1>1. PICK a : a = <<"global_remove", p>>
  OBVIOUS
<1>2. Turn(<<a>>) /\ cPlugged' = cPlugged \ {p} /\ cOpen' = cOpen
  BY <1>1 DEF UnplugOutput
<1>3. DesktopShape /\ eWire \in Seq(Events) /\ eWire' = eWire \o <<a>> /\ eOut' = eOut /\ eTop' = eTop
  BY <1>2, TurnBegins DEF DesktopShape
<1>4. PICK out, top : Reaches(eWire, eOut, eTop, out, top) /\ EndsRight(out, top)
  BY <1>2, TurnBegins
<1>5. a \in Events /\ OutAfter(out, a) = out /\ TopAfter(top, a) = top
  BY <1>1 DEF Events, OutAfter, TopAfter
<1>6. eWire' \in Seq(Events) /\ Reaches(eWire', eOut', eTop', out, top)
  <2>1. Append(eWire, a) \in Seq(Events) /\ Reaches(Append(eWire, a), eOut, eTop, out, top)
    BY <1>3, <1>4, <1>5, OneFurther
  <2> QED
    BY <1>3, <2>1, OneByOne
<1>7. cPlugged' \subseteq Outputs /\ cOpen' \in [Windows -> Nat]
  BY <1>2, <1>3 DEF DesktopShape
<1>8. EndsRight(out, top)'
  BY <1>2, <1>4 DEF EndsRight, Listed
<1>9. WireEndsRight'
  BY <1>6, <1>8 DEF WireEndsRight
<1> QED
  BY <1>2, <1>6, <1>7, <1>9, TurnRight

LEMMA CloseRight ==
  ASSUME SourcesInv, NEW w \in Windows, CloseWindow(w)
  PROVE  SourcesInv'
<1>1. PICK a : a = <<"closed", w>>
  OBVIOUS
<1>2. /\ Turn(<<a>>) /\ cPlugged' = cPlugged
      /\ cOpen[w] # 0 /\ cOpen' = [cOpen EXCEPT ![w] = 0]
  BY <1>1 DEF CloseWindow
<1>3. DesktopShape /\ eWire \in Seq(Events) /\ eWire' = eWire \o <<a>> /\ eOut' = eOut /\ eTop' = eTop
  BY <1>2, TurnBegins DEF DesktopShape
<1>4. PICK out, top : /\ Reaches(eWire, eOut, eTop, out, top) /\ EndsRight(out, top)
                      /\ DOMAIN out = Outputs /\ DOMAIN top = Windows
  BY <1>2, TurnBegins
<1>5. a \in Events /\ OutAfter(out, a) = out
  BY <1>1 DEF Events, OutAfter
<1>6. PICK top1 : top1 = TopAfter(top, a)
  OBVIOUS
<1>7. \A v \in Windows : top1[v] = IF v = w THEN [seen |-> "none", title |-> 0] ELSE top[v]
  <2>1. top[w] = Listed(w)
    BY <1>4 DEF EndsRight
  <2>2. top[w].seen # "none"
    BY <1>2, <2>1 DEF Listed
  <2> QED
    BY <1>1, <1>4, <1>6, <2>2, AfterClosed
<1>8. eWire' \in Seq(Events) /\ Reaches(eWire', eOut', eTop', out, top1)
  <2>1. Append(eWire, a) \in Seq(Events) /\ Reaches(Append(eWire, a), eOut, eTop, out, top1)
    BY <1>3, <1>4, <1>5, <1>6, OneFurther
  <2> QED
    BY <1>3, <2>1, OneByOne
<1>9. cPlugged' \subseteq Outputs /\ cOpen' \in [Windows -> Nat] /\ cOpen'[w] = 0
      /\ \A v \in Windows : v # w => cOpen'[v] = cOpen[v]
  BY <1>2, <1>3 DEF DesktopShape
<1>10. EndsRight(out, top1)'
  BY <1>2, <1>4, <1>7, <1>9 DEF EndsRight, Listed
<1>11. WireEndsRight'
  BY <1>8, <1>10 DEF WireEndsRight
<1> QED
  BY <1>2, <1>8, <1>9, <1>11, TurnRight

LEMMA RetitleRight ==
  ASSUME SourcesInv, NEW w \in Windows, Retitle(w)
  PROVE  SourcesInv'
<1>1. PICK x, a, b : x = cOpen[w] + 1 /\ a = <<"title", w, x>> /\ b = <<"done", w>>
  OBVIOUS
<1>2. /\ Turn(<<a, b>>) /\ cPlugged' = cPlugged
      /\ cOpen[w] # 0 /\ cOpen' = [cOpen EXCEPT ![w] = x]
  BY <1>1 DEF Retitle
<1>3. DesktopShape /\ eWire \in Seq(Events) /\ eWire' = eWire \o <<a, b>> /\ eOut' = eOut /\ eTop' = eTop
  BY <1>2, TurnBegins DEF DesktopShape
<1>4. PICK out, top : /\ Reaches(eWire, eOut, eTop, out, top) /\ EndsRight(out, top)
                      /\ DOMAIN out = Outputs /\ DOMAIN top = Windows
  BY <1>2, TurnBegins
<1>5. x \in Nat /\ x # 0
  BY <1>1, <1>3 DEF DesktopShape
<1>6. a \in Events /\ b \in Events /\ OutAfter(out, a) = out /\ OutAfter(out, b) = out
  BY <1>1, <1>5 DEF Events, OutAfter
<1>7. PICK top1, top2 : top1 = TopAfter(top, a) /\ top2 = TopAfter(top1, b)
  OBVIOUS
<1>8. DOMAIN top1 = Windows /\ \A v \in Windows : top1[v] = IF v = w THEN [seen |-> "ready", title |-> x] ELSE top[v]
  <2>1. DOMAIN top1 = Windows
    BY <1>4, <1>7, TableDomains
  <2>2. top[w] = Listed(w)
    BY <1>4 DEF EndsRight
  <2>3. top[w].seen = "ready"
    BY <1>2, <2>2 DEF Listed
  <2>4. \A v \in Windows : top1[v] = IF v = w THEN [seen |-> IF Wlr THEN "ready" ELSE top[w].seen, title |-> x]
                                             ELSE top[v]
    BY <1>1, <1>4, <1>7, <2>3, AfterTitle
  <2> QED
    BY <2>1, <2>3, <2>4
<1>9. \A v \in Windows : top2[v] = IF v = w THEN [seen |-> "ready", title |-> x] ELSE top[v]
  <2>1. top1[w] = [seen |-> "ready", title |-> x]
    BY <1>8
  <2>2. \A v \in Windows : top2[v] = IF v = w THEN [seen |-> "ready", title |-> x] ELSE top1[v]
    BY <1>1, <1>7, <1>8, <2>1, AfterDone
  <2> QED
    BY <1>8, <2>2
<1>10. eWire' \in Seq(Events) /\ Reaches(eWire', eOut', eTop', out, top2)
  <2>1. PICK wire1 : wire1 = Append(eWire, a)
    OBVIOUS
  <2>2. wire1 \in Seq(Events) /\ Reaches(wire1, eOut, eTop, out, top1)
    BY <1>3, <1>4, <1>6, <1>7, <2>1, OneFurther
  <2>3. PICK wire2 : wire2 = Append(wire1, b)
    OBVIOUS
  <2>4. wire2 \in Seq(Events) /\ Reaches(wire2, eOut, eTop, out, top2)
    BY <1>6, <1>7, <2>2, <2>3, OneFurther
  <2>5. eWire' = wire2
    BY <1>3, <2>1, <2>3, TwoByTwo
  <2> QED
    BY <1>3, <2>4, <2>5
<1>11. cPlugged' \subseteq Outputs /\ cOpen' \in [Windows -> Nat] /\ cOpen'[w] = x
       /\ \A v \in Windows : v # w => cOpen'[v] = cOpen[v]
  BY <1>2, <1>3, <1>5 DEF DesktopShape
<1>12. EndsRight(out, top2)'
  BY <1>2, <1>4, <1>5, <1>9, <1>11 DEF EndsRight, Listed
<1>13. WireEndsRight'
  BY <1>10, <1>12 DEF WireEndsRight
<1> QED
  BY <1>2, <1>10, <1>11, <1>13, TurnRight

LEMMA OpenRight ==
  ASSUME SourcesInv, NEW w \in Windows, OpenWindow(w)
  PROVE  SourcesInv'
<1>1. PICK a, b, c : a = <<"toplevel", w>> /\ b = <<"title", w, 1>> /\ c = <<"done", w>>
  OBVIOUS
<1>2. Turn(<<a, b, c>>) /\ cPlugged' = cPlugged /\ cOpen' = [cOpen EXCEPT ![w] = 1]
  BY <1>1 DEF OpenWindow, Announce
<1>3. DesktopShape /\ eWire \in Seq(Events) /\ eWire' = eWire \o <<a, b, c>> /\ eOut' = eOut /\ eTop' = eTop
  BY <1>2, TurnBegins DEF DesktopShape
<1>4. PICK out, top : /\ Reaches(eWire, eOut, eTop, out, top) /\ EndsRight(out, top)
                      /\ DOMAIN out = Outputs /\ DOMAIN top = Windows
  BY <1>2, TurnBegins
<1>5. /\ a \in Events /\ b \in Events /\ c \in Events
      /\ OutAfter(out, a) = out /\ OutAfter(out, b) = out /\ OutAfter(out, c) = out
  BY <1>1 DEF Events, OutAfter
<1>6. PICK top1, top2, top3 : top1 = TopAfter(top, a) /\ top2 = TopAfter(top1, b) /\ top3 = TopAfter(top2, c)
  OBVIOUS
<1>7. PICK seen : seen = IF Wlr THEN "ready" ELSE "known"
  OBVIOUS
<1>8. DOMAIN top1 = Windows /\ \A v \in Windows : top1[v] = IF v = w THEN [seen |-> "known", title |-> 0] ELSE top[v]
  BY <1>1, <1>4, <1>6, AfterToplevel, TableDomains
<1>9. DOMAIN top2 = Windows /\ \A v \in Windows : top2[v] = IF v = w THEN [seen |-> seen, title |-> 1] ELSE top[v]
  <2>1. DOMAIN top2 = Windows
    BY <1>4, <1>6, <1>8, TableDomains
  <2>2. top1[w].seen = "known"
    BY <1>8
  <2>3. \A v \in Windows : top2[v] = IF v = w THEN [seen |-> IF Wlr THEN "ready" ELSE top1[w].seen, title |-> 1]
                                             ELSE top1[v]
    BY <1>1, <1>6, <1>8, <2>2, AfterTitle
  <2> QED
    BY <1>7, <1>8, <2>1, <2>2, <2>3
<1>10. \A v \in Windows : top3[v] = IF v = w THEN [seen |-> "ready", title |-> 1] ELSE top[v]
  <2>1. top2[w] = [seen |-> seen, title |-> 1] /\ seen # "none"
    BY <1>7, <1>9
  <2>2. \A v \in Windows : top3[v] = IF v = w THEN [seen |-> "ready", title |-> 1] ELSE top2[v]
    BY <1>1, <1>6, <1>9, <2>1, AfterDone
  <2> QED
    BY <1>9, <2>2
<1>11. eWire' \in Seq(Events) /\ Reaches(eWire', eOut', eTop', out, top3)
  <2>1. PICK wire1 : wire1 = Append(eWire, a)
    OBVIOUS
  <2>2. wire1 \in Seq(Events) /\ Reaches(wire1, eOut, eTop, out, top1)
    BY <1>3, <1>4, <1>5, <1>6, <2>1, OneFurther
  <2>3. PICK wire2 : wire2 = Append(wire1, b)
    OBVIOUS
  <2>4. wire2 \in Seq(Events) /\ Reaches(wire2, eOut, eTop, out, top2)
    BY <1>5, <1>6, <2>2, <2>3, OneFurther
  <2>5. PICK wire3 : wire3 = Append(wire2, c)
    OBVIOUS
  <2>6. wire3 \in Seq(Events) /\ Reaches(wire3, eOut, eTop, out, top3)
    BY <1>5, <1>6, <2>4, <2>5, OneFurther
  <2>7. eWire' = wire3
    BY <1>3, <2>1, <2>3, <2>5, ThreeByThree
  <2> QED
    BY <1>3, <2>6, <2>7
<1>12. cPlugged' \subseteq Outputs /\ cOpen' \in [Windows -> Nat] /\ cOpen'[w] = 1
       /\ \A v \in Windows : v # w => cOpen'[v] = cOpen[v]
  BY <1>2, <1>3 DEF DesktopShape
<1>13. EndsRight(out, top3)'
  BY <1>2, <1>4, <1>10, <1>12 DEF EndsRight, Listed
<1>14. WireEndsRight'
  BY <1>11, <1>13 DEF WireEndsRight
<1> QED
  BY <1>2, <1>11, <1>12, <1>14, TurnRight

-----------------------------------------------------------------------------
LEMMA SourcesStep == SourcesInv /\ [SourcesNext]_sourceVars => SourcesInv'
<1> SUFFICES ASSUME SourcesInv, [SourcesNext]_sourceVars PROVE SourcesInv'
  OBVIOUS
<1>1. CASE AskThumbnail \/ ThumbFound \/ ThumbCopies \/ ThumbDone \/ ThumbHears \/ UNCHANGED sourceVars
  <2>1. UNCHANGED <<cPlugged, cOpen, ePc, eWire, eOut, eTop, eDirty, eSnap, sQueue, sLagged, kSignals, kList>>
    BY <1>1 DEF AskThumbnail, ThumbFound, ThumbCopies, ThumbDone, ThumbHears, sourceVars, desktop, tables,
       changes, client
  <2> QED
    BY <2>1, OthersRight
<1>2. CASE \E k \in 1 .. 3 * MaxTurns : Dispatched(k)
  BY <1>2, DispatchRight, SourcesAssumption
<1> QED
  BY <1>1, <1>2, NewRight, StoreRight, BroadcastRight, DiesRight, EmitRight, ListRight, PlugRight, UnplugRight,
     OpenRight, RetitleRight, CloseRight DEF SourcesNext

\* For every set of outputs and windows, every number of turns of the desktop, size of the channel
\* of changes and grouping of events into dispatches, with either protocol for windows: a client
\* that has listed the sources, has had every signal and finds nothing under way sees the desktop
\* as it is. A lag of the broadcast channel makes up for the changes it swallows.
THEOREM QuietClient == SourcesSpec => []QuietClientSeesTheDesktop
<1>1. SourcesInv => QuietClientSeesTheDesktop
  BY QuietIsRight
<1> QED
  BY <1>1, SourcesInitially, SourcesStep, PTL DEF SourcesSpec

-----------------------------------------------------------------------------
\* The shape of the list and its bounds.

\* The tables within their bounds: a title is one the compositor gave.
Titles == 0 .. MaxTurns + 1
Entries == [seen : {"none", "known", "ready"}, title : Titles]
TablesTyped(out, top) == out \in [Outputs -> {"none", "bound", "ready"}] /\ top \in [Windows -> Entries]
Fitting == {event \in Events : event[1] = "title" => event[3] \in 1 .. MaxTurns + 1}

\* A window is named as soon as it is announced, and counts as ready by its name.
Titled(wire, i, w) == i \in 1 .. Len(wire) /\ wire[i][1] = "title" /\ wire[i][2] = w
Announced(wire) ==
  \A i \in 1 .. Len(wire) : wire[i] \in Fitting /\ (wire[i][1] = "toplevel" => Titled(wire, i + 1, wire[i][2]))
TitlesAt(wire, k, top) ==
  \A w \in Windows : top[w].seen # "none" /\ top[w].title = 0 => top[w].seen = "known" /\ Titled(wire, k + 1, w)

CompositorTypes ==
  /\ cPlugged \subseteq Outputs /\ cTurns \in 0 .. MaxTurns
  /\ cOpen \in [Windows -> Nat] /\ \A w \in Windows : cOpen[w] <= cTurns + 1
ListTypes == eSnap \in Listing /\ kList \in Listing
QueueTypes == sQueue \in Seq(Change) /\ Len(sQueue) <= ChangeCap
ThumbTypes ==
  /\ tPc \in {"idle", "offer", "copy", "search", "session", "frame", "answered"}
  /\ tHeard \subseteq {"offer", "found", "formats", "ready", "failed", "event"}
  /\ tAnswer \in {"none", "png", "error", "not_found"}
SourcesTyped ==
  /\ CompositorTypes /\ TablesTyped(eOut, eTop) /\ ListTypes /\ QueueTypes /\ ThumbTypes
  /\ Announced(eWire) /\ TitlesAt(eWire, 0, eTop)

LEMMA SourcesTypedInitially == SourcesInit => SourcesTyped
<1> SUFFICES ASSUME SourcesInit PROVE SourcesTyped
  OBVIOUS
<1>1. MaxTurns \in Nat /\ ChangeCap \in Nat /\ 0 \in Titles /\ 0 \in 0 .. MaxTurns
  BY SourcesAssumption DEF Titles
<1>2. CompositorTypes
  <2>1. cOpen \in [Windows -> Nat] /\ \A w \in Windows : cOpen[w] <= 1
    BY DEF SourcesInit
  <2> QED
    BY <1>1, <2>1 DEF SourcesInit, CompositorTypes
<1>3. TablesTyped(eOut, eTop)
  BY <1>1 DEF SourcesInit, TablesTyped, Entries
<1>4. ListTypes
  BY DEF SourcesInit, ListTypes, Listing, Empty
<1>5. QueueTypes /\ ThumbTypes
  BY <1>1 DEF SourcesInit, QueueTypes, ThumbTypes
<1>6. Announced(eWire) /\ TitlesAt(eWire, 0, eTop)
  <2>1. Len(eWire) = 0 /\ \A w \in Windows : eTop[w].seen = "none"
    BY DEF SourcesInit
  <2> QED
    BY <2>1 DEF Announced, TitlesAt
<1> QED
  BY <1>2, <1>3, <1>4, <1>5, <1>6 DEF SourcesTyped

\* An event leaves the tables within their bounds.
LEMMA EventKeepsTypes ==
  ASSUME NEW o, NEW t, NEW event \in Fitting, TablesTyped(o, t)
  PROVE  TablesTyped(OutAfter(o, event), TopAfter(t, event))
<1>1. o \in [Outputs -> {"none", "bound", "ready"}] /\ t \in [Windows -> Entries]
  BY DEF TablesTyped
<1>2. OutAfter(o, event) \in [Outputs -> {"none", "bound", "ready"}]
  BY <1>1 DEF OutAfter
<1>3. 0 \in Titles
  BY SourcesAssumption DEF Titles
<1>4. TopAfter(t, event) \in [Windows -> Entries]
  <2>1. CASE event[1] = "toplevel"
    BY <1>1, <1>3, <2>1 DEF TopAfter, Entries
  <2>2. CASE event[1] \notin {"toplevel", "title", "done", "closed"} \/ t[event[2]].seen = "none"
    BY <1>1, <1>3, <2>1, <2>2 DEF TopAfter
  <2>3. CASE event[1] \in {"title", "done", "closed"} /\ t[event[2]].seen # "none"
    <3>1. event[2] \in Windows
      BY <2>3 DEF Fitting, Events
    <3>2. t[event[2]] \in Entries
      BY <1>1, <3>1
    <3>3. t[event[2]].seen \in {"none", "known", "ready"} /\ t[event[2]].title \in Titles
      BY <3>2 DEF Entries
    <3>4. CASE event[1] = "title"
      <4>1. event[3] \in Titles
        BY <3>4, SourcesAssumption DEF Fitting, Titles
      <4>2. TopAfter(t, event) =
              [t EXCEPT ![event[2]] = [seen |-> IF Wlr THEN "ready" ELSE t[event[2]].seen, title |-> event[3]]]
        BY <2>3, <3>4 DEF TopAfter
      <4> QED
        BY <1>1, <3>1, <3>3, <4>1, <4>2 DEF Entries
    <3>5. CASE event[1] = "done"
      <4>1. TopAfter(t, event) = [t EXCEPT ![event[2]] = [t[event[2]] EXCEPT !.seen = "ready"]]
        BY <2>3, <3>5 DEF TopAfter
      <4>2. [t[event[2]] EXCEPT !.seen = "ready"] \in Entries
        BY <3>2 DEF Entries
      <4> QED
        BY <1>1, <3>1, <4>1, <4>2
    <3>6. CASE event[1] = "closed"
      <4>1. TopAfter(t, event) = [t EXCEPT ![event[2]] = [seen |-> "none", title |-> 0]]
        BY <2>3, <3>6 DEF TopAfter
      <4> QED
        BY <1>1, <1>3, <3>1, <4>1 DEF Entries
    <3> QED
      BY <2>3, <3>4, <3>5, <3>6
  <2> QED
    BY <2>1, <2>2, <2>3
<1> QED
  BY <1>2, <1>4 DEF TablesTyped

\* ... and every window announced but not yet named before its name.
LEMMA EventKeepsTitles ==
  ASSUME NEW wire \in Seq(Events), Announced(wire), NEW k \in 1 .. Len(wire),
         NEW o, NEW t, TablesTyped(o, t), TitlesAt(wire, k - 1, t)
  PROVE  TitlesAt(wire, k, TopAfter(t, wire[k]))
<1> DEFINE event == wire[k]
           top == TopAfter(t, event)
<1>1. /\ event \in Fitting /\ (event[1] = "toplevel" => Titled(wire, k + 1, event[2]))
      /\ t \in [Windows -> Entries]
  BY DEF Announced, TablesTyped
<1>2. \A w \in Windows : t[w].seen # "none" /\ t[w].title = 0 =>
        t[w].seen = "known" /\ event[1] = "title" /\ event[2] = w
  BY DEF TitlesAt, Titled
<1> HIDE DEF event
<1>3. SUFFICES ASSUME NEW w \in Windows, top[w].seen # "none", top[w].title = 0
               PROVE  top[w].seen = "known" /\ Titled(wire, k + 1, w)
  BY DEF TitlesAt, event
<1>4. CASE event[1] = "toplevel"
  <2>1. top = [t EXCEPT ![event[2]] = [seen |-> "known", title |-> 0]]
    BY <1>4 DEF TopAfter
  <2>2. CASE w = event[2]
    BY <1>1, <1>4, <2>1, <2>2
  <2>3. CASE w # event[2]
    BY <1>1, <1>2, <1>3, <1>4, <2>1, <2>3
  <2> QED
    BY <2>2, <2>3
<1>5. CASE event[1] \notin {"toplevel", "title", "done", "closed"} \/ t[event[2]].seen = "none"
  <2>1. CASE event[1] # "toplevel"
    <3>1. top = t
      BY <1>5, <2>1 DEF TopAfter
    <3> QED
      BY <1>2, <1>3, <1>5, <3>1
  <2> QED
    BY <1>4, <2>1
<1>6. CASE event[1] \in {"title", "done", "closed"} /\ t[event[2]].seen # "none"
  <2>1. event[2] \in Windows
    BY <1>1, <1>6 DEF Fitting, Events
  <2>2. CASE event[1] = "title"
    <3>1. top = [t EXCEPT ![event[2]] =
                   [seen |-> IF Wlr THEN "ready" ELSE t[event[2]].seen, title |-> event[3]]]
      BY <1>6, <2>2 DEF TopAfter
    <3>2. event[3] # 0
      BY <1>1, <2>2, SourcesAssumption DEF Fitting
    <3>3. w # event[2]
      BY <1>1, <1>3, <3>1, <3>2
    <3> QED
      BY <1>1, <1>2, <1>3, <3>1, <3>3
  <2>3. CASE event[1] = "done"
    <3>1. top = [t EXCEPT ![event[2]] = [t[event[2]] EXCEPT !.seen = "ready"]]
      BY <1>6, <2>3 DEF TopAfter
    <3>2. t[event[2]].title # 0
      BY <1>2, <1>6, <2>1, <2>3
    <3>3. t[event[2]] \in Entries /\ [t[event[2]] EXCEPT !.seen = "ready"].title = t[event[2]].title
      BY <1>1, <2>1 DEF Entries
    <3>4. w # event[2]
      BY <1>1, <1>3, <2>1, <3>1, <3>2, <3>3
    <3> QED
      BY <1>1, <1>2, <1>3, <2>3, <3>1, <3>4
  <2>4. CASE event[1] = "closed"
    <3>1. top = [t EXCEPT ![event[2]] = [seen |-> "none", title |-> 0]]
      BY <1>6, <2>4 DEF TopAfter
    <3>2. w # event[2]
      BY <1>1, <1>3, <3>1
    <3> QED
      BY <1>1, <1>2, <1>3, <2>4, <3>1, <3>2
  <2> QED
    BY <1>6, <2>2, <2>3, <2>4
<1> QED
  BY <1>4, <1>5, <1>6

\* What is listed has a title.
LEMMA ListingTyped ==
  ASSUME NEW out, NEW top, TablesTyped(out, top), \A w \in Windows : top[w].seen = "ready" => top[w].title # 0
  PROVE  Recompute(out, top) \in Listing
<1>1. \A w \in Windows : top[w].title \in Titles
  BY DEF TablesTyped, Entries
<1>2. \A w \in Windows : top[w].seen = "ready" => top[w].title \in 1 .. MaxTurns + 1
  BY <1>1, SourcesAssumption DEF Titles
<1> QED
  BY <1>2 DEF Recompute, Listing

\* More on the wire, announced as a whole.
LEMMA WireGrows ==
  ASSUME NEW wire \in Seq(Events), NEW more \in Seq(Events), Announced(wire), Announced(more),
         NEW top, TitlesAt(wire, 0, top)
  PROVE  Announced(wire \o more) /\ TitlesAt(wire \o more, 0, top)
<1>1. PICK n \in Nat, m \in Nat : n = Len(wire) /\ m = Len(more)
  OBVIOUS
<1>2. PICK all : all = wire \o more
  OBVIOUS
<1>3. Len(all) = n + m
  BY <1>1, <1>2
<1>4. \A i \in 1 .. n : all[i] = wire[i]
  BY <1>1, <1>2
<1>5. \A i \in 1 .. m : all[n + i] = more[i]
  BY <1>1, <1>2
<1> DEFINE Says(queue, i) == queue[i] \in Fitting /\ (queue[i][1] = "toplevel" => Titled(queue, i + 1, queue[i][2]))
<1>6. ASSUME NEW i \in 1 .. n PROVE Says(all, i)
  <2>1. Says(wire, i) /\ all[i] = wire[i]
    BY <1>1, <1>4 DEF Announced
  <2>2. \A w : Titled(wire, i + 1, w) => Titled(all, i + 1, w)
    BY <1>1, <1>3, <1>4 DEF Titled
  <2> QED
    BY <2>1, <2>2
<1>7. ASSUME NEW i \in 1 .. m PROVE Says(all, n + i)
  <2>1. Says(more, i) /\ all[n + i] = more[i]
    BY <1>1, <1>5 DEF Announced
  <2>2. \A w : Titled(more, i + 1, w) => Titled(all, n + i + 1, w)
    <3> SUFFICES ASSUME NEW w, Titled(more, i + 1, w) PROVE Titled(all, n + i + 1, w)
      OBVIOUS
    <3>1. i + 1 \in 1 .. m /\ more[i + 1][1] = "title" /\ more[i + 1][2] = w
      BY <1>1 DEF Titled
    <3>2. all[n + (i + 1)] = more[i + 1] /\ n + (i + 1) = n + i + 1
      BY <1>5, <3>1
    <3>3. n + i + 1 \in 1 .. Len(all)
      BY <1>3, <3>1
    <3> QED
      BY <3>1, <3>2, <3>3 DEF Titled
  <2> QED
    BY <2>1, <2>2
<1>8. \A i \in 1 .. Len(all) : Says(all, i)
  <2> HIDE DEF Says
  <2> SUFFICES ASSUME NEW i \in 1 .. Len(all) PROVE Says(all, i)
    OBVIOUS
  <2>1. i \in 1 .. n \/ (i - n \in 1 .. m /\ n + (i - n) = i)
    BY <1>3
  <2>2. CASE i \in 1 .. n
    BY <1>6, <2>2
  <2>3. CASE i - n \in 1 .. m /\ n + (i - n) = i
    <3>1. Says(all, n + (i - n))
      BY <1>7, <2>3
    <3> QED
      BY <2>3, <3>1
  <2> QED
    BY <2>1, <2>2, <2>3
<1>9. \A w : Titled(wire, 0 + 1, w) => Titled(all, 0 + 1, w)
  BY <1>1, <1>3, <1>4 DEF Titled
<1> QED
  BY <1>2, <1>8, <1>9 DEF Announced, TitlesAt

\* The rest of the wire, once a batch is taken.
LEMMA WireShrinks ==
  ASSUME NEW wire \in Seq(Events), Announced(wire), NEW k \in 1 .. Len(wire),
         NEW top, TitlesAt(wire, k, top)
  PROVE  /\ Announced(SubSeq(wire, k + 1, Len(wire)))
         /\ TitlesAt(SubSeq(wire, k + 1, Len(wire)), 0, top)
<1>1. PICK n \in Nat : n = Len(wire)
  OBVIOUS
<1>2. PICK rest : rest = SubSeq(wire, k + 1, Len(wire))
  OBVIOUS
<1>3. k \in 1 .. n /\ Len(rest) = n - k /\ \A i \in 1 .. n - k : rest[i] = wire[k + i]
  BY <1>1, <1>2
<1>4. ASSUME NEW w, NEW i \in 1 .. n, k + i \in 1 .. n, Titled(wire, k + i, w)
      PROVE  Titled(rest, i, w)
  <2>1. wire[k + i][1] = "title" /\ wire[k + i][2] = w /\ i \in 1 .. n - k
    BY <1>3, <1>4 DEF Titled
  <2> QED
    BY <1>3, <2>1 DEF Titled
<1>5. ASSUME NEW i \in 1 .. n - k
      PROVE  rest[i] \in Fitting /\ (rest[i][1] = "toplevel" => Titled(rest, i + 1, rest[i][2]))
  <2>1. k + i \in 1 .. n /\ rest[i] = wire[k + i]
    BY <1>3
  <2>2. wire[k + i] \in Fitting /\ (wire[k + i][1] = "toplevel" => Titled(wire, k + i + 1, wire[k + i][2]))
    BY <1>1, <2>1 DEF Announced
  <2>3. ASSUME NEW w, Titled(wire, k + i + 1, w) PROVE Titled(rest, i + 1, w)
    <3>1. k + i + 1 \in 1 .. n
      BY <1>1, <2>3 DEF Titled
    <3>2. i + 1 \in 1 .. n /\ k + (i + 1) = k + i + 1
      BY <1>3, <3>1
    <3>3. Titled(wire, k + (i + 1), w)
      BY <2>3, <3>2
    <3> QED
      BY <1>4, <3>1, <3>2, <3>3
  <2> QED
    BY <2>1, <2>2, <2>3
<1>6. ASSUME NEW w, Titled(wire, k + 1, w) PROVE Titled(rest, 0 + 1, w)
  <2>1. k + 1 \in 1 .. n /\ 1 \in 1 .. n
    BY <1>1, <1>3, <1>6 DEF Titled
  <2> QED
    BY <1>4, <1>6, <2>1
<1> QED
  BY <1>2, <1>3, <1>5, <1>6 DEF Announced, TitlesAt

\* A batch leaves the tables within their bounds.
LEMMA BatchKeepsTypes ==
  ASSUME eWire \in Seq(Events), Announced(eWire), TablesTyped(eOut, eTop), TitlesAt(eWire, 0, eTop),
         NEW o, NEW t, Leads(eWire, eOut, eTop, o, t), NEW k \in 1 .. Len(eWire)
  PROVE  TablesTyped(o[k], t[k]) /\ TitlesAt(eWire, k, t[k])
<1> DEFINE S == {i \in 0 .. k : TablesTyped(o[i], t[i]) /\ TitlesAt(eWire, i, t[i])}
<1>1. 0 \in S
  BY DEF Leads
<1>2. ASSUME NEW i \in 1 .. k, i - 1 \in S PROVE i \in S
  <2>1. i \in 1 .. Len(eWire) /\ i \in 0 .. k
    OBVIOUS
  <2>2. o[i] = OutAfter(o[i - 1], eWire[i]) /\ t[i] = TopAfter(t[i - 1], eWire[i])
    BY <2>1 DEF Leads
  <2>3. TablesTyped(o[i - 1], t[i - 1]) /\ TitlesAt(eWire, i - 1, t[i - 1])
    BY <1>2
  <2>4. eWire[i] \in Fitting
    BY <2>1 DEF Announced
  <2>5. TablesTyped(o[i], t[i])
    BY <2>2, <2>3, <2>4, EventKeepsTypes
  <2>6. TitlesAt(eWire, i, t[i])
    BY <2>1, <2>2, <2>3, EventKeepsTitles
  <2> QED
    BY <2>1, <2>5, <2>6
<1> HIDE DEF S
<1>3. k \in S
  BY <1>1, <1>2, UpTo
<1> QED
  BY <1>3 DEF S

LEMMA SnapshotTyped ==
  ASSUME TablesTyped(eOut, eTop), TitlesAt(eWire, 0, eTop)
  PROVE  Recompute(eOut, eTop) \in Listing
<1>1. \A w \in Windows : eTop[w].seen = "ready" => eTop[w].title # 0
  BY DEF TitlesAt
<1> QED
  BY <1>1, ListingTyped

LEMMA NewTyped == ASSUME SourcesInv, SourcesTyped, TryNew PROVE SourcesTyped'
<1>1. CompositorTypes /\ QueueTypes /\ ThumbTypes /\ eWire' = <<>>
  BY DEF SourcesInv, SnapshotRight, SourcesTyped, TryNew
<1>2. /\ UNCHANGED <<cPlugged, cOpen, cTurns, sQueue, tPc, tHeard, tAnswer>>
      /\ eOut' = [o \in Outputs |-> IF o \in cPlugged THEN "ready" ELSE "none"]
      /\ eTop' = [w \in Windows |-> IF cOpen[w] # 0 THEN [seen |-> "ready", title |-> cOpen[w]]
                                                  ELSE [seen |-> "none", title |-> 0]]
      /\ eSnap' = Recompute(eOut', eTop') /\ kList' = eSnap'
  BY DEF TryNew, desktop, changes, thumb
<1>3. \A w \in Windows : cOpen[w] \in Titles /\ 0 \in Titles
  BY <1>1, SourcesAssumption DEF CompositorTypes, Titles
<1>4. TablesTyped(eOut', eTop')
  BY <1>2, <1>3 DEF TablesTyped, Entries
<1>5. \A w \in Windows : eTop'[w].seen # "none" => eTop'[w].title # 0
  BY <1>2
<1>6. Announced(eWire') /\ TitlesAt(eWire', 0, eTop')
  BY <1>1, <1>5 DEF Announced, TitlesAt
<1>7. eSnap' \in Listing /\ kList' \in Listing
  BY <1>2, <1>4, <1>5, ListingTyped
<1>8. CompositorTypes' /\ QueueTypes' /\ ThumbTypes'
  BY <1>1, <1>2 DEF CompositorTypes, QueueTypes, ThumbTypes
<1> QED
  BY <1>4, <1>6, <1>7, <1>8 DEF SourcesTyped, ListTypes

LEMMA DispatchTyped == ASSUME SourcesInv, SourcesTyped, NEW k \in Nat, Dispatched(k) PROVE SourcesTyped'
<1> DEFINE after == AfterBatch(SubSeq(eWire, 1, k))
<1>1. /\ CompositorTypes /\ QueueTypes /\ ThumbTypes /\ ListTypes /\ eWire \in Seq(Events)
      /\ Announced(eWire) /\ TablesTyped(eOut, eTop) /\ TitlesAt(eWire, 0, eTop)
      /\ k \in 1 .. Len(eWire)
  BY DEF SourcesInv, DesktopShape, SourcesTyped, Dispatched
<1>2. /\ eOut' = after.out /\ eTop' = after.top /\ eWire' = SubSeq(eWire, k + 1, Len(eWire))
      /\ UNCHANGED <<cPlugged, cOpen, cTurns, eSnap, sQueue, kList, tPc, tHeard, tAnswer>>
  BY DEF Dispatched, desktop, changes, client, thumb
<1> HIDE DEF after
<1>3. PICK out, top : Reaches(eWire, eOut, eTop, out, top)
  BY DEF SourcesInv, WireEndsRight, Dispatched
<1>4. PICK o, t : Leads(eWire, eOut, eTop, o, t)
  BY <1>3 DEF Reaches
<1>5. after = [out |-> o[k], top |-> t[k], dirty |-> Marked(t, k)]
  BY <1>1, <1>4, BatchTraced DEF after
<1>6. eOut' = o[k] /\ eTop' = t[k]
  BY <1>2, <1>5
<1>7. TablesTyped(o[k], t[k]) /\ TitlesAt(eWire, k, t[k])
  BY <1>1, <1>4, BatchKeepsTypes
<1>8. Announced(eWire') /\ TitlesAt(eWire', 0, t[k])
  BY <1>1, <1>2, <1>7, WireShrinks
<1>9. CompositorTypes' /\ QueueTypes' /\ ThumbTypes' /\ ListTypes'
  BY <1>1, <1>2 DEF CompositorTypes, QueueTypes, ThumbTypes, ListTypes
<1> QED
  BY <1>6, <1>7, <1>8, <1>9 DEF SourcesTyped

LEMMA StoreTyped == ASSUME SourcesTyped, StoreSnapshot PROVE SourcesTyped'
<1>1. /\ UNCHANGED <<cPlugged, cOpen, cTurns, eWire, eOut, eTop, sQueue, kList, tPc, tHeard, tAnswer>>
      /\ eSnap' = Recompute(eOut, eTop)
  BY DEF StoreSnapshot, desktop, tables, changes, client, thumb
<1>2. eSnap' \in Listing
  BY <1>1, SnapshotTyped DEF SourcesTyped
<1> QED
  BY <1>1, <1>2 DEF SourcesTyped, CompositorTypes, QueueTypes, ThumbTypes, ListTypes

\* What the broadcast leaves in its channel.
LEMMA KeptNewest ==
  ASSUME NEW all \in Seq(Change), NEW cap \in Nat
  PROVE  LET lost == IF Len(all) > cap THEN Len(all) - cap ELSE 0
         IN  SubSeq(all, lost + 1, Len(all)) \in Seq(Change) /\ Len(SubSeq(all, lost + 1, Len(all))) <= cap
<1>1. PICK n \in Nat : n = Len(all)
  OBVIOUS
<1>2. ASSUME NEW i \in 0 .. n
      PROVE  SubSeq(all, i + 1, n) \in Seq(Change) /\ Len(SubSeq(all, i + 1, n)) = n - i
  BY <1>1
<1>3. CASE n > cap
  <2>1. n - cap \in 0 .. n
    BY <1>3
  <2> QED
    BY <1>1, <1>2, <1>3, <2>1
<1>4. CASE ~(n > cap)
  <2>1. 0 \in 0 .. n
    OBVIOUS
  <2> QED
    BY <1>1, <1>2, <1>4, <2>1
<1> QED
  BY <1>3, <1>4

LEMMA BroadcastTyped == ASSUME SourcesInv, SourcesTyped, Broadcast PROVE SourcesTyped'
<1>1. sQueue' \in Seq(Change) /\ Len(sQueue') <= ChangeCap
  <2>1. PICK order \in [1 .. Cardinality(eDirty) -> eDirty] :
          LET all == sQueue \o order
              lost == IF Len(all) > ChangeCap THEN Len(all) - ChangeCap ELSE 0
          IN  sQueue' = SubSeq(all, lost + 1, Len(all))
    BY DEF Broadcast
  <2>2. order \in Seq(Change)
    <3>1. PICK n \in Nat : n = Cardinality(eDirty)
      <4>1. IsFiniteSet(Change)
        <5>1. IsFiniteSet({}) /\ Change = ({} \union {"monitors"}) \union {"windows"}
          BY FS_EmptySet DEF Change
        <5>2. IsFiniteSet({} \union {"monitors"})
          BY <5>1, FS_AddElement
        <5> QED
          BY <5>1, <5>2, FS_AddElement
      <4> QED
        BY <4>1, FS_Subset, FS_CardinalityType DEF SourcesInv, DesktopShape
    <3>2. order \in [1 .. n -> Change]
      BY <3>1 DEF SourcesInv, DesktopShape
    <3> QED
      BY <3>2
  <2>3. sQueue \o order \in Seq(Change)
    BY <2>2 DEF SourcesTyped, QueueTypes
  <2> QED
    BY <2>1, <2>3, KeptNewest, SourcesAssumption
<1>2. UNCHANGED <<cPlugged, cOpen, cTurns, eWire, eOut, eTop, eSnap, kList, tPc, tHeard, tAnswer>>
  BY DEF Broadcast, desktop, client, thumb
<1> QED
  BY <1>1, <1>2 DEF SourcesTyped, CompositorTypes, QueueTypes, ThumbTypes, ListTypes

LEMMA ClientTyped ==
  ASSUME SourcesInv, SourcesTyped, EnumeratorDies \/ EmitSignal \/ \E change \in Change : ListAgain(change)
  PROVE  SourcesTyped'
<1>1. UNCHANGED <<cPlugged, cOpen, cTurns, eWire, eOut, eTop, eSnap, tPc, tHeard, tAnswer>>
  BY DEF EnumeratorDies, EmitSignal, ListAgain, desktop, tables, changes, client, thumb
<1>2. sQueue' \in Seq(Change) /\ Len(sQueue') <= ChangeCap
  <2>1. sQueue' = sQueue \/ (sQueue # <<>> /\ sQueue' = Tail(sQueue))
    BY DEF EnumeratorDies, EmitSignal, ListAgain, changes
  <2>2. CASE sQueue # <<>> /\ sQueue' = Tail(sQueue)
    <3>1. Len(sQueue) \in Nat /\ Len(sQueue') = Len(sQueue) - 1 /\ sQueue' \in Seq(Change)
      BY <2>2 DEF SourcesTyped, QueueTypes
    <3> QED
      BY <3>1, SourcesAssumption DEF SourcesTyped, QueueTypes
  <2> QED
    BY <2>1, <2>2 DEF SourcesTyped, QueueTypes
<1>3. kList' \in Listing
  <2>1. kList' = kList \/ \E change \in Change : kList' = [kList EXCEPT ![change] = eSnap[change]]
    BY DEF EnumeratorDies, EmitSignal, ListAgain, client
  <2>2. kList \in Listing /\ eSnap \in Listing
    BY DEF SourcesTyped, ListTypes
  <2>3. ASSUME NEW change \in Change PROVE [kList EXCEPT ![change] = eSnap[change]] \in Listing
    BY <2>2 DEF Listing, Change
  <2> QED
    BY <2>1, <2>2, <2>3
<1> QED
  BY <1>1, <1>2, <1>3 DEF SourcesTyped, CompositorTypes, QueueTypes, ThumbTypes, ListTypes

LEMMA ThumbnailTyped ==
  ASSUME SourcesTyped,
         AskThumbnail \/ ThumbFound \/ ThumbCopies \/ ThumbDone \/ ThumbHears \/ UNCHANGED sourceVars
  PROVE  SourcesTyped'
<1>1. UNCHANGED <<cPlugged, cOpen, cTurns, eWire, eOut, eTop, eSnap, sQueue, kList>>
  BY DEF AskThumbnail, ThumbFound, ThumbCopies, ThumbDone, ThumbHears, sourceVars, desktop, tables, changes, client
<1>2. ThumbTypes'
  <2> USE DEF SourcesTyped, ThumbTypes
  <2>1. CASE AskThumbnail
    BY <2>1 DEF AskThumbnail, AskMonitor, AskWindow, Identified
  <2>2. CASE ThumbFound
    BY <2>2 DEF ThumbFound
  <2>3. CASE ThumbCopies
    BY <2>3 DEF ThumbCopies, NoBuffer
  <2>4. CASE ThumbDone
    BY <2>4 DEF ThumbDone
  <2>5. CASE ThumbHears
    BY <2>5 DEF ThumbHears, MonitorHears, WindowHears
  <2>6. CASE UNCHANGED sourceVars
    BY <2>6 DEF sourceVars, thumb
  <2> QED
    BY <2>1, <2>2, <2>3, <2>4, <2>5, <2>6
<1> QED
  BY <1>1, <1>2 DEF SourcesTyped, CompositorTypes, QueueTypes, ListTypes

\* A turn of the desktop, by what it says on the wire.
LEMMA TurnTyped ==
  ASSUME SourcesInv, SourcesTyped, NEW more \in Seq(Events), Announced(more), Turn(more),
         cPlugged' \subseteq Outputs, cOpen' \in [Windows -> Nat],
         \A w \in Windows : cOpen'[w] <= cTurns + 2,
         tHeard' \subseteq tHeard \union {"event", "found"}
  PROVE  SourcesTyped'
<1>1. /\ cTurns < MaxTurns /\ cTurns' = cTurns + 1 /\ eWire' = eWire \o more
      /\ UNCHANGED <<eOut, eTop, eSnap, sQueue, kList, tPc, tAnswer>>
  BY DEF Turn, tables, changes, client
<1>2. CompositorTypes'
  BY <1>1, SourcesAssumption DEF SourcesTyped, CompositorTypes
<1>3. ThumbTypes'
  BY <1>1 DEF SourcesTyped, ThumbTypes
<1>4. Announced(eWire') /\ TitlesAt(eWire', 0, eTop)
  BY <1>1, WireGrows DEF SourcesInv, DesktopShape, SourcesTyped
<1> QED
  BY <1>1, <1>2, <1>3, <1>4 DEF SourcesTyped, QueueTypes, ListTypes

LEMMA OutputsTyped ==
  ASSUME SourcesInv, SourcesTyped, NEW p \in Outputs, PlugOutput(p) \/ UnplugOutput(p)
  PROVE  SourcesTyped'
<1>1. cPlugged' \subseteq Outputs /\ cOpen' = cOpen /\ tHeard' = tHeard
  BY DEF SourcesTyped, CompositorTypes, PlugOutput, UnplugOutput
<1>2. PICK a, b, c : a = <<"global", p>> /\ b = <<"output_done", p>> /\ c = <<"global_remove", p>>
  OBVIOUS
<1>3. a \in Fitting /\ b \in Fitting /\ c \in Fitting
  BY <1>2 DEF Fitting, Events
<1>4. /\ <<a, b>> \in Seq(Events) /\ <<c>> \in Seq(Events)
      /\ Announced(<<a, b>>) /\ Announced(<<c>>)
  <2>1. <<a, b>> \in Seq(Events) /\ <<c>> \in Seq(Events)
    BY <1>3 DEF Fitting
  <2>2. Announced(<<a, b>>)
    BY <1>2, <1>3 DEF Announced
  <2>3. Announced(<<c>>)
    BY <1>2, <1>3 DEF Announced
  <2> QED
    BY <2>1, <2>2, <2>3
<1>5. Turn(<<a, b>>) \/ Turn(<<c>>)
  BY <1>2 DEF PlugOutput, UnplugOutput
<1>6. cOpen' \in [Windows -> Nat] /\ \A w \in Windows : cOpen'[w] <= cTurns + 2
  BY <1>1 DEF SourcesTyped, CompositorTypes
<1> QED
  BY <1>1, <1>4, <1>5, <1>6, TurnTyped

LEMMA WindowsTyped ==
  ASSUME SourcesInv, SourcesTyped, NEW w \in Windows, OpenWindow(w) \/ Retitle(w) \/ CloseWindow(w)
  PROVE  SourcesTyped'
<1>1. cPlugged' \subseteq Outputs /\ tHeard' \subseteq tHeard \union {"event", "found"}
  <2>1. cPlugged' = cPlugged
    BY DEF OpenWindow, Retitle, CloseWindow
  <2>2. tHeard' \subseteq tHeard \union {"event", "found"}
    BY DEF OpenWindow, Retitle, CloseWindow
  <2> QED
    BY <2>1, <2>2 DEF SourcesTyped, CompositorTypes
<1>2. /\ cOpen \in [Windows -> Nat] /\ \A v \in Windows : cOpen[v] <= cTurns + 1
      /\ cTurns \in Nat /\ cTurns < MaxTurns
  BY SourcesAssumption DEF SourcesTyped, CompositorTypes, OpenWindow, Retitle, CloseWindow, Turn
<1>3. cOpen' \in [Windows -> Nat] /\ \A v \in Windows : cOpen'[v] <= cTurns + 2
  <2>1. PICK x \in 0 .. cTurns + 2 : cOpen' = [cOpen EXCEPT ![w] = x]
    BY <1>2 DEF OpenWindow, Retitle, CloseWindow
  <2> QED
    BY <1>2, <2>1
<1>4. CASE OpenWindow(w)
  <2>1. PICK a, b, c : a = <<"toplevel", w>> /\ b = <<"title", w, 1>> /\ c = <<"done", w>>
    OBVIOUS
  <2>2. a \in Fitting /\ b \in Fitting /\ c \in Fitting
    BY <2>1, SourcesAssumption DEF Fitting, Events
  <2>3. <<a, b, c>> \in Seq(Events)
    BY <2>2 DEF Fitting
  <2>4. Announced(<<a, b, c>>)
    BY <2>1, <2>2 DEF Announced, Titled
  <2>5. Turn(<<a, b, c>>)
    BY <1>4, <2>1 DEF OpenWindow, Announce
  <2> QED
    BY <1>1, <1>3, <2>3, <2>4, <2>5, TurnTyped
<1>5. CASE Retitle(w)
  <2>1. PICK a, b : a = <<"title", w, cOpen[w] + 1>> /\ b = <<"done", w>>
    OBVIOUS
  <2>2. cOpen[w] + 1 \in 1 .. MaxTurns + 1
    BY <1>2, SourcesAssumption
  <2>3. a \in Fitting /\ b \in Fitting
    BY <2>1, <2>2 DEF Fitting, Events
  <2>4. <<a, b>> \in Seq(Events)
    BY <2>3 DEF Fitting
  <2>5. Announced(<<a, b>>)
    BY <2>1, <2>3 DEF Announced, Titled
  <2>6. Turn(<<a, b>>)
    BY <1>5, <2>1 DEF Retitle
  <2> QED
    BY <1>1, <1>3, <2>4, <2>5, <2>6, TurnTyped
<1>6. CASE CloseWindow(w)
  <2>1. PICK a : a = <<"closed", w>>
    OBVIOUS
  <2>2. a \in Fitting /\ <<a>> \in Seq(Events)
    BY <2>1 DEF Fitting, Events
  <2>3. Announced(<<a>>)
    BY <2>1, <2>2 DEF Announced, Titled
  <2>4. Turn(<<a>>)
    BY <1>6, <2>1 DEF CloseWindow
  <2> QED
    BY <1>1, <1>3, <2>2, <2>3, <2>4, TurnTyped
<1> QED
  BY <1>4, <1>5, <1>6

LEMMA SourcesTypedStep ==
  SourcesInv /\ SourcesTyped /\ [SourcesNext]_sourceVars => SourcesTyped'
<1> SUFFICES ASSUME SourcesInv, SourcesTyped, [SourcesNext]_sourceVars PROVE SourcesTyped'
  OBVIOUS
<1>1. CASE \E k \in 1 .. 3 * MaxTurns : Dispatched(k)
  BY <1>1, DispatchTyped, SourcesAssumption
<1>2. CASE \E p \in Outputs : PlugOutput(p) \/ UnplugOutput(p)
  BY <1>2, OutputsTyped
<1>3. CASE \E w \in Windows : OpenWindow(w) \/ Retitle(w) \/ CloseWindow(w)
  BY <1>3, WindowsTyped
<1> QED
  BY <1>1, <1>2, <1>3, NewTyped, StoreTyped, BroadcastTyped, ClientTyped, ThumbnailTyped DEF SourcesNext

\* The enumerator's tables, its snapshot, the client's list and the thumbnail keep their shape for
\* every desktop, number of turns and size of the channel: an untitled window is never listed,
\* because it counts as ready only by its title or by the done that follows it.
THEOREM SourcesTypes == SourcesSpec => []SourcesTypeOK
<1>1. SourcesInv /\ SourcesTyped => SourcesTypeOK
  <2> SUFFICES ASSUME SourcesInv, SourcesTyped PROVE SourcesTypeOK
    OBVIOUS
  <2>1. cOpen \in [Windows -> 0 .. MaxTurns + 1]
    BY SourcesAssumption DEF SourcesTyped, CompositorTypes
  <2>2. \A w \in Windows : eTop[w].seen \in {"none", "known", "ready"} /\ eTop[w].title \in 0 .. MaxTurns + 1
    BY DEF SourcesTyped, TablesTyped, Entries, Titles
  <2> QED
    BY <2>1, <2>2 DEF SourcesInv, DesktopShape, SourcesTyped, CompositorTypes, TablesTyped, QueueTypes, ListTypes,
       ThumbTypes, SourcesTypeOK
<1> QED
  BY <1>1, SourcesInitially, SourcesStep, SourcesTypedInitially, SourcesTypedStep, PTL DEF SourcesSpec

-----------------------------------------------------------------------------
CopyEvents == (1 .. MaxFrames) \X {"shm", "dmabuf", "ready", "failed", "other"}
Answers(event) == event[2] \in {"ready", "failed"}
Offers(event) == event[2] \in {"shm", "dmabuf"}
Unanswered == \A i \in 1 .. Len(dWire) : ~Answers(dWire[i])
Unoffered == \A i \in 1 .. Len(dWire) : ~Offers(dWire[i])

WorkerTypeOK ==
  /\ dApp \in {"off", "starting", "running", "stopping", "stopped", "failed"}
  /\ dPc \in {"none", "setup", "top", "params", "copy", "ended"}
  /\ dGpu \in 0 .. RenderNodes
  /\ dStop \in BOOLEAN /\ dSized \in BOOLEAN /\ dLate \in BOOLEAN /\ dOff \in BOOLEAN
  /\ dFrame \in 0 .. MaxFrames /\ dFails \in Nat
  /\ dAsked \subseteq (1 .. MaxFrames) \X {"params", "copy"}
  /\ dFilled \subseteq 1 .. MaxFrames
  /\ dOffer \subseteq {"shm", "dmabuf"}
  /\ dStatus \in {"pending", "ready", "failed"}
  /\ dVia \in {"none", "shm", "dmabuf"}
WireTypeOK == dWire \in Seq(CopyEvents)
QueueTypeOK == dQueue \in Seq(BOOLEAN) /\ Len(dQueue) <= ChannelCap
FailuresCounted ==
  /\ dPc \in {"params", "copy"} => dFrame > 0
  /\ dFails <= dFrame
  /\ dPc = "params" => dFails < dFrame
  /\ dPc = "copy" /\ dVia = "dmabuf" => dFails < dFrame
IdleBefore == dApp = "off" => dPc = "none"
DirectShape == WorkerTypeOK /\ WireTypeOK /\ QueueTypeOK /\ FailuresCounted /\ IdleBefore

ParamsOwed ==
  \A f \in 1 .. MaxFrames : <<f, "params">> \in dAsked =>
     f = dFrame /\ dPc = "params" /\ Unoffered /\ Unanswered
CopyOwed == \A f \in 1 .. MaxFrames : <<f, "copy">> \in dAsked => f = dFrame /\ dPc = "copy"
AnswerOfThis ==
  \A i \in 1 .. Len(dWire) : Answers(dWire[i]) =>
     /\ dWire[i][1] = dFrame /\ dPc = "copy"
     /\ <<dFrame, "copy">> \notin dAsked
     /\ dWire[i][2] = "ready" => dFrame \in dFilled
OneAnswer ==
  \A i, j \in 1 .. Len(dWire) : Answers(dWire[i]) /\ Answers(dWire[j]) => i = j
OffersFirst ==
  \A i, j \in 1 .. Len(dWire) : Answers(dWire[i]) /\ Offers(dWire[j]) => j < i
OffersOfThis == dPc \notin {"params", "copy"} => Unoffered
StatusOfThis ==
  /\ dPc \in {"params", "copy"} => dStatus = "pending"
  /\ dPc = "params" => dOffer = {}
\* Every answer is of the request in flight: the waits end as they should.
Served ==
  StatusOfThis /\ ParamsOwed /\ CopyOwed /\ AnswerOfThis /\ OneAnswer /\ OffersFirst /\ OffersOfThis
\* The compositor failed the frame before describing it: the worker never gets to a copy again.
Stranded == dPc = "params" /\ dOffer = {} /\ Unoffered /\ dAsked = {}
Honest ==
  /\ dPc = "ended" \/ Stranded \/ Served
  /\ \A i \in 1 .. Len(dQueue) : dQueue[i] = TRUE
DirectInv == DirectShape /\ (~dLate => Honest)

-----------------------------------------------------------------------------
\* The allocator opens a node of the host, or none.
LEMMA Opened ==
  ASSUME NEW main \in FeedbackDevice, NEW openable \in SUBSET (1 .. RenderNodes)
  PROVE  OpenedNode(main, openable) \in 0 .. RenderNodes
<1>1. CASE openable = {} \/ main \in openable
  BY <1>1, DirectAssumption DEF OpenedNode, FeedbackDevice
<1>2. CASE openable # {} /\ main \notin openable
  <2>1. \E n \in openable : \A m \in openable : n <= m
    BY <1>2, Least, DirectAssumption
  <2>2. OpenedNode(main, openable) \in openable
    BY <1>2, <2>1 DEF OpenedNode
  <2>3. \A n \in openable : n \in 0 .. RenderNodes
    BY DirectAssumption
  <2> QED
    BY <2>2, <2>3
<1> QED
  BY <1>1, <1>2

LEMMA ShapeTypes == DirectShape => DirectTypeOK
  BY DirectAssumption DEF DirectShape, WorkerTypeOK, WireTypeOK, QueueTypeOK, FailuresCounted,
     DirectTypeOK, CopyEvents

LEMMA DirectInitially == DirectInit => DirectInv
<1> SUFFICES ASSUME DirectInit PROVE DirectInv
  OBVIOUS
<1> USE DEF DirectInit
<1>1. WorkerTypeOK
  <2>1. 0 \in 0 .. RenderNodes /\ 0 \in 0 .. MaxFrames
    BY DirectAssumption
  <2>2. /\ dStop \in BOOLEAN /\ dSized \in BOOLEAN /\ dLate \in BOOLEAN /\ dOff \in BOOLEAN
    OBVIOUS
  <2> QED
    BY <2>1, <2>2 DEF WorkerTypeOK
<1>2. WireTypeOK /\ QueueTypeOK
  BY DEF WireTypeOK, QueueTypeOK, ChannelCap
<1>3. FailuresCounted /\ IdleBefore
  BY DEF FailuresCounted, IdleBefore
<1>4. Honest
  BY DEF Honest, Served, StatusOfThis, ParamsOwed, CopyOwed, AnswerOfThis, OneAnswer, OffersFirst,
     OffersOfThis, Stranded, Unanswered, Unoffered
<1> QED
  BY <1>1, <1>2, <1>3, <1>4 DEF DirectInv, DirectShape

\* Of one to four numbers there is a greatest one.
LEMMA Greatest ==
  ASSUME NEW S \in SUBSET (1 .. 4), S # {}
  PROVE  \E i \in S : \A j \in S : j <= i
<1>1. CASE 4 \in S
  BY <1>1
<1>2. CASE 3 \in S /\ 4 \notin S
  <2>1. \A j \in S : j <= 3
    BY <1>2
  <2> QED
    BY <1>2, <2>1
<1>3. CASE 2 \in S /\ 3 \notin S /\ 4 \notin S
  <2>1. \A j \in S : j <= 2
    BY <1>3
  <2> QED
    BY <1>3, <2>1
<1>4. CASE 2 \notin S /\ 3 \notin S /\ 4 \notin S
  <2>1. \A j \in S : j = 1
    BY <1>4
  <2>2. PICK i \in S : TRUE
    OBVIOUS
  <2> QED
    BY <2>1, <2>2
<1> QED
  BY <1>1, <1>2, <1>3, <1>4

\* What a dispatch leaves on the wire, and what it makes of the status and the offers.
LEMMA Dispatching ==
  ASSUME WireTypeOK, NEW k \in 1 .. 4, Dispatch(k)
  PROVE  /\ WireTypeOK' /\ Len(dWire') = Len(dWire) - k /\ k \in 1 .. Len(dWire)
         /\ \A i \in 1 .. Len(dWire') : dWire'[i] = dWire[k + i]
         /\ \/ dStatus' = dStatus /\ \A i \in 1 .. k : ~Answers(dWire[i])
            \/ \E i \in 1 .. k : Answers(dWire[i]) /\ dStatus' = dWire[i][2]
         /\ dOffer \subseteq {"shm", "dmabuf"} => dOffer' \subseteq {"shm", "dmabuf"}
         /\ dOffer' = dOffer \/ \E i \in 1 .. k : Offers(dWire[i])
<1> DEFINE batch == SubSeq(dWire, 1, k)
           said == {i \in DOMAIN batch : batch[i][2] \in {"ready", "failed"}}
           last == CHOOSE i \in said : \A j \in said : j <= i
<1>1. k \in 1 .. Len(dWire) /\ dWire' = SubSeq(dWire, k + 1, Len(dWire))
  BY DEF Dispatch
<1>2. WireTypeOK' /\ Len(dWire') = Len(dWire) - k
      /\ \A i \in 1 .. Len(dWire') : dWire'[i] = dWire[k + i]
  BY <1>1 DEF WireTypeOK
<1>3. DOMAIN batch = 1 .. k /\ \A i \in 1 .. k : batch[i] = dWire[i]
  BY <1>1 DEF WireTypeOK
<1>4. dStatus' = (IF said = {} THEN dStatus ELSE batch[last][2]) /\ dOffer' = OfferAfter(batch)
  BY DEF Dispatch, StatusAfter
<1>5. dOffer \subseteq {"shm", "dmabuf"} => dOffer' \subseteq {"shm", "dmabuf"}
  BY <1>4 DEF OfferAfter
<1>8. dOffer' = dOffer \/ \E i \in 1 .. k : Offers(dWire[i])
  <2>1. CASE \E i \in DOMAIN batch : batch[i][2] \in {"shm", "dmabuf"}
    BY <1>3, <2>1 DEF Offers
  <2>2. CASE {i \in DOMAIN batch : batch[i][2] \in {"shm", "dmabuf"}} = {}
    BY <1>4, <2>2 DEF OfferAfter
  <2> QED
    BY <2>1, <2>2
<1> HIDE DEF batch
<1>6. CASE said = {}
  <2>1. \A i \in 1 .. k : ~Answers(dWire[i])
    BY <1>3, <1>6 DEF Answers
  <2> QED
    BY <1>1, <1>2, <1>4, <1>5, <1>6, <1>8, <2>1
<1>7. CASE said # {}
  <2>1. said \in SUBSET (1 .. 4)
    BY <1>3
  <2> HIDE DEF said
  <2>2. last \in said
    BY <1>7, <2>1, Greatest
  <2>3. last \in 1 .. k /\ Answers(batch[last])
    BY <2>2, <1>3 DEF said, Answers
  <2>4. last \in 1 .. k /\ Answers(dWire[last]) /\ dStatus' = dWire[last][2]
    BY <1>3, <1>4, <1>7, <2>3
  <2> HIDE DEF last
  <2> QED
    BY <1>1, <1>2, <1>5, <1>8, <2>4
<1> QED
  BY <1>6, <1>7

-----------------------------------------------------------------------------
\* The caller: the request in flight is not its business.
LEMMA CallerRight ==
  ASSUME DirectInv, DirectStart \/ DirectStarted \/ DirectStartFails \/ DirectStop \/ DirectJoined
  PROVE  DirectInv'
<1>1. DirectShape
  BY DEF DirectInv
<1> DEFINE Worker == dPc' = dPc \/ (dPc' = "setup" /\ dPc = "none")
<1>6. dApp' \in {"starting", "running", "stopping", "stopped", "failed"} /\ Worker
  <2>1. CASE DirectStart
    BY <1>1, <2>1 DEF DirectShape, IdleBefore, DirectStart
  <2>2. CASE DirectStarted \/ DirectStartFails \/ DirectStop \/ DirectJoined
    BY <2>2 DEF DirectStarted, DirectStartFails, DirectStop, DirectJoined
  <2> QED
    BY <2>1, <2>2
<1>7. dStop' = dStop \/ dStop' = TRUE
  BY DEF DirectStart, DirectStarted, DirectStartFails, DirectStop, DirectJoined
<1>2. /\ dApp' \in {"starting", "running", "stopping", "stopped", "failed"} /\ dStop' \in BOOLEAN
      /\ Worker
      /\ UNCHANGED <<dGpu, dSized, dFrame, dWire, dAsked, dFilled, dOffer, dStatus, dVia, dFails, dOff,
                    dLate, dQueue>>
  BY <1>1, <1>6, <1>7 DEF DirectShape, WorkerTypeOK, DirectStart, DirectStarted, DirectStartFails,
     DirectStop, DirectJoined, dLink, dRequest, dCounters
<1>3. WorkerTypeOK'
  BY <1>1, <1>2 DEF DirectShape, WorkerTypeOK
<1>4. WireTypeOK' /\ QueueTypeOK' /\ FailuresCounted' /\ IdleBefore'
  BY <1>1, <1>2 DEF DirectShape, WireTypeOK, QueueTypeOK, FailuresCounted, IdleBefore
<1>5. Honest => Honest'
  BY <1>2 DEF Honest, Served, StatusOfThis, ParamsOwed, CopyOwed, AnswerOfThis, OneAnswer, OffersFirst,
     OffersOfThis, Stranded, Unanswered, Unoffered
<1> QED
  BY <1>2, <1>3, <1>4, <1>5 DEF DirectInv, DirectShape

LEMMA NextFrameRight ==
  ASSUME DirectInv, DirectNextFrame
  PROVE  DirectInv'
<1>1. DirectShape
  BY DEF DirectInv
<1>2. /\ UNCHANGED <<dApp, dStop, dPc, dGpu, dSized, dFrame, dWire, dAsked, dFilled, dOffer, dStatus, dVia,
                    dFails, dOff, dLate>>
      /\ dQueue # <<>> /\ dQueue' = Tail(dQueue)
  BY DEF DirectNextFrame, dCaller, dLink, dRequest, dCounters
<1>3. /\ dQueue' \in Seq(BOOLEAN) /\ Len(dQueue') = Len(dQueue) - 1
      /\ \A i \in 1 .. Len(dQueue') : dQueue'[i] = dQueue[i + 1] /\ i + 1 \in 1 .. Len(dQueue)
  BY <1>1, <1>2 DEF DirectShape, QueueTypeOK
<1>4. DirectShape'
  BY <1>1, <1>2, <1>3 DEF DirectShape, WorkerTypeOK, WireTypeOK, QueueTypeOK, ChannelCap, FailuresCounted,
     IdleBefore
<1>5. Honest => Honest'
  BY <1>2, <1>3 DEF Honest, Served, StatusOfThis, ParamsOwed, CopyOwed, AnswerOfThis, OneAnswer, OffersFirst,
     OffersOfThis, Stranded, Unanswered, Unoffered
<1> QED
  BY <1>2, <1>4, <1>5 DEF DirectInv

\* The thread gets to its loop or ends; a wait that loses its connection ends it.
LEMMA ThreadRight ==
  ASSUME DirectInv, DirectSetup \/ DirectLost
  PROVE  DirectInv'
<1>1. DirectShape
  BY DEF DirectInv
<1>2. /\ dGpu' \in 0 .. RenderNodes
      /\ \/ dPc = "setup" /\ dPc' \in {"top", "ended"}
         \/ dPc \in {"params", "copy"} /\ dPc' = "ended"
      /\ UNCHANGED <<dApp, dStop, dSized, dFrame, dWire, dAsked, dFilled, dOffer, dStatus, dVia, dFails, dOff,
                    dLate, dQueue>>
  <2>1. CASE DirectSetup
    BY <1>1, <2>1, Opened DEF DirectSetup, DirectShape, WorkerTypeOK, dCaller, dLink, dRequest, dCounters
  <2>2. CASE DirectLost
    BY <1>1, <2>2 DEF DirectLost, DirectShape, WorkerTypeOK, dCaller, dLink, dRequest, dCounters
  <2> QED
    BY <2>1, <2>2
<1>3. WorkerTypeOK'
  BY <1>1, <1>2 DEF DirectShape, WorkerTypeOK
<1>4. WireTypeOK' /\ QueueTypeOK' /\ FailuresCounted' /\ IdleBefore'
  BY <1>1, <1>2 DEF DirectShape, WireTypeOK, QueueTypeOK, FailuresCounted, IdleBefore
<1>5. Honest => Honest'
  BY <1>2 DEF Honest, Served, StatusOfThis, ParamsOwed, CopyOwed, AnswerOfThis, OneAnswer, OffersFirst,
     OffersOfThis, Stranded, Unanswered, Unoffered
<1> QED
  BY <1>2, <1>3, <1>4, <1>5 DEF DirectInv, DirectShape

\* Between two frames nothing is said and nothing owed of the one before.
LEMMA TopRight ==
  ASSUME DirectInv, DirectTop
  PROVE  DirectInv'
<1>1. DirectShape /\ dPc = "top" /\ UNCHANGED <<dGpu, dSized, dFails, dOff, dLate, dQueue>>
  BY DEF DirectInv, DirectTop, dCounters
<1>2. CASE /\ dPc' = "ended" /\ dStop' = FALSE
           /\ UNCHANGED <<dApp, dFrame, dWire, dAsked, dFilled, dOffer, dStatus, dVia>>
  <2>1. WorkerTypeOK'
    BY <1>1, <1>2 DEF DirectShape, WorkerTypeOK
  <2>2. WireTypeOK' /\ QueueTypeOK' /\ FailuresCounted' /\ IdleBefore'
    BY <1>1, <1>2 DEF DirectShape, WireTypeOK, QueueTypeOK, FailuresCounted, IdleBefore
  <2>3. Honest => Honest'
    BY <1>1, <1>2 DEF Honest, Served, StatusOfThis, ParamsOwed, CopyOwed, AnswerOfThis, OneAnswer, OffersFirst,
     OffersOfThis, Stranded, Unanswered, Unoffered
  <2> QED
    BY <1>1, <2>1, <2>2, <2>3 DEF DirectInv, DirectShape
<1>3. CASE /\ dFrame < MaxFrames /\ dFrame' = dFrame + 1 /\ dPc' = "params"
           /\ dAsked' = dAsked \union {<<dFrame + 1, "params">>}
           /\ dOffer' = {} /\ dVia' = "none" /\ dStatus' = "pending"
           /\ UNCHANGED <<dApp, dStop, dWire, dFilled>>
  <2>1. WorkerTypeOK'
    BY <1>1, <1>3, DirectAssumption DEF DirectShape, WorkerTypeOK
  <2>2. WireTypeOK' /\ QueueTypeOK' /\ IdleBefore'
    BY <1>1, <1>3 DEF DirectShape, WireTypeOK, QueueTypeOK, IdleBefore
  <2>3. FailuresCounted'
    BY <1>1, <1>3 DEF DirectShape, WorkerTypeOK, FailuresCounted
  <2>4. ASSUME Honest PROVE Honest'
    <3>1. StatusOfThis' /\ OffersOfThis' /\ \A i \in 1 .. Len(dQueue') : dQueue'[i] = TRUE
      BY <1>1, <1>3, <2>4 DEF Honest, StatusOfThis, OffersOfThis
    <3>2. Served
      BY <1>1, <2>4 DEF Honest, Stranded
    <3>3. \A f \in 1 .. MaxFrames : <<f, "copy">> \notin dAsked'
      BY <1>1, <1>3, <3>2 DEF Served, CopyOwed
    <3>4. Unanswered' /\ Unoffered'
      BY <1>1, <1>3, <3>2 DEF Served, AnswerOfThis, OffersOfThis, Unanswered, Unoffered
    <3>5. ParamsOwed'
      BY <1>1, <1>3, <3>2, <3>4 DEF Served, ParamsOwed
    <3> QED
      BY <3>1, <3>3, <3>4, <3>5 DEF Honest, Served, CopyOwed, AnswerOfThis, OneAnswer, OffersFirst, Unanswered
  <2> QED
    BY <1>1, <2>1, <2>2, <2>3, <2>4 DEF DirectInv, DirectShape
<1> QED
  BY <1>2, <1>3 DEF DirectTop, StopSeen, Forget, dLink, dRequest, dCaller

-----------------------------------------------------------------------------
\* The parameters heard, a copy asked: the status is pending, as no answer was on the wire.
LEMMA ParamsRight ==
  ASSUME DirectInv, NEW k \in 1 .. 4, DirectHearParams(k)
  PROVE  DirectInv'
<1>1. /\ DirectShape /\ dPc = "params" /\ Dispatch(k)
      /\ UNCHANGED <<dApp, dStop, dGpu, dFrame, dFilled, dLate, dQueue>>
  BY DEF DirectInv, DirectHearParams, dCaller
<1>2. /\ WireTypeOK' /\ Len(dWire') = Len(dWire) - k
      /\ k \in 1 .. Len(dWire) /\ \A i \in 1 .. Len(dWire') : dWire'[i] = dWire[k + i]
      /\ \/ dStatus' = dStatus /\ \A i \in 1 .. k : ~Answers(dWire[i])
         \/ \E i \in 1 .. k : Answers(dWire[i]) /\ dStatus' = dWire[i][2]
      /\ dOffer' \subseteq {"shm", "dmabuf"}
      /\ dOffer' = dOffer \/ \E i \in 1 .. k : Offers(dWire[i])
  BY <1>1, Dispatching DEF DirectShape, WorkerTypeOK
<1>3. /\ dSized' \in BOOLEAN /\ dPc' \in {"params", "copy", "ended"}
      /\ dVia' \in {"none", "shm", "dmabuf"} /\ dOff' \in BOOLEAN
      /\ \/ dAsked' = dAsked
         \/ dPc' = "copy" /\ dAsked' = dAsked \union {<<dFrame, "copy">>}
      /\ dFails' = dFails \/ (dFails' = dFails + 1 /\ dVia' = "shm" /\ dPc' # "params")
  <2>1. CASE dOffer' = {}
    <3>1. dPc' \in {"params", "ended"} /\ UNCHANGED <<dSized, dVia, dFails, dOff, dAsked>>
      BY <2>1 DEF DirectHearParams, dCounters
    <3> QED
      BY <1>1, <3>1 DEF DirectShape, WorkerTypeOK
  <2>2. CASE dOffer' # {}
    <3>1. dSized' = TRUE /\ Prepare(dOffer')
          /\ dAsked' = IF dPc' = "copy" THEN dAsked \union {<<dFrame, "copy">>} ELSE dAsked
      BY <2>2 DEF DirectHearParams
    <3>2. /\ dPc' \in {"copy", "ended"} /\ dVia' \in {"shm", "dmabuf"} /\ dOff' \in BOOLEAN
          /\ dFails' = dFails \/ (dFails' = dFails + 1 /\ dVia' = "shm")
      <4>1. CASE TakeDmabuf(dOffer')
        BY <1>1, <4>1 DEF TakeDmabuf, DirectShape, WorkerTypeOK, dCounters
      <4>2. CASE DmabufRefused(dOffer')
        BY <1>1, <4>2 DEF DmabufRefused, TakeShm
      <4>3. CASE TakeShm(dOffer') /\ UNCHANGED dCounters
        BY <1>1, <4>3 DEF TakeShm, DirectShape, WorkerTypeOK, dCounters
      <4> QED
        BY <3>1, <4>1, <4>2, <4>3 DEF Prepare
    <3> QED
      BY <3>1, <3>2
  <2> QED
    BY <2>1, <2>2
<1>4. dStatus' \in {"pending", "ready", "failed"}
  BY <1>1, <1>2 DEF DirectShape, WorkerTypeOK, Answers
<1>5. dFrame \in 1 .. MaxFrames /\ dFails' \in Nat
  BY <1>1, <1>3, DirectAssumption DEF DirectShape, WorkerTypeOK, FailuresCounted
<1>6. dAsked' \subseteq (1 .. MaxFrames) \X {"params", "copy"}
  BY <1>1, <1>3, <1>5 DEF DirectShape, WorkerTypeOK
<1>7. WorkerTypeOK'
  BY <1>1, <1>2, <1>3, <1>4, <1>5, <1>6 DEF DirectShape, WorkerTypeOK
<1>8. FailuresCounted'
  BY <1>1, <1>3 DEF DirectShape, WorkerTypeOK, FailuresCounted
<1>9. QueueTypeOK' /\ IdleBefore'
  BY <1>1, <1>3 DEF DirectShape, QueueTypeOK, IdleBefore
<1>10. ASSUME Honest PROVE Honest'
  <2>1. \A i \in 1 .. Len(dQueue') : dQueue'[i] = TRUE
    BY <1>1, <1>10 DEF Honest
  <2>2. \A i \in 1 .. Len(dWire') : k + i \in 1 .. Len(dWire) /\ dWire'[i] = dWire[k + i]
    BY <1>1, <1>2 DEF DirectShape, WireTypeOK
  <2>3. k \in 1 .. Len(dWire) /\ \A i \in 1 .. k : i \in 1 .. Len(dWire)
    BY <1>1, <1>2 DEF DirectShape, WireTypeOK
  <2>4. dOffer' = {} => dPc' \in {"params", "ended"} /\ dAsked' = dAsked
    BY DEF DirectHearParams
  <2>5. dOffer' # {} => dPc' \in {"copy", "ended"}
    BY DEF DirectHearParams, Prepare, TakeDmabuf, DmabufRefused, TakeShm
  <2>6. CASE dPc' = "ended"
    BY <2>1, <2>6 DEF Honest
  <2>7. CASE Stranded /\ dPc' # "ended"
    <3>1. dOffer' = {}
      BY <1>2, <2>3, <2>7 DEF Stranded, Unoffered
    <3>2. Unoffered'
      BY <2>2, <2>7 DEF Stranded, Unoffered
    <3> QED
      BY <2>1, <2>4, <2>7, <3>1, <3>2 DEF Honest, Stranded
  <2>8. CASE Served /\ dPc' # "ended"
    <3>1. Unanswered
      BY <1>1, <2>8 DEF Served, AnswerOfThis, Unanswered
    <3>2. Unanswered' /\ dStatus' = "pending"
      <4>1. Unanswered'
        BY <2>2, <3>1 DEF Unanswered
      <4>2. dStatus' = dStatus
        BY <1>2, <2>3, <3>1 DEF Unanswered
      <4> QED
        BY <1>1, <2>8, <4>1, <4>2 DEF Served, StatusOfThis
    <3>3. AnswerOfThis' /\ OneAnswer' /\ OffersFirst'
      BY <3>2 DEF Unanswered, AnswerOfThis, OneAnswer, OffersFirst
    <3>4. \A f \in 1 .. MaxFrames : <<f, "copy">> \notin dAsked
      BY <1>1, <2>8 DEF Served, CopyOwed
    <3>5. CASE dPc' = "params"
      <4>1. dOffer' = {} /\ dAsked' = dAsked
        BY <2>4, <2>5, <3>5
      <4>2. Unoffered => Unoffered'
        BY <2>2 DEF Unoffered
      <4>3. ParamsOwed' /\ CopyOwed' /\ StatusOfThis' /\ OffersOfThis'
        BY <1>1, <2>8, <3>2, <3>4, <3>5, <4>1, <4>2
           DEF Served, ParamsOwed, CopyOwed, StatusOfThis, OffersOfThis
      <4> QED
        BY <2>1, <3>3, <4>3 DEF Honest, Served
    <3>6. CASE dPc' = "copy"
      <4>1. dOffer' # dOffer
        BY <1>1, <2>4, <2>8, <3>6 DEF Served, StatusOfThis
      <4>2. ~Unoffered
        BY <1>2, <2>3, <4>1 DEF Unoffered
      <4>3. \A f \in 1 .. MaxFrames : <<f, "params">> \notin dAsked
        BY <2>8, <4>2 DEF Served, ParamsOwed
      <4>4. ParamsOwed' /\ CopyOwed' /\ StatusOfThis' /\ OffersOfThis'
        BY <1>1, <1>3, <3>2, <3>4, <3>6, <4>3 DEF ParamsOwed, CopyOwed, StatusOfThis, OffersOfThis
      <4> QED
        BY <2>1, <3>3, <4>4 DEF Honest, Served
    <3> QED
      BY <1>3, <2>8, <3>5, <3>6
  <2> QED
    BY <1>1, <1>10, <2>6, <2>7, <2>8 DEF Honest
<1> QED
  BY <1>1, <1>2, <1>7, <1>8, <1>9, <1>10 DEF DirectInv, DirectShape

\* The one answer of the one copy is the one heard: what is delivered was written.
LEMMA CopyRight ==
  ASSUME DirectInv, NEW k \in 1 .. 4, DirectHearCopy(k)
  PROVE  DirectInv'
<1>1. /\ DirectShape /\ dPc = "copy" /\ Dispatch(k)
      /\ UNCHANGED <<dApp, dStop, dGpu, dSized, dFrame, dAsked, dFilled, dVia>>
  BY DEF DirectInv, DirectHearCopy, dCaller
<1>2. /\ WireTypeOK' /\ Len(dWire') = Len(dWire) - k
      /\ k \in 1 .. Len(dWire) /\ \A i \in 1 .. Len(dWire') : dWire'[i] = dWire[k + i]
      /\ \/ dStatus' = dStatus /\ \A i \in 1 .. k : ~Answers(dWire[i])
         \/ \E i \in 1 .. k : Answers(dWire[i]) /\ dStatus' = dWire[i][2]
      /\ dOffer' \subseteq {"shm", "dmabuf"}
  BY <1>1, Dispatching DEF DirectShape, WorkerTypeOK
<1>3. dStatus' \in {"pending", "ready", "failed"}
  BY <1>1, <1>2 DEF DirectShape, WorkerTypeOK, Answers
<1>4. dFails \in Nat /\ dFails <= dFrame /\ (dVia = "dmabuf" => dFails < dFrame) /\ dFrame \in Nat
  BY <1>1, DirectAssumption DEF DirectShape, WorkerTypeOK, FailuresCounted
<1>5. /\ dPc' \in {"copy", "top"} /\ dOff' \in BOOLEAN /\ dLate' \in BOOLEAN /\ (dLate => dLate')
      /\ dFails' \in Nat /\ dFails' <= dFrame /\ (dPc' = "copy" => dFails' = dFails)
      /\ dPc' = "copy" => dStatus' = "pending"
      /\ dPc' = "top" /\ ~dLate' => dStatus' # "pending"
      /\ \/ dQueue' = dQueue
         \/ dStatus' = "ready" /\ Deliver
  <2>1. CASE dStatus' = "pending" /\ UNCHANGED <<dPc, dCounters, dQueue, dLate>>
    BY <1>1, <1>4, <2>1 DEF dCounters, DirectShape, WorkerTypeOK
  <2>2. CASE CopyRefused
    <3>1. dStatus' # "ready" /\ dPc' = "top" /\ dQueue' = dQueue
          /\ dLate' = (dLate \/ dStatus' = "pending")
      BY <2>2 DEF CopyRefused
    <3>2. dLate' \in BOOLEAN /\ (dLate => dLate') /\ (dStatus' = "pending" => dLate')
      BY <3>1
    <3>3. CASE dVia = "dmabuf"
      <4>1. dFails' = dFails + 1 /\ dOff' = (dOff \/ dFails' >= FailureThreshold)
        BY <2>2, <3>3 DEF CopyRefused
      <4>2. dOff' \in BOOLEAN
        BY <4>1
      <4> QED
        BY <1>4, <3>1, <3>2, <3>3, <4>1, <4>2
    <3>4. CASE dVia # "dmabuf"
      BY <1>1, <1>4, <2>2, <3>1, <3>2, <3>4 DEF CopyRefused, dCounters, DirectShape, WorkerTypeOK
    <3> QED
      BY <3>3, <3>4
  <2>3. CASE CopyReady
    BY <1>1, <1>4, <2>3 DEF CopyReady, ReadbackFails, dCounters, DirectShape, WorkerTypeOK
  <2> QED
    BY <2>1, <2>2, <2>3 DEF DirectHearCopy
<1>6. WorkerTypeOK'
  BY <1>1, <1>2, <1>3, <1>5 DEF DirectShape, WorkerTypeOK
<1>7. FailuresCounted' /\ IdleBefore'
  BY <1>1, <1>4, <1>5 DEF DirectShape, FailuresCounted, IdleBefore
<1>8. QueueTypeOK' /\ \A i \in 1 .. Len(dQueue') :
         \/ i \in 1 .. Len(dQueue) /\ dQueue'[i] = dQueue[i]
         \/ dStatus' = "ready" /\ (dFrame \in dFilled => dQueue'[i] = TRUE)
  <2>1. dQueue \in Seq(BOOLEAN) /\ Len(dQueue) \in Nat /\ Len(dQueue) <= ChannelCap
    BY <1>1 DEF DirectShape, QueueTypeOK
  <2>2. CASE dQueue' = dQueue
    <3>1. QueueTypeOK'
      BY <1>1, <2>2 DEF DirectShape, QueueTypeOK, ChannelCap
    <3> QED
      BY <2>2, <3>1
  <2>3. CASE dStatus' = "ready" /\ Len(dQueue) < ChannelCap /\ dQueue' = Append(dQueue, dFrame \in dFilled)
    <3> DEFINE said == dFrame \in dFilled
    <3>1. said \in BOOLEAN
      OBVIOUS
    <3> HIDE DEF said
    <3>2. dQueue' = Append(dQueue, said)
      BY <2>3 DEF said
    <3>3. /\ dQueue' \in Seq(BOOLEAN) /\ Len(dQueue') = Len(dQueue) + 1
          /\ \A i \in 1 .. Len(dQueue) : dQueue'[i] = dQueue[i]
          /\ dQueue'[Len(dQueue) + 1] = said
      BY <2>1, <3>1, <3>2
    <3>4. QueueTypeOK'
      BY <2>1, <2>3, <3>3 DEF QueueTypeOK, ChannelCap
    <3>5. ASSUME NEW i \in 1 .. Len(dQueue') PROVE i \in 1 .. Len(dQueue) \/ i = Len(dQueue) + 1
      BY <2>1, <3>3
    <3> QED
      BY <2>3, <3>3, <3>4, <3>5 DEF said
  <2> QED
    BY <1>5, <2>2, <2>3 DEF Deliver
<1>9. ASSUME Honest, ~dLate' PROVE Honest'
  <2>1. Served
    BY <1>1, <1>9 DEF Honest, Stranded
  <2>2. StatusOfThis'
    BY <1>5 DEF StatusOfThis
  <2>3. \A i \in 1 .. Len(dWire') :
          k + i \in 1 .. Len(dWire) /\ dWire'[i] = dWire[k + i] /\ i \in Nat
    BY <1>1, <1>2 DEF DirectShape, WireTypeOK
  <2>4. k \in Nat /\ Len(dWire) \in Nat /\ \A i \in 1 .. k : i \in 1 .. Len(dWire) /\ i < k + 1
    BY <1>1, <1>2 DEF DirectShape, WireTypeOK
  <2>5. \A f \in 1 .. MaxFrames : <<f, "params">> \notin dAsked
    BY <1>1, <2>1 DEF Served, ParamsOwed
  <2>6. ParamsOwed'
    BY <1>1, <2>5 DEF ParamsOwed
  <2>7. CASE dPc' = "copy"
    <3>1. AnswerOfThis'
      BY <1>1, <2>1, <2>3, <2>7 DEF Served, AnswerOfThis
    <3>2. OneAnswer'
      <4> SUFFICES ASSUME NEW i \in 1 .. Len(dWire'), NEW j \in 1 .. Len(dWire'),
                          Answers(dWire'[i]), Answers(dWire'[j])
                   PROVE  i = j
        BY DEF OneAnswer
      <4>1. k + i = k + j
        BY <2>1, <2>3 DEF Served, OneAnswer
      <4> QED
        BY <4>1, <2>3, <2>4
    <3>3. OffersFirst'
      <4> SUFFICES ASSUME NEW i \in 1 .. Len(dWire'), NEW j \in 1 .. Len(dWire'),
                          Answers(dWire'[i]), Offers(dWire'[j])
                   PROVE  j < i
        BY DEF OffersFirst
      <4>1. k + j < k + i
        BY <2>1, <2>3 DEF Served, OffersFirst
      <4> QED
        BY <4>1, <2>3, <2>4
    <3>4. CopyOwed' /\ OffersOfThis'
      BY <1>1, <2>1, <2>7 DEF Served, CopyOwed, OffersOfThis
    <3>5. \A i \in 1 .. Len(dQueue') : dQueue'[i] = TRUE
      BY <1>5, <1>8, <1>9, <2>7 DEF Honest
    <3> QED
      BY <2>2, <2>6, <3>1, <3>2, <3>3, <3>4, <3>5 DEF Honest, Served
  <2>8. CASE dPc' = "top"
    <3>1. dStatus = "pending" /\ dStatus' # "pending"
      BY <1>1, <1>5, <1>9, <2>1, <2>8 DEF Served, StatusOfThis
    <3>2. PICK i \in 1 .. k : Answers(dWire[i]) /\ dStatus' = dWire[i][2]
      BY <1>2, <3>1
    <3>3. i \in 1 .. Len(dWire) /\ i < k + 1 /\ i \in Nat
      BY <2>4
    <3>4. /\ <<dFrame, "copy">> \notin dAsked
          /\ dStatus' = "ready" => dFrame \in dFilled
      BY <2>1, <3>2, <3>3 DEF Served, AnswerOfThis
    <3>5. ASSUME NEW j \in 1 .. Len(dWire') PROVE ~Answers(dWire'[j]) /\ ~Offers(dWire'[j])
      <4>1. k + j \in 1 .. Len(dWire) /\ dWire'[j] = dWire[k + j] /\ i # k + j /\ ~(k + j < i)
        BY <2>3, <2>4, <3>3
      <4> QED
        BY <2>1, <3>2, <3>3, <4>1 DEF Served, OneAnswer, OffersFirst
    <3>6. CopyOwed'
      BY <1>1, <2>1, <2>8, <3>4 DEF Served, CopyOwed
    <3>7. \A j \in 1 .. Len(dQueue') : dQueue'[j] = TRUE
      BY <1>8, <1>9, <3>4 DEF Honest
    <3>8. AnswerOfThis' /\ OneAnswer' /\ OffersFirst' /\ OffersOfThis'
      BY <3>5 DEF AnswerOfThis, OneAnswer, OffersFirst, OffersOfThis, Unoffered
    <3> QED
      BY <2>2, <2>6, <3>6, <3>7, <3>8 DEF Honest, Served
  <2> QED
    BY <1>5, <2>7, <2>8
<1> QED
  BY <1>2, <1>5, <1>6, <1>7, <1>8, <1>9 DEF DirectInv, DirectShape

-----------------------------------------------------------------------------
\* What joins the wire is at its end.
Among(event, more) == \E j \in 1 .. Len(more) : event = more[j]

LEMMA CopyWireGrows ==
  ASSUME NEW wire \in Seq(CopyEvents), NEW more \in Seq(CopyEvents), NEW longer, longer = wire \o more
  PROVE  /\ longer \in Seq(CopyEvents)
         /\ \A i \in 1 .. Len(longer) : (i \in 1 .. Len(wire) /\ longer[i] = wire[i]) \/ Among(longer[i], more)
<1>1. longer \in Seq(CopyEvents) /\ Len(longer) = Len(wire) + Len(more)
      /\ Len(wire) \in Nat /\ Len(more) \in Nat
  OBVIOUS
<1>2. \A i \in 1 .. Len(wire) : longer[i] = wire[i]
  OBVIOUS
<1>3. \A i \in 1 .. Len(more) : longer[Len(wire) + i] = more[i]
  OBVIOUS
<1>4. ASSUME NEW i \in 1 .. Len(longer), i \notin 1 .. Len(wire)
      PROVE  Among(longer[i], more)
  <2> DEFINE j == i - Len(wire)
  <2>1. j \in 1 .. Len(more) /\ Len(wire) + j = i
    BY <1>1, <1>4
  <2> HIDE DEF j
  <2>2. longer[i] = more[j]
    BY <1>3, <2>1
  <2> QED
    BY <2>1, <2>2 DEF Among
<1> QED
  BY <1>1, <1>2, <1>4

\* Offers, a frame failed in their stead, and whatever else happens to an output, say nothing of
\* a copy.
LEMMA OffersRight ==
  ASSUME DirectInv, (\E f \in 1 .. MaxFrames : CompositorOffers(f)) \/ CompositorOther
  PROVE  DirectInv'
<1>1. DirectShape
  BY DEF DirectInv
<1>2. UNCHANGED <<dApp, dStop, dPc, dGpu, dSized, dFrame, dFilled, dOffer, dStatus, dVia, dFails, dOff, dLate,
                  dQueue>>
  BY DEF CompositorOffers, CompositorOther, dCaller, dRequest, dCounters
<1>3. CASE CompositorOther
  <2> DEFINE more == <<<<dFrame, "other">>>>
  <2>1. dFrame \in 1 .. MaxFrames
    BY <1>1, <1>3 DEF CompositorOther, DirectShape, WorkerTypeOK, FailuresCounted
  <2>2. more \in Seq(CopyEvents) /\ Len(more) = 1 /\ more[1] = <<dFrame, "other">>
    BY <2>1 DEF CopyEvents
  <2>3. dWire' = dWire \o more /\ dAsked' = dAsked
    BY <1>1, <1>3, <2>2 DEF CompositorOther, DirectShape, WireTypeOK
  <2> HIDE DEF more
  <2>4. /\ WireTypeOK'
        /\ \A i \in 1 .. Len(dWire') :
             (i \in 1 .. Len(dWire) /\ dWire'[i] = dWire[i]) \/ Among(dWire'[i], more)
    BY <1>1, <2>2, <2>3, CopyWireGrows DEF DirectShape, WireTypeOK
  <2>5. \A j \in 1 .. Len(more) : ~Answers(more[j]) /\ ~Offers(more[j])
    BY <2>2 DEF Answers, Offers
  <2>6. ASSUME NEW i \in 1 .. Len(dWire'), Answers(dWire'[i]) \/ Offers(dWire'[i])
        PROVE  i \in 1 .. Len(dWire) /\ dWire'[i] = dWire[i]
    BY <2>4, <2>5, <2>6 DEF Among
  <2>7. WorkerTypeOK' /\ QueueTypeOK' /\ FailuresCounted' /\ IdleBefore'
    BY <1>1, <1>2, <2>3 DEF DirectShape, WorkerTypeOK, QueueTypeOK, FailuresCounted, IdleBefore
  <2>8. ASSUME Honest PROVE Honest'
    <3>1. (Unoffered => Unoffered') /\ (Unanswered => Unanswered')
      BY <2>6 DEF Unoffered, Unanswered
    <3>2. Stranded => Stranded'
      BY <1>2, <2>3, <3>1 DEF Stranded
    <3>3. StatusOfThis => StatusOfThis'
      BY <1>2 DEF StatusOfThis
    <3>4. CopyOwed => CopyOwed'
      BY <1>2, <2>3 DEF CopyOwed
    <3>5. ParamsOwed => ParamsOwed'
      BY <1>2, <2>3, <3>1 DEF ParamsOwed
    <3>6. AnswerOfThis => AnswerOfThis'
      BY <1>2, <2>3, <2>6 DEF AnswerOfThis
    <3>7. OneAnswer => OneAnswer'
      BY <2>6 DEF OneAnswer
    <3>8. OffersFirst => OffersFirst'
      BY <2>6 DEF OffersFirst
    <3>9. OffersOfThis => OffersOfThis'
      BY <1>2, <3>1 DEF OffersOfThis
    <3> QED
      BY <1>2, <2>8, <3>2, <3>3, <3>4, <3>5, <3>6, <3>7, <3>8, <3>9 DEF Honest, Served
  <2> QED
    BY <1>2, <2>4, <2>7, <2>8 DEF DirectInv, DirectShape
<1>4. ASSUME NEW f \in 1 .. MaxFrames, CompositorOffers(f) PROVE DirectInv'
  <2>1. PICK said \in {<<"shm">>, <<"shm", "dmabuf">>, <<"failed">>} :
          dWire' = dWire \o [i \in DOMAIN said |-> <<f, said[i]>>]
    BY <1>4 DEF CompositorOffers
  <2>2. <<f, "params">> \in dAsked /\ dAsked' = dAsked \ {<<f, "params">>}
    BY <1>4 DEF CompositorOffers
  <2> DEFINE more == [i \in DOMAIN said |-> <<f, said[i]>>]
  <2>3. /\ said \in Seq({"shm", "dmabuf", "failed"})
        /\ \/ \A i \in 1 .. Len(said) : said[i] \in {"shm", "dmabuf"}
           \/ \A i \in 1 .. Len(said) : said[i] = "failed"
    <3>1. CASE said = <<"shm">>
      <4>1. said \in Seq({"shm", "dmabuf", "failed"}) /\ Len(said) = 1 /\ said[1] = "shm"
        BY <3>1
      <4> QED
        BY <4>1
    <3>2. CASE said = <<"shm", "dmabuf">>
      <4>1. /\ said \in Seq({"shm", "dmabuf", "failed"}) /\ Len(said) = 2
            /\ said[1] = "shm" /\ said[2] = "dmabuf"
        BY <3>2
      <4> QED
        BY <4>1
    <3>3. CASE said = <<"failed">>
      <4>1. said \in Seq({"shm", "dmabuf", "failed"}) /\ Len(said) = 1 /\ said[1] = "failed"
        BY <3>3
      <4> QED
        BY <4>1
    <3> QED
      BY <3>1, <3>2, <3>3
  <2>4. more \in Seq(CopyEvents) /\ Len(more) = Len(said)
        /\ \A i \in 1 .. Len(more) : more[i] = <<f, said[i]>>
    BY <2>3 DEF CopyEvents
  <2>5. dWire' = dWire \o more
    BY <2>1
  <2> HIDE DEF more
  <2>6. /\ WireTypeOK'
        /\ \A i \in 1 .. Len(dWire') :
             (i \in 1 .. Len(dWire) /\ dWire'[i] = dWire[i]) \/ Among(dWire'[i], more)
    BY <1>1, <2>4, <2>5, CopyWireGrows DEF DirectShape, WireTypeOK
  <2>7. \/ \A j \in 1 .. Len(more) : ~Answers(more[j])
        \/ \A j \in 1 .. Len(more) : ~Offers(more[j])
    BY <2>3, <2>4 DEF Answers, Offers
  <2>8. WorkerTypeOK' /\ QueueTypeOK' /\ FailuresCounted' /\ IdleBefore'
    BY <1>1, <1>2, <2>2 DEF DirectShape, WorkerTypeOK, QueueTypeOK, FailuresCounted, IdleBefore
  <2>9. ASSUME Honest, dPc # "ended" PROVE Stranded' \/ Served'
    <3>1. Served
      BY <2>2, <2>9 DEF Honest, Stranded
    <3>2. f = dFrame /\ dPc = "params" /\ Unoffered /\ Unanswered
      BY <2>2, <3>1 DEF Served, ParamsOwed
    <3>3. dAsked' = {}
      <4> SUFFICES ASSUME NEW ask \in dAsked, ask # <<f, "params">> PROVE FALSE
        BY <2>2
      <4>1. PICK g \in 1 .. MaxFrames, kind \in {"params", "copy"} : ask = <<g, kind>>
        BY <1>1 DEF DirectShape, WorkerTypeOK
      <4>2. CASE kind = "params"
        BY <3>1, <3>2, <4>1, <4>2 DEF Served, ParamsOwed
      <4>3. CASE kind = "copy"
        BY <3>1, <3>2, <4>1, <4>3 DEF Served, CopyOwed
      <4> QED
        BY <4>1, <4>2, <4>3
    <3>4. CASE \A j \in 1 .. Len(more) : ~Answers(more[j])
      <4>1. Unanswered'
        BY <2>6, <3>2, <3>4 DEF Unanswered, Among
      <4>2. AnswerOfThis' /\ OneAnswer' /\ OffersFirst'
        BY <4>1 DEF Unanswered, AnswerOfThis, OneAnswer, OffersFirst
      <4>3. ParamsOwed' /\ CopyOwed' /\ OffersOfThis' /\ StatusOfThis'
        BY <1>2, <3>1, <3>2, <3>3 DEF Served, ParamsOwed, CopyOwed, OffersOfThis, StatusOfThis
      <4> QED
        BY <4>2, <4>3 DEF Served
    <3>5. CASE \A j \in 1 .. Len(more) : ~Offers(more[j])
      <4>1. Unoffered'
        BY <2>6, <3>2, <3>5 DEF Unoffered, Among
      <4> QED
        BY <1>2, <3>1, <3>2, <3>3, <4>1 DEF Served, StatusOfThis, Stranded
    <3> QED
      BY <2>7, <3>4, <3>5
  <2>10. Honest => Honest'
    BY <1>2, <2>9 DEF Honest
  <2> QED
    BY <1>2, <2>6, <2>8, <2>10 DEF DirectInv, DirectShape
<1> QED
  BY <1>3, <1>4

\* A copy is answered once, while its request is the one waited for or the worker has ended.
LEMMA CopiesRight ==
  ASSUME DirectInv, NEW f \in 1 .. MaxFrames, CompositorCopies(f)
  PROVE  DirectInv'
<1>1. DirectShape /\ <<f, "copy">> \in dAsked /\ dAsked' = dAsked \ {<<f, "copy">>}
      /\ UNCHANGED <<dApp, dStop, dPc, dGpu, dSized, dFrame, dOffer, dStatus, dVia, dFails, dOff, dLate,
                     dQueue>>
  BY DEF DirectInv, CompositorCopies, dCaller, dRequest, dCounters
<1>2. PICK answer \in {<<f, "ready">>, <<f, "failed">>} :
        /\ dWire' = Append(dWire, answer)
        /\ \/ answer = <<f, "ready">> /\ dFilled' = dFilled \union {f}
           \/ answer = <<f, "failed">> /\ dFilled' = dFilled
  BY DEF CompositorCopies
<1>3. answer \in CopyEvents /\ Answers(answer) /\ answer[1] = f /\ (answer[2] = "ready" => f \in dFilled')
  BY <1>2 DEF CopyEvents, Answers
<1>4. WireTypeOK' /\ Len(dWire') = Len(dWire) + 1 /\ Len(dWire) \in Nat
      /\ (\A i \in 1 .. Len(dWire) : dWire'[i] = dWire[i]) /\ dWire'[Len(dWire) + 1] = answer
  BY <1>1, <1>2, <1>3 DEF DirectShape, WireTypeOK
<1>5. WorkerTypeOK' /\ QueueTypeOK' /\ FailuresCounted' /\ IdleBefore'
  <2>1. dFilled' = dFilled \/ dFilled' = dFilled \union {f}
    BY <1>2
  <2>2. dFilled' \subseteq 1 .. MaxFrames /\ dAsked' \subseteq (1 .. MaxFrames) \X {"params", "copy"}
    BY <1>1, <2>1 DEF DirectShape, WorkerTypeOK
  <2>3. WorkerTypeOK'
    BY <1>1, <2>2 DEF DirectShape, WorkerTypeOK
  <2> QED
    BY <1>1, <2>3 DEF DirectShape, QueueTypeOK, FailuresCounted, IdleBefore
<1>6. ASSUME Honest, dPc # "ended" PROVE Served'
  <2>1. Served
    BY <1>1, <1>6 DEF Honest, Stranded
  <2>2. f = dFrame /\ dPc = "copy"
    BY <1>1, <2>1 DEF Served, CopyOwed
  <2>3. CopyOwed' /\ StatusOfThis' /\ OffersOfThis'
    BY <1>1, <2>1, <2>2 DEF Served, CopyOwed, StatusOfThis, OffersOfThis
  <2>4. \A i \in 1 .. Len(dWire) : ~Answers(dWire[i])
    BY <1>1, <2>1, <2>2 DEF Served, AnswerOfThis
  <2>5. \A i \in 1 .. Len(dWire') : Answers(dWire'[i]) => i = Len(dWire) + 1
    <3> SUFFICES ASSUME NEW i \in 1 .. Len(dWire'), i # Len(dWire) + 1
                 PROVE  ~Answers(dWire'[i])
      OBVIOUS
    <3>1. i \in 1 .. Len(dWire)
      BY <1>4
    <3> QED
      BY <1>4, <2>4, <3>1
  <2>6. OneAnswer'
    BY <2>5 DEF OneAnswer
  <2>7. AnswerOfThis'
    BY <1>1, <1>3, <1>4, <2>2, <2>5 DEF AnswerOfThis
  <2>8. OffersFirst'
    <3> SUFFICES ASSUME NEW i \in 1 .. Len(dWire'), NEW j \in 1 .. Len(dWire'),
                        Answers(dWire'[i]), Offers(dWire'[j])
                 PROVE  j < i
      BY DEF OffersFirst
    <3>1. i = Len(dWire) + 1 /\ dWire'[i] = answer
      BY <1>4, <2>5
    <3>2. j # i
      BY <1>3, <3>1 DEF Answers, Offers
    <3> QED
      BY <1>4, <3>1, <3>2
  <2>9. ParamsOwed'
    BY <1>1, <2>1, <2>2 DEF Served, ParamsOwed
  <2> QED
    BY <2>3, <2>6, <2>7, <2>8, <2>9 DEF Served
<1>7. Honest => Honest'
  BY <1>1, <1>6 DEF Honest
<1> QED
  BY <1>1, <1>4, <1>5, <1>7 DEF DirectInv, DirectShape

LEMMA DirectStep == DirectInv /\ [DirectNext]_directVars => DirectInv'
<1> SUFFICES ASSUME DirectInv, [DirectNext]_directVars PROVE DirectInv'
  OBVIOUS
<1>1. CASE UNCHANGED directVars
  <2>1. UNCHANGED <<dApp, dStop, dPc, dGpu, dSized, dFrame, dWire, dAsked, dFilled, dOffer, dStatus, dVia,
                    dFails, dOff, dLate, dQueue>>
    BY <1>1 DEF directVars
  <2>2. DirectShape => DirectShape'
    BY <2>1 DEF DirectShape, WorkerTypeOK, WireTypeOK, QueueTypeOK, FailuresCounted, IdleBefore
  <2>3. Honest => Honest'
    BY <2>1 DEF Honest, Served, StatusOfThis, ParamsOwed, CopyOwed, AnswerOfThis, OneAnswer, OffersFirst,
     OffersOfThis, Stranded, Unanswered, Unoffered
  <2> QED
    BY <2>1, <2>2, <2>3 DEF DirectInv
<1> QED
  BY <1>1, CallerRight, NextFrameRight, ThreadRight, TopRight, ParamsRight, CopyRight, OffersRight,
     CopiesRight DEF DirectNext

LEMMA DirectAlways == DirectSpec => []DirectInv
  BY DirectInitially, DirectStep, PTL DEF DirectSpec

\* The capture's state keeps its shape for every number of frames and render nodes.
THEOREM DirectTypes == DirectSpec => []DirectTypeOK
<1>1. DirectInv => DirectTypeOK
  BY ShapeTypes DEF DirectInv
<1> QED
  BY <1>1, DirectAlways, PTL

\* A frame the worker hands on was written by the compositor for that request, however late its
\* answers come and whichever buffer path is in use, except after a late answer of an earlier copy
\* was taken for this one's.
THEOREM DeliveredIsWritten == DirectSpec => []OnlyLateCopiesLie
<1>1. DirectInv => OnlyLateCopiesLie
  BY DEF DirectInv, DirectShape, QueueTypeOK, Honest, OnlyLateCopiesLie
<1> QED
  BY <1>1, DirectAlways, PTL

-----------------------------------------------------------------------------
\* The PipeWire capture.

\* A readback is under way only while the capture runs, and holds its frame to the end.
PipeShape ==
  /\ pApp \in {"off", "portal", "running", "stopping", "stopped", "failed"}
  /\ pLoop \in {"none", "running", "ended"} /\ pErrors \in BOOLEAN
  /\ pSize \in 0 .. Sizes /\ pPool \in 0 .. MaxPools /\ pDrawn \in 0 .. MaxDrawn
  /\ pPixels \in [Buffers -> 0 .. MaxDrawn] /\ pShown \in 0 .. MaxDrawn
  /\ pStep \in {"idle", "importing", "copying"}
  /\ pRing \in 1 .. RingDepth /\ pStaging \in [1 .. RingDepth -> 0 .. Sizes]
  /\ pSignalled \subseteq 1 .. RingDepth /\ pLock \in BOOLEAN
ReadsWhatItHolds ==
  /\ pStep # "idle" => pJob # <<>>
  /\ pApp # "running" => pStep = "idle" /\ pJob = <<>>
OneFrame(queue) == queue \in Seq(Frame) /\ Len(queue) <= 1
PipeInv == PipeShape /\ ReadsWhatItHolds /\ OneFrame(pChannel) /\ OneFrame(pJob)

LEMMA NoFrame == OneFrame(<<>>)
  BY DEF OneFrame

LEMMA PipeInvTypes == PipeInv => PipeTypeOK
  BY DEF PipeInv, PipeShape, OneFrame, PipeTypeOK

LEMMA Zeros ==
  /\ 0 \in 0 .. Sizes /\ 0 \in 0 .. MaxPools /\ 0 \in 0 .. MaxDrawn
  /\ RingDepth \in Nat /\ 1 \in 1 .. RingDepth
  BY PipeWireAssumption DEF RingDepth

LEMMA PipeInitially == PipeInit => PipeInv
<1> SUFFICES ASSUME PipeInit PROVE PipeInv
  OBVIOUS
<1>2. PipeShape
  <2>1. pPixels \in [Buffers -> 0 .. MaxDrawn] /\ pStaging \in [1 .. RingDepth -> 0 .. Sizes]
    BY ONLY PipeInit, Zeros DEF PipeInit
  <2>2. pSignalled \subseteq 1 .. RingDepth /\ pLock \in BOOLEAN /\ pErrors \in BOOLEAN
    BY DEF PipeInit
  <2> QED
    BY ONLY PipeInit, Zeros, <2>1, <2>2 DEF PipeInit, PipeShape
<1> QED
  BY <1>2, NoFrame DEF PipeInit, PipeInv, ReadsWhatItHolds

\* A job, or a frame in the channel, is a frame.
LEMMA TheFrame ==
  ASSUME NEW q, OneFrame(q), q # <<>>
  PROVE  q[1] \in Frame /\ q[1].size \in 1 .. Sizes /\ q[1].n \in 1 .. MaxDrawn /\ q[1].buf \in Buffers
<1>1. q[1] \in Frame
  BY DEF OneFrame
<1> QED
  BY <1>1 DEF Frame

LEMMA PipeStep == PipeInv /\ [PipeNext]_pipeVars => PipeInv'
<1> SUFFICES ASSUME PipeInv, [PipeNext]_pipeVars PROVE PipeInv'
  OBVIOUS
<1> USE PipeWireAssumption
<1>1. CASE PipeStart \/ PortalAnswers \/ LoopFails \/ PipeStop \/ UNCHANGED pipeVars
  <2>1. UNCHANGED <<pPool, pDrawn, pPixels, pChannel, pJob, pStep, pShown, pRing, pStaging, pSignalled, pLock>>
    BY <1>1 DEF PipeStart, PortalAnswers, LoopFails, PipeStop, pipeVars, capture, screen, reader, importer
  <2>2. /\ pApp' \in {"off", "portal", "running", "stopping", "stopped", "failed"}
        /\ pLoop' \in {"none", "running", "ended"} /\ pErrors' \in BOOLEAN /\ pSize' \in 0 .. Sizes
        /\ pApp' # "running" => pStep = "idle" /\ pJob = <<>>
    <3>1. PipeShape /\ ReadsWhatItHolds
      BY DEF PipeInv
    <3>2. CASE PipeStart
      BY ONLY <3>1, <3>2, Zeros DEF PipeShape, ReadsWhatItHolds, PipeStart
    <3>3. CASE PortalAnswers \/ LoopFails \/ PipeStop \/ UNCHANGED pipeVars
      BY ONLY <3>1, <3>3 DEF PipeShape, ReadsWhatItHolds, PortalAnswers, LoopFails, PipeStop, pipeVars, capture, screen
    <3> QED
      BY <1>1, <3>2, <3>3
  <2> QED
    BY <2>1, <2>2 DEF PipeInv, PipeShape, ReadsWhatItHolds
<1>2. ASSUME NEW size \in 1 .. Sizes, FormatChanges(size) PROVE PipeInv'
  <2>1. pPool' \in 0 .. MaxPools /\ pSize' \in 0 .. Sizes /\ pPixels' \in [Buffers -> 0 .. MaxDrawn]
    BY <1>2 DEF FormatChanges, PipeInv, PipeShape, ReadsWhatItHolds
  <2> QED
    BY <1>2, <2>1 DEF FormatChanges, PipeInv, PipeShape, ReadsWhatItHolds, capture, reader, importer
<1>3. ASSUME NEW b \in Buffers, Process(b) PROVE PipeInv'
  <2>1. pDrawn' \in 0 .. MaxDrawn /\ pDrawn + 1 \in 1 .. MaxDrawn /\ pPixels' \in [Buffers -> 0 .. MaxDrawn]
    BY <1>3 DEF Process, PipeInv, PipeShape, ReadsWhatItHolds
  <2>2. \A plane \in Planes : FrameOf(plane, b) \in Frame
    BY <1>3, <2>1 DEF Process, PipeInv, PipeShape, ReadsWhatItHolds, FrameOf, Frame
  <2>3. OneFrame(pChannel)'
    <3>1. \A f \in Frame : OneFrame(Offered(f))
      <4>1. \A f \in Frame : OneFrame(<<f>>)
        BY DEF OneFrame
      <4> QED
        BY <4>1 DEF Offered, PipeInv
    <3>2. pChannel' = pChannel \/ \E plane \in Planes : pChannel' = Offered(FrameOf(plane, b))
      BY <1>3 DEF Process
    <3>3. OneFrame(pChannel')
      BY <2>2, <3>1, <3>2 DEF PipeInv
    <3> QED
      BY <3>3
  <2> QED
    BY <1>3, <2>1, <2>3 DEF Process, PipeInv, PipeShape, ReadsWhatItHolds, capture, reader, importer
<1>4. CASE NextFrame
  <2>1. pChannel # <<>> => pChannel[1].n \in 0 .. MaxDrawn
    BY TheFrame DEF PipeInv
  <2> QED
    BY <1>4, <2>1, NoFrame DEF NextFrame, PipeInv, PipeShape, ReadsWhatItHolds, screen, reader, importer
<1>5. CASE ImportFrame
  BY <1>5, NoFrame DEF ImportFrame, PipeInv, PipeShape, ReadsWhatItHolds, screen
<1>6. CASE SubmitCopy
  <2>1. pJob[1].size \in 0 .. Sizes
    BY <1>6, TheFrame DEF SubmitCopy, PipeInv, ReadsWhatItHolds
  <2>2. pStaging' \in [1 .. RingDepth -> 0 .. Sizes]
    BY <1>6, <2>1 DEF SubmitCopy, PipeInv, PipeShape, ReadsWhatItHolds
  <2> QED
    BY <1>6, <2>2 DEF SubmitCopy, PipeInv, PipeShape, ReadsWhatItHolds, capture, screen
<1>7. CASE CopyDone
  <2>1. pShown' \in 0 .. MaxDrawn
    BY <1>7, TheFrame DEF CopyDone, ImageFor, BehindFd, PipeInv, PipeShape, ReadsWhatItHolds
  <2>2. pRing' \in 1 .. RingDepth /\ pStep' = "idle" /\ pJob' = <<>> /\ pLock' = FALSE
    BY <1>7 DEF CopyDone, SlotLeft, RingDepth, PipeInv, PipeShape, ReadsWhatItHolds
  <2> QED
    BY <1>7, <2>1, <2>2, NoFrame DEF CopyDone, PipeInv, PipeShape, ReadsWhatItHolds, capture, screen
<1>8. CASE ImportFails
  <2>1. pRing' \in 1 .. RingDepth /\ pStep' = "idle" /\ pJob' = <<>> /\ pLock' = FALSE
    BY <1>8 DEF ImportFails, SlotLeft, RingDepth, PipeInv, PipeShape, ReadsWhatItHolds
  <2>2. pStaging' \in [1 .. RingDepth -> 0 .. Sizes]
    BY <1>8 DEF ImportFails, PipeInv, PipeShape, ReadsWhatItHolds
  <2> QED
    BY <1>8, <2>1, <2>2, NoFrame DEF ImportFails, PipeInv, PipeShape, ReadsWhatItHolds, screen
<1>9. CASE PipeJoined
  BY <1>9, NoFrame, Zeros DEF PipeJoined, PipeInv, PipeShape, ReadsWhatItHolds, importer
<1> QED
  BY <1>1, <1>2, <1>3, <1>4, <1>5, <1>6, <1>7, <1>8, <1>9 DEF PipeNext

\* The capture, its channel of one frame and the importer's ring keep their shape for every pool of
\* buffers, size, number of frames and of negotiations; whatever is read back is a frame that was
\* captured, into a slot the ring has.
THEOREM PipeTypes == PipeSpec => []PipeTypeOK
  BY PipeInvTypes, PipeInitially, PipeStep, PTL DEF PipeSpec
=============================================================================
