--------------------------- MODULE PatcherProofs ---------------------------
(* Proofs about Patcher, for every set of tools that keeps the discipline   *)
(* of DisciplineAssumption, wherever their hunks, markers and anchors are.  *)
(* PInv is inductive; the safety properties are conjuncts of it or follow   *)
(* from it and one step.                                                    *)
EXTENDS Patcher, TLAPS

LEMMA SeqFacts ==
    ASSUME NEW S, NEW s \in Seq(S)
    PROVE  Len(s) \in Nat /\ DOMAIN s = 1..Len(s) /\ \A i \in DOMAIN s : s[i] \in S
  OBVIOUS

\* What the assumptions say of one step of a tool.
LEMMA StepFacts ==
    ASSUME NEW p \in Patch
    PROVE  /\ Len(Program[p]) \in Nat
           /\ DOMAIN Program[p] = 1..Len(Program[p])
           /\ \A i \in DOMAIN Program[p] :
                 Program[p][i].op \in Op /\ Program[p][i].on \in SUBSET File
           /\ \A f \in Target(p) : \E i \in DOMAIN Program[p] : Writes(p, i) /\ f \in Program[p][i].on
           /\ \A i \in DOMAIN Program[p] : Writes(p, i) => Program[p][i].on \subseteq Target(p)
           /\ Target(p) \subseteq File
  <1>1. Program[p] \in Seq([op : Op, on : SUBSET File])
    BY PatchAssumption
  <1>2. /\ Len(Program[p]) \in Nat
        /\ DOMAIN Program[p] = 1..Len(Program[p])
        /\ \A i \in DOMAIN Program[p] : Program[p][i] \in [op : Op, on : SUBSET File]
    BY ONLY <1>1, SeqFacts
  <1>3. \A i \in DOMAIN Program[p] : Program[p][i].op \in Op /\ Program[p][i].on \in SUBSET File
    BY <1>2
  <1>4. \A f \in Target(p) : \E i \in DOMAIN Program[p] : Writes(p, i) /\ f \in Program[p][i].on
    BY DEF Target, Writes
  <1>5. \A i \in DOMAIN Program[p] : Writes(p, i) => Program[p][i].on \subseteq Target(p)
    BY DEF Target, Writes
  <1>6. Target(p) \subseteq File
    BY <1>3 DEF Target
  <1> QED
    BY <1>2, <1>3, <1>4, <1>5, <1>6

\* What they say of the places in a text.
LEMMA PlaceFacts ==
    /\ \A h \in Hunk \cup Anchor : /\ h.in \in File /\ h.of \in Patch /\ h.at \in Nat
                                   /\ End[h.in] \in Nat /\ h.at < End[h.in]
    /\ \A h \in Hunk : h.in \in Target(h.of)
    /\ Mark \subseteq Hunk
  BY PatchAssumption DEF Place

LEMMA InitInv == PInit => PInv
  <1> SUFFICES ASSUME PInit PROVE PInv
    OBVIOUS
  <1> USE DEF PInit
  <1>1. PTypeOK
    BY PatchAssumption DEF PTypeOK, NoEdits
  <1>2. \A h \in Hunk : edits[h] = 0
    BY DEF NoEdits
  <1>3. RunningInv /\ ProgressInv /\ SuccessMeansApplied /\ ReportMeansApplied
    BY DEF RunningInv, ProgressInv, SuccessMeansApplied, ReportMeansApplied
  <1>4. UptoInv /\ OrderInv /\ AppliedAtMostOnce /\ PrerequisitesFirst
    BY <1>2 DEF UptoInv, OrderInv, AppliedAtMostOnce, PrerequisitesFirst
  <1> QED
    BY <1>1, <1>3, <1>4 DEF PInv

-----------------------------------------------------------------------------
\* Steps that leave the files alone keep everything that is said of them.
LEMMA FilesKept ==
    ASSUME PInv, UNCHANGED <<shape, edits, kept>>
    PROVE  /\ UptoInv' /\ OrderInv' /\ AppliedAtMostOnce' /\ PrerequisitesFirst'
           /\ \A h \in Hunk : Written(h)' <=> Written(h)
  BY DEF PInv, UptoInv, OrderInv, AppliedAtMostOnce, Noticed, Whole, PrerequisitesFirst, Written

LEMMA InvokeInv ==
    ASSUME PInv, NEW p \in Patch, Invoke(p)
    PROVE  PInv'
  <1> USE DEF Invoke
  <1>1. UptoInv' /\ OrderInv' /\ AppliedAtMostOnce' /\ PrerequisitesFirst'
    BY FilesKept
  <1>2. PTypeOK' /\ RunningInv'
    BY StepFacts DEF PInv, PTypeOK, RunningInv
  <1>3. ProgressInv'
    BY StepFacts DEF ProgressInv
  <1>4. SuccessMeansApplied' /\ ReportMeansApplied'
    BY PatchAssumption DEF PInv, PTypeOK, SuccessMeansApplied, ReportMeansApplied, Written
  <1> QED
    BY <1>1, <1>2, <1>3, <1>4 DEF PInv

\* A tool that exits with the files as they are, successfully only if it may.
LEMMA ExitInv ==
    ASSUME PInv, tool # Idle, NEW s \in {"ok", "refused", "interrupted"}, Exit(s),
           UNCHANGED <<shape, edits, kept, report>>,
           s = "ok" => \A h \in Hunk : h.of = tool => Written(h)
    PROVE  PInv'
  <1> USE DEF Exit
  <1>1. UptoInv' /\ OrderInv' /\ AppliedAtMostOnce' /\ PrerequisitesFirst'
    BY FilesKept
  <1>2. PTypeOK' /\ RunningInv' /\ ProgressInv'
    BY DEF PInv, PTypeOK, RunningInv, ProgressInv
  <1>3. SuccessMeansApplied' /\ ReportMeansApplied'
    BY DEF PInv, PTypeOK, SuccessMeansApplied, ReportMeansApplied, Written
  <1> QED
    BY <1>1, <1>2, <1>3 DEF PInv

\* A text the checks accept holds nothing of the edit they would notice: a sign
\* that comes before an anchor, or is in a whole text, was not torn off, and where
\* it is absent so is every hunk of the edit.
LEMMA AcceptableIsOpen ==
    ASSUME PInv, NEW p \in Patch, NEW f \in File, Signs(p, f) # {}, Acceptable(p, f)
    PROVE  Open(p, f)
  <1>1. Prepared(p, f) /\ \A a \in Anchor : a.of = p /\ a.in = f => a.at <= kept[f]
    BY DEF Acceptable, Anchored
  <1>2. ASSUME Noticed(p, f), NEW h \in Hunk, h.of = p, h.in = f
        PROVE  edits[h] = 0
    <2>1. edits \in [Hunk -> Nat] /\ kept[f] \in Nat
      BY DEF PInv, PTypeOK
    <2>2. \A s \in Signs(p, f) : s \in Hunk /\ s.of = p /\ s.in = f /\ edits[s] = 0
      BY PlaceFacts DEF Signs, Acceptable, Unmarked, Anchored
    <2>3. PICK s \in Signs(p, f) : s.at <= kept[f]
      <3>1. CASE Betrays(p, f)
        <4>1. PICK s \in Signs(p, f), a \in Anchor : a.of = p /\ a.in = f /\ s.at <= a.at
          BY <3>1 DEF Betrays
        <4>2. a.at <= kept[f] /\ a.at \in Nat /\ s.at \in Nat
          BY <1>1, <2>2, <4>1, PlaceFacts
        <4> QED
          BY <2>1, <4>1, <4>2
      <3>2. CASE Whole(f)
        <4>1. PICK s \in Signs(p, f) : TRUE
          OBVIOUS
        <4>2. s.at \in Nat /\ s.at < End[f] /\ End[f] \in Nat
          BY <2>2, PlaceFacts
        <4> QED
          BY <3>2, <4>2 DEF Whole
      <3> QED
        BY <1>2, <3>1, <3>2 DEF Noticed
    <2>4. s \in Hunk /\ s.of = h.of /\ s.in = h.in /\ edits[s] = 0 /\ s.at <= kept[s.in]
      BY <1>2, <2>2, <2>3
    <2>5. ~(edits[h] > 0)
      BY <2>4 DEF PInv, UptoInv
    <2> QED
      BY <2>1, <2>5
  <1> QED
    BY <1>1, <1>2 DEF Open

\* A tool that goes to its next step with the files as they are.
LEMMA AdvanceInv ==
    ASSUME PInv, tool # Idle, at <= Len(Program[tool]), Advance, ~Writes(tool, at),
           UNCHANGED <<shape, edits, kept>>,
           report' \subseteq Patch,
           \A p \in report' : p \in report \/ \A h \in Hunk : h.of = p => Written(h),
           Checks(tool, at) => \A f \in Step.on : Acceptable(tool, f)
    PROVE  PInv'
  <1> USE DEF Advance
  <1>0. tool \in Patch /\ at \in Nat \ {0} /\ at \in DOMAIN Program[tool]
    BY StepFacts DEF PInv, PTypeOK
  <1>1. UptoInv' /\ OrderInv' /\ AppliedAtMostOnce' /\ PrerequisitesFirst'
    BY FilesKept
  <1>2. PTypeOK' /\ RunningInv'
    BY <1>0, StepFacts DEF PInv, PTypeOK, RunningInv
  <1>3. ProgressInv'
    <2> SUFFICES ASSUME NEW i \in DOMAIN Program[tool], Writes(tool, i)
                 PROVE  /\ i < at + 1 => \A h \in Hunk : h.of = tool /\ h.in \in Program[tool][i].on => Written(h)
                        /\ i >= at + 1 /\ (\E j \in 1..at : Checks(tool, j) /\ Program[tool][i].on \subseteq Program[tool][j].on) =>
                             \A f \in Program[tool][i].on : Open(tool, f)
      BY <1>0 DEF ProgressInv, Written, Open, Noticed, Whole, Prepared, Writes, Checks
    <2>1. i \in Nat /\ i # at
      BY <1>0, StepFacts DEF Writes
    <2>2. ASSUME i < at + 1
          PROVE  \A h \in Hunk : h.of = tool /\ h.in \in Program[tool][i].on => Written(h)
      BY <1>0, <2>1, <2>2 DEF PInv, ProgressInv
    <2>3. ASSUME i >= at + 1, NEW j \in 1..at, Checks(tool, j), Program[tool][i].on \subseteq Program[tool][j].on,
                 NEW f \in Program[tool][i].on
          PROVE  Open(tool, f)
      <3>1. CASE j < at
        BY <1>0, <2>1, <2>3, <3>1 DEF PInv, ProgressInv
      <3>2. CASE j = at
        <4>1. Acceptable(tool, f)
          BY <2>3, <3>2 DEF Step
        <4>2. Signs(tool, f) # {} /\ f \in File
          BY <1>0, <2>3, StepFacts, DisciplineAssumption
        <4> QED
          BY <1>0, <4>1, <4>2, AcceptableIsOpen
      <3> QED
        BY <1>0, <2>3, <3>1, <3>2
    <2> QED
      BY <2>2, <2>3
  <1>4. SuccessMeansApplied' /\ ReportMeansApplied'
    BY <1>0 DEF PInv, PTypeOK, SuccessMeansApplied, ReportMeansApplied, Written
  <1> QED
    BY <1>1, <1>2, <1>3, <1>4 DEF PInv

\* What is known of the files a tool is about to write.
LEMMA BeforeWrite ==
    ASSUME PInv, AtStep("write")
    PROVE  /\ tool \in Patch /\ at \in DOMAIN Program[tool] /\ Writes(tool, at)
           /\ at \in Nat \ {0}
           /\ Step.on \subseteq Target(tool) /\ Target(tool) \subseteq File
           /\ \A f \in Step.on : Open(tool, f)
  <1>1. tool \in Patch /\ at \in Nat \ {0} /\ at \in DOMAIN Program[tool] /\ Writes(tool, at)
    BY StepFacts DEF PInv, PTypeOK, AtStep, Step, Writes
  <1>2. Step.on \subseteq Target(tool) /\ Target(tool) \subseteq File
    BY <1>1, StepFacts DEF Step
  <1>3. \E j \in 1..(at - 1) : Checks(tool, j) /\ Program[tool][at].on \subseteq Program[tool][j].on
    BY <1>1, DisciplineAssumption
  <1>4. \A f \in Step.on : Open(tool, f)
    <2>1. tool # Idle /\ ProgressInv
      BY <1>1, PatchAssumption DEF PInv
    <2>2. at >= at
      BY <1>1
    <2> QED
      BY <1>1, <1>3, <2>1, <2>2 DEF ProgressInv, Step
  <1> QED
    BY <1>1, <1>2, <1>4

-----------------------------------------------------------------------------
\* The new text of some files of the step is on disk, up to some place.
Rewritten(W) ==
    /\ W \subseteq Step.on
    /\ UNCHANGED shape
    /\ edits' \in [Hunk -> Nat]
    /\ kept' \in [File -> Nat] /\ \A f \in File : kept'[f] <= kept[f]
    /\ \A h \in Hunk :
          IF h.in \notin W
          THEN edits'[h] = edits[h]
          ELSE edits'[h] = Edited(tool, Step.on, h) \/ (edits'[h] = 0 /\ h.at > kept'[h.in])

\* A hunk in the new text was in the old one, or is one of the tool's; a hunk that
\* was there and is not any more was torn off.
LEMMA RewrittenFacts ==
    ASSUME PInv, AtStep("write"), NEW W, Rewritten(W), NEW h \in Hunk
    PROVE  /\ edits[h] \in Nat /\ edits'[h] \in Nat /\ h.at \in Nat /\ h.in \in File /\ h.of \in Patch
           /\ kept[h.in] \in Nat /\ kept'[h.in] \in Nat /\ kept'[h.in] <= kept[h.in]
           /\ \/ edits'[h] = edits[h]
              \/ edits'[h] = 0 /\ h.at > kept'[h.in]
              \/ edits'[h] = edits[h] + 1 /\ h.of = tool /\ h.in \in W /\ shape[tool][h.in] # "split"
           /\ h.of = tool /\ h.in \in W =>
                \/ edits'[h] = edits[h] + 1
                \/ edits'[h] = edits[h] /\ shape[tool][h.in] = "split"
                \/ edits'[h] = 0 /\ h.at > kept'[h.in]
  <1>1. /\ edits[h] \in Nat /\ edits'[h] \in Nat /\ h.at \in Nat /\ h.in \in File /\ h.of \in Patch
        /\ kept[h.in] \in Nat /\ kept'[h.in] \in Nat /\ kept'[h.in] <= kept[h.in]
    BY PlaceFacts DEF PInv, PTypeOK, Rewritten
  <1>2. CASE h.in \notin W
    BY <1>1, <1>2 DEF Rewritten
  <1>3. CASE h.in \in W
    <2>1. h.in \in Step.on
      BY <1>3 DEF Rewritten
    <2>2. edits'[h] = Edited(tool, Step.on, h) \/ (edits'[h] = 0 /\ h.at > kept'[h.in])
      BY <1>3 DEF Rewritten
    <2> QED
      BY <1>1, <1>3, <2>1, <2>2 DEF Edited
  <1> QED
    BY <1>1, <1>2, <1>3

\* Written stays true of every hunk, and becomes true of the tool's.
LEMMA WrittenKept ==
    ASSUME PInv, AtStep("write"), NEW W, Rewritten(W), NEW h \in Hunk,
           Written(h) \/ (h.of = tool /\ h.in \in W)
    PROVE  Written(h)'
  <1>1. UNCHANGED shape
    BY DEF Rewritten
  <1>2. CASE Written(h)
    BY <1>1, <1>2, RewrittenFacts DEF Written
  <1>3. CASE h.of = tool /\ h.in \in W
    BY <1>1, <1>3, RewrittenFacts DEF Written
  <1> QED
    BY <1>2, <1>3

\* The conjuncts about files survive a write, whole or torn.
LEMMA RewrittenFiles ==
    ASSUME PInv, AtStep("write"), NEW W, Rewritten(W)
    PROVE  UptoInv' /\ OrderInv' /\ AppliedAtMostOnce' /\ PrerequisitesFirst'
  <1>0. tool \in Patch /\ at \in DOMAIN Program[tool] /\ W \subseteq Step.on /\ W \subseteq File
    BY BeforeWrite DEF Rewritten
  <1>1. UptoInv'
    <2> SUFFICES ASSUME NEW h \in Hunk, NEW g \in Hunk, edits'[h] > 0,
                        g.of = h.of, g.in = h.in, g.at <= kept'[g.in]
                 PROVE  edits'[g] > 0
      BY DEF UptoInv
    <2>1. CASE edits[h] > 0
      <3>1. g.at <= kept[g.in]
        BY RewrittenFacts
      <3>2. edits[g] > 0
        BY <2>1, <3>1 DEF PInv, UptoInv
      <3> QED
        BY <3>2, RewrittenFacts
    <2>2. CASE ~(edits[h] > 0)
      <3>1. h.of = tool /\ h.in \in W /\ shape[tool][h.in] # "split"
        BY <2>2, RewrittenFacts
      <3> QED
        BY <3>1, RewrittenFacts
    <2> QED
      BY <2>1, <2>2
  <1>2. AppliedAtMostOnce'
    <2> SUFFICES ASSUME NEW h \in Hunk, edits'[h] > 1, Noticed(h.of, h.in)'
                 PROVE  FALSE
      BY DEF AppliedAtMostOnce
    <2>1. Noticed(h.of, h.in)
      <3>1. CASE Whole(h.in)'
        <4>1. kept[h.in] <= End[h.in] /\ End[h.in] \in Nat
          BY PlaceFacts DEF PInv, PTypeOK
        <4> QED
          BY <3>1, <4>1, RewrittenFacts DEF Whole, Noticed
      <3>2. CASE Betrays(h.of, h.in)'
        BY <3>2 DEF Betrays, Signs, Noticed
      <3> QED
        BY <3>1, <3>2 DEF Noticed
    <2>2. ~(edits[h] > 1)
      BY <2>1 DEF PInv, AppliedAtMostOnce
    <2>3. h.of = tool /\ h.in \in W
      BY <2>2, RewrittenFacts
    <2>4. edits[h] = 0
      BY <1>0, <2>1, <2>3, BeforeWrite DEF Open
    <2> QED
      BY <2>4, RewrittenFacts
  <1>3. PrerequisitesFirst'
    <2> SUFFICES ASSUME NEW h \in Hunk, NEW m \in Mark, edits'[h] > 0, m.of \in Requires[h.of], m.in = h.in
                 PROVE  edits'[m] > 0 \/ m.at > kept'[m.in]
      BY DEF PrerequisitesFirst
    <2>0. m \in Hunk
      BY PlaceFacts
    <2>1. CASE edits[h] > 0
      <3>1. edits[m] > 0 \/ m.at > kept[m.in]
        BY <2>1 DEF PInv, PrerequisitesFirst
      <3> QED
        BY <2>0, <3>1, RewrittenFacts
    <2>2. CASE ~(edits[h] > 0)
      <3>1. h.of = tool /\ h.in \in Step.on
        BY <1>0, <2>2, RewrittenFacts
      <3>2. edits[m] > 0
        BY <3>1, BeforeWrite DEF Open, Prepared
      <3> QED
        BY <2>0, <3>2, RewrittenFacts
    <2> QED
      BY <2>1, <2>2
  <1>4. OrderInv'
    <2> SUFFICES ASSUME NEW h \in Hunk, NEW g \in Hunk, g.of = h.of, edits'[g] > 0,
                        NEW i \in DOMAIN Program[h.of], NEW k \in DOMAIN Program[h.of],
                        Writes(h.of, i), h.in \in Program[h.of][i].on,
                        Writes(h.of, k), g.in \in Program[h.of][k].on, i < k
                 PROVE  Written(h)'
      BY DEF OrderInv, Writes
    <2>1. CASE edits[g] > 0
      <3>1. Written(h)
        BY <2>1 DEF PInv, OrderInv
      <3> QED
        BY <3>1, WrittenKept
    <2>2. CASE ~(edits[g] > 0)
      <3>1. h.of = tool /\ g.in \in Step.on
        BY <1>0, <2>2, RewrittenFacts
      <3>2. k = at
        BY <1>0, <3>1, DisciplineAssumption, BeforeWrite DEF Step
      <3>3. Written(h)
        BY <1>0, <3>1, <3>2, BeforeWrite, PatchAssumption DEF PInv, ProgressInv
      <3> QED
        BY <3>3, WrittenKept
    <2> QED
      BY <2>1, <2>2
  <1> QED
    BY <1>1, <1>2, <1>3, <1>4

LEMMA WriteIsRewritten ==
    ASSUME PInv, Write
    PROVE  AtStep("write") /\ Rewritten(Step.on)
  <1>1. /\ AtStep("write") /\ UNCHANGED <<shape, kept>>
        /\ edits' = [h \in Hunk |-> Edited(tool, Step.on, h)]
    BY DEF Write
  <1>2. edits \in [Hunk -> Nat] /\ kept \in [File -> Nat]
    BY DEF PInv, PTypeOK
  <1>3. edits' \in [Hunk -> Nat]
    BY <1>1, <1>2 DEF Edited
  <1>4. \A h \in Hunk : edits'[h] = Edited(tool, Step.on, h)
    BY <1>1
  <1>5. \A h \in Hunk : h.in \notin Step.on => edits'[h] = edits[h]
    BY <1>4 DEF Edited
  <1> QED
    BY <1>1, <1>2, <1>3, <1>4, <1>5 DEF Rewritten

LEMMA WriteInv ==
    ASSUME PInv, Write
    PROVE  PInv'
  <1>0. /\ AtStep("write") /\ Rewritten(Step.on)
        /\ UNCHANGED <<shape, kept, report, tool, result>> /\ at' = at + 1
    BY WriteIsRewritten DEF Write, Advance
  <1>1. /\ tool \in Patch /\ tool # Idle /\ at \in DOMAIN Program[tool] /\ at \in Nat \ {0}
        /\ Writes(tool, at) /\ Step.on \subseteq File
    BY <1>0, BeforeWrite, PatchAssumption
  <1>2. UptoInv' /\ OrderInv' /\ AppliedAtMostOnce' /\ PrerequisitesFirst'
    BY <1>0, RewrittenFiles
  <1>3. PTypeOK' /\ RunningInv'
    BY <1>0, <1>1, StepFacts DEF PInv, PTypeOK, RunningInv, Rewritten
  <1>4. \A h \in Hunk : Written(h) => Written(h)'
    BY <1>0, WrittenKept
  <1>5. ProgressInv'
    <2> SUFFICES ASSUME NEW i \in DOMAIN Program[tool], Writes(tool, i)
                 PROVE  /\ i < at + 1 => \A h \in Hunk : h.of = tool /\ h.in \in Program[tool][i].on => Written(h)'
                        /\ i >= at + 1 /\ (\E j \in 1..at : Checks(tool, j) /\ Program[tool][i].on \subseteq Program[tool][j].on) =>
                             \A f \in Program[tool][i].on : Open(tool, f)'
      BY <1>0, <1>1 DEF ProgressInv, Writes, Checks, Written, Open, Noticed, Whole, Prepared
    <2>1. i \in Nat /\ Program[tool][i].on \subseteq File
      BY <1>1, StepFacts
    <2>2. ASSUME i < at + 1, NEW h \in Hunk, h.of = tool, h.in \in Program[tool][i].on
          PROVE  Written(h)'
      <3>1. CASE i = at
        BY <1>0, <2>2, <3>1, WrittenKept DEF Step
      <3>2. CASE i < at
        BY <1>0, <1>1, <1>4, <2>1, <2>2, <3>2 DEF PInv, ProgressInv
      <3> QED
        BY <1>1, <2>1, <2>2, <3>1, <3>2
    <2>3. ASSUME i >= at + 1, NEW j \in 1..at, Checks(tool, j), Program[tool][i].on \subseteq Program[tool][j].on,
                 NEW f \in Program[tool][i].on
          PROVE  Open(tool, f)'
      <3>1. j # at
        BY <1>1, <2>3 DEF Writes, Checks
      <3>2. Open(tool, f)
        BY <1>1, <2>1, <2>3, <3>1 DEF PInv, ProgressInv
      <3>3. f \notin Step.on
        BY <1>1, <2>1, <2>3, DisciplineAssumption DEF Step
      <3>4. \A h \in Hunk : h.in = f => edits'[h] = edits[h]
        BY <1>0, <3>3 DEF Rewritten
      <3>5. Prepared(tool, f)'
        BY <1>0, <3>2, <3>4, PlaceFacts DEF Open, Prepared
      <3>6. Noticed(tool, f)' => Noticed(tool, f)
        BY <1>0 DEF Noticed, Betrays, Signs, Whole
      <3> QED
        BY <1>0, <3>2, <3>4, <3>5, <3>6 DEF Open
    <2> QED
      BY <2>2, <2>3
  <1>6. SuccessMeansApplied' /\ ReportMeansApplied'
    BY <1>0, <1>4 DEF PInv, SuccessMeansApplied, ReportMeansApplied
  <1> QED
    BY <1>2, <1>3, <1>5, <1>6 DEF PInv

\* The prefix of a new text is a new text up to some place.
LEMMA CutShortIsRewritten ==
    ASSUME PInv, CutShort
    PROVE  /\ AtStep("write") /\ Exit("interrupted") /\ UNCHANGED report
           /\ \E W : Rewritten(W)
  <1>1. AtStep("write") /\ Exit("interrupted") /\ UNCHANGED <<shape, report>>
    BY DEF CutShort
  <1>2. PICK f \in Step.on : \E k \in 0..(End[f] - 1) :
           /\ edits' = [h \in Hunk |-> CASE h.in # f  -> edits[h]
                                         [] h.in = f /\ h.at <= k -> Edited(tool, Step.on, h)
                                         [] h.in = f /\ h.at > k  -> 0]
           /\ kept' = [kept EXCEPT ![f] = IF k < @ THEN k ELSE @]
    BY DEF CutShort
  <1>a. f \in File /\ End[f] \in Nat
    BY <1>1, BeforeWrite, PatchAssumption
  <1>b. PICK k \in 0..(End[f] - 1) :
           /\ edits' = [h \in Hunk |-> CASE h.in # f  -> edits[h]
                                         [] h.in = f /\ h.at <= k -> Edited(tool, Step.on, h)
                                         [] h.in = f /\ h.at > k  -> 0]
           /\ kept' = [kept EXCEPT ![f] = IF k < @ THEN k ELSE @]
    BY <1>2
  <1>3. f \in File /\ End[f] \in Nat /\ k \in Nat
    BY <1>a
  <1>4. edits \in [Hunk -> Nat] /\ kept \in [File -> Nat]
    BY DEF PInv, PTypeOK
  <1>5. /\ kept' \in [File -> Nat]
        /\ \A g \in File : kept'[g] <= kept[g]
        /\ kept'[f] <= k
    BY <1>b, <1>3, <1>4
  <1>6. ASSUME NEW h \in Hunk
        PROVE  /\ edits'[h] \in Nat
               /\ h.in # f => edits'[h] = edits[h]
               /\ h.in = f => edits'[h] = Edited(tool, Step.on, h) \/ (edits'[h] = 0 /\ h.at > kept'[h.in])
    <2>1. h.at \in Nat /\ Edited(tool, Step.on, h) \in Nat /\ edits[h] \in Nat
      BY <1>4, PlaceFacts DEF Edited
    <2>2. CASE h.in # f
      BY <1>b, <2>1, <2>2
    <2>3. CASE h.in = f /\ h.at <= k
      BY <1>b, <1>3, <2>1, <2>3
    <2>4. CASE h.in = f /\ h.at > k
      BY <1>b, <1>3, <1>5, <2>1, <2>4
    <2> QED
      BY <1>3, <2>1, <2>2, <2>3, <2>4
  <1>7. edits' \in [Hunk -> Nat]
    BY <1>b, <1>6
  <1>8. Rewritten({f})
    BY <1>1, <1>b, <1>5, <1>6, <1>7 DEF Rewritten
  <1> QED
    BY <1>1, <1>8

LEMMA CutShortInv ==
    ASSUME PInv, CutShort
    PROVE  PInv'
  <1>0. AtStep("write") /\ Exit("interrupted") /\ UNCHANGED report
    BY CutShortIsRewritten
  <1>1. PICK W : Rewritten(W)
    BY CutShortIsRewritten
  <1>2. UptoInv' /\ OrderInv' /\ AppliedAtMostOnce' /\ PrerequisitesFirst'
    BY <1>0, <1>1, RewrittenFiles
  <1>3. \A h \in Hunk : Written(h) => Written(h)'
    BY <1>0, <1>1, WrittenKept
  <1>4. tool \in Patch
    BY <1>0, BeforeWrite
  <1>5. kept' \in [File -> Nat] /\ \A f \in File : kept'[f] <= End[f]
    BY <1>1, PatchAssumption DEF Rewritten, PInv, PTypeOK
  <1>6. PTypeOK' /\ RunningInv' /\ ProgressInv'
    BY <1>0, <1>1, <1>4, <1>5 DEF PInv, PTypeOK, RunningInv, ProgressInv, Exit, Rewritten
  <1>7. SuccessMeansApplied' /\ ReportMeansApplied'
    BY <1>0, <1>3, <1>4 DEF PInv, PTypeOK, SuccessMeansApplied, ReportMeansApplied, Exit
  <1> QED
    BY <1>2, <1>6, <1>7 DEF PInv

-----------------------------------------------------------------------------
LEMMA CheckInv ==
    ASSUME PInv, Check
    PROVE  PInv'
  <1>0. AtStep("check") /\ UNCHANGED <<shape, edits, kept, report>>
    BY DEF Check
  <1>1. tool \in Patch /\ tool # Idle /\ at <= Len(Program[tool]) /\ ~Writes(tool, at)
    BY <1>0 DEF PInv, PTypeOK, AtStep, Step, Writes
  <1>2. CASE tool \in Recognising /\ InPlace(tool)
    <2>1. Exit("ok")
      BY <1>2 DEF Check
    <2>2. \A h \in Hunk : h.of = tool => Written(h)
      BY <1>2 DEF InPlace, Written
    <2> QED
      BY <1>0, <1>1, <2>1, <2>2, ExitInv
  <1>3. CASE ~(tool \in Recognising /\ InPlace(tool)) /\ (\A f \in Step.on : Acceptable(tool, f))
    <2>1. Advance
      BY <1>3 DEF Check
    <2> QED
      BY <1>0, <1>1, <1>3, <2>1, AdvanceInv DEF PInv, PTypeOK
  <1>4. CASE ~(tool \in Recognising /\ InPlace(tool)) /\ ~(\A f \in Step.on : Acceptable(tool, f))
    <2>1. Exit("refused")
      BY <1>4 DEF Check
    <2> QED
      BY <1>0, <1>1, <2>1, ExitInv
  <1> QED
    BY <1>2, <1>3, <1>4

LEMMA VerifyInv ==
    ASSUME PInv, Verify
    PROVE  PInv'
  <1>0. AtStep("verify") /\ UNCHANGED <<shape, edits, kept, report>>
    BY DEF Verify
  <1>1. /\ tool \in Patch /\ tool # Idle /\ at <= Len(Program[tool])
        /\ ~Writes(tool, at) /\ ~Checks(tool, at)
    BY <1>0 DEF PInv, PTypeOK, AtStep, Step, Writes, Checks
  <1>2. Advance \/ Exit("refused")
    BY DEF Verify
  <1>3. CASE Advance
    BY <1>0, <1>1, <1>3, AdvanceInv DEF PInv, PTypeOK
  <1>4. CASE Exit("refused")
    BY <1>0, <1>1, <1>4, ExitInv
  <1> QED
    BY <1>2, <1>3, <1>4

\* Past its writes a tool has written every hunk it has.
LEMMA AllWritten ==
    ASSUME PInv, tool # Idle, \A i \in DOMAIN Program[tool] : Writes(tool, i) => i < at
    PROVE  \A h \in Hunk : h.of = tool => Written(h)
  <1> SUFFICES ASSUME NEW h \in Hunk, h.of = tool PROVE Written(h)
    OBVIOUS
  <1>1. tool \in Patch /\ h.in \in Target(tool)
    BY PlaceFacts DEF PInv, PTypeOK
  <1>2. PICK i \in DOMAIN Program[tool] : Writes(tool, i) /\ h.in \in Program[tool][i].on
    BY <1>1, StepFacts
  <1> QED
    BY <1>2 DEF PInv, ProgressInv

LEMMA ReportInv ==
    ASSUME PInv, Report
    PROVE  PInv'
  <1>0. AtStep("report") /\ Advance /\ report' = report \cup {tool} /\ UNCHANGED <<shape, edits, kept>>
    BY DEF Report
  <1>1. /\ tool \in Patch /\ tool # Idle /\ at <= Len(Program[tool])
        /\ at \in Nat \ {0} /\ at \in DOMAIN Program[tool]
        /\ ~Writes(tool, at) /\ ~Checks(tool, at)
    BY <1>0, StepFacts DEF PInv, PTypeOK, AtStep, Step, Writes, Checks
  <1>2. \A i \in DOMAIN Program[tool] : Writes(tool, i) => i < at
    BY <1>0, <1>1, DisciplineAssumption DEF AtStep, Step
  <1>3. \A h \in Hunk : h.of = tool => Written(h)
    BY <1>1, <1>2, AllWritten
  <1>4. report' \subseteq Patch /\ \A p \in report' : p \in report \/ \A h \in Hunk : h.of = p => Written(h)
    BY <1>0, <1>1, <1>3 DEF PInv, PTypeOK
  <1> QED
    BY <1>0, <1>1, <1>4, AdvanceInv

LEMMA FinishInv ==
    ASSUME PInv, Finish
    PROVE  PInv'
  <1>0. tool # Idle /\ at > Len(Program[tool]) /\ Exit("ok") /\ UNCHANGED <<shape, edits, kept, report>>
    BY DEF Finish
  <1>1. tool \in Patch /\ at \in Nat
    BY <1>0 DEF PInv, PTypeOK
  <1>2. \A i \in DOMAIN Program[tool] : i < at
    BY <1>0, <1>1, StepFacts
  <1>3. \A h \in Hunk : h.of = tool => Written(h)
    BY <1>0, <1>2, AllWritten
  <1> QED
    BY <1>0, <1>3, ExitInv

LEMMA KillInv ==
    ASSUME PInv, Kill
    PROVE  PInv'
  BY ExitInv DEF Kill

LEMMA FetchInv ==
    ASSUME PInv, Fetch
    PROVE  PInv'
  <1> USE DEF Fetch
  <1>1. PTypeOK'
    BY PatchAssumption DEF PInv, PTypeOK, NoEdits
  <1>2. \A h \in Hunk : edits'[h] = 0
    BY DEF NoEdits
  <1>3. RunningInv' /\ ProgressInv' /\ SuccessMeansApplied' /\ ReportMeansApplied'
    BY DEF RunningInv, ProgressInv, SuccessMeansApplied, ReportMeansApplied
  <1>4. UptoInv' /\ OrderInv' /\ AppliedAtMostOnce' /\ PrerequisitesFirst'
    BY <1>2 DEF UptoInv, OrderInv, AppliedAtMostOnce, PrerequisitesFirst
  <1> QED
    BY <1>1, <1>3, <1>4 DEF PInv

LEMMA NextInv == PInv /\ [PNext]_pvars => PInv'
  <1> SUFFICES ASSUME PInv, [PNext]_pvars PROVE PInv'
    OBVIOUS
  <1>1. CASE \E p \in Patch : Invoke(p)
    BY <1>1, InvokeInv
  <1>2. CASE ToolStep
    BY <1>2, CheckInv, WriteInv, VerifyInv, ReportInv, FinishInv DEF ToolStep
  <1>3. CASE ToolFault
    BY <1>3, CutShortInv, KillInv DEF ToolFault
  <1>4. CASE Fetch
    BY <1>4, FetchInv
  <1>5. CASE UNCHANGED pvars
    <2>1. UptoInv' /\ OrderInv' /\ AppliedAtMostOnce' /\ PrerequisitesFirst'
      BY <1>5, FilesKept DEF pvars
    <2>2. PTypeOK' /\ RunningInv' /\ SuccessMeansApplied' /\ ReportMeansApplied'
      BY <1>5 DEF pvars, PInv, PTypeOK, RunningInv, SuccessMeansApplied, ReportMeansApplied, Written
    <2>3. ProgressInv'
      BY <1>5 DEF pvars, PInv, ProgressInv, Written, Open, Prepared, Noticed, Whole
    <2> QED
      BY <2>1, <2>2, <2>3 DEF PInv
  <1> QED
    BY <1>1, <1>2, <1>3, <1>4, <1>5 DEF PNext

\* Any set of tools that keeps the discipline maintains PInv, however its tools
\* are invoked, refused, cut short, killed and invoked again.
THEOREM Invariance == PSpec => []PInv
  BY InitInv, NextInv, PTL DEF PSpec

(* The state of the patchers stays well typed: a tool never runs past the   *)
(* end of its steps, and its result is one of the five there are.           *)
THEOREM TypeCorrect == PSpec => []PTypeOK
  BY Invariance, PTL DEF PInv

(* No hunk is ever in a file twice, for any number of tools that share any  *)
(* files, after any sequence of runs and of writes torn at any place, but   *)
(* for the torn files in which the tool's signs come after its anchors.     *)
THEOREM NeverTwice == PSpec => []AppliedAtMostOnce
  BY Invariance, PTL DEF PInv

(* Exit status 0 of a patcher means its hunks are written in every file it  *)
(* targets, and stay there until a write tears them off or the sources are  *)
(* fetched again.                                                           *)
THEOREM SuccessIsApplied == PSpec => []SuccessMeansApplied
  BY Invariance, PTL DEF PInv

(* A JSON report on disk was left by a run that had written every hunk.     *)
THEOREM ReportIsApplied == PSpec => []ReportMeansApplied
  BY Invariance, PTL DEF PInv

(* An edit that demands the marker of another one is never without it in a  *)
(* text that reaches to the place of that marker, wherever writes were torn.*)
THEOREM Prerequisites == PSpec => []PrerequisitesFirst
  BY Invariance, PTL DEF PInv

-----------------------------------------------------------------------------
\* The step that adds a hunk a tool would notice found no other hunk of the edit,
\* other than those the same run has written.
LEMMA AddsToOwnRun ==
    ASSUME PInv, AtStep("write"), NEW W, Rewritten(W),
           NEW h \in Hunk, NEW g \in Hunk, g.of = h.of,
           edits'[h] > edits[h], Noticed(h.of, h.in), edits[g] > 0
    PROVE  WrittenThisRun(g.of, g.in)
  <1>0. /\ tool \in Patch /\ tool # Idle /\ at \in DOMAIN Program[tool] /\ at \in Nat \ {0}
        /\ Writes(tool, at) /\ W \subseteq Step.on /\ W \subseteq File
    BY BeforeWrite, PatchAssumption DEF Rewritten
  <1>1. h.of = tool /\ h.in \in W /\ shape[tool][h.in] # "split"
    BY RewrittenFacts
  <1>2. Open(tool, h.in)
    BY <1>0, <1>1, BeforeWrite
  <1>3. \A x \in Hunk : x.of = tool /\ x.in = h.in => edits[x] = 0
    BY <1>1, <1>2 DEF Open
  <1>4. g.in # h.in
    BY <1>1, <1>3
  <1>5. PICK s \in Hunk : s.of = tool /\ s.in = h.in /\ ~Written(s)
    <2>1. Signs(tool, h.in) # {}
      BY <1>0, <1>1, DisciplineAssumption DEF Step
    <2>2. \A s \in Signs(tool, h.in) : s \in Hunk /\ s.of = tool /\ s.in = h.in
      BY PlaceFacts DEF Signs
    <2>3. kept[h.in] \in Nat /\ h.in \in File
      BY RewrittenFacts
    <2>4. PICK s \in Signs(tool, h.in) : s.at <= kept[h.in]
      <3>1. CASE Betrays(tool, h.in)
        <4>1. PICK s \in Signs(tool, h.in), a \in Anchor : a.of = tool /\ a.in = h.in /\ s.at <= a.at
          BY <3>1 DEF Betrays
        <4>2. a.at <= kept[h.in] /\ a.at \in Nat /\ s.at \in Nat
          BY <1>2, <2>2, <4>1, PlaceFacts DEF Open
        <4> QED
          BY <2>3, <4>1, <4>2
      <3>2. CASE Whole(h.in)
        <4>1. PICK s \in Signs(tool, h.in) : TRUE
          BY <2>1
        <4>2. s.at \in Nat /\ s.at < End[h.in] /\ End[h.in] \in Nat
          BY <2>2, PlaceFacts
        <4> QED
          BY <3>2, <4>2 DEF Whole
      <3> QED
        BY <1>1, <3>1, <3>2 DEF Noticed
    <2>5. s \in Hunk /\ s.of = tool /\ s.in = h.in /\ s.at \in Nat
      BY <2>2, PlaceFacts
    <2>6. edits[s] = 0
      BY <1>3, <2>5
    <2>7. ~Written(s)
      BY <1>1, <2>3, <2>4, <2>5, <2>6 DEF Written
    <2> QED
      BY <2>5, <2>7
  <1>6. g.in \in Target(tool)
    BY <1>1, PlaceFacts
  <1>7. PICK k \in DOMAIN Program[tool] : Writes(tool, k) /\ g.in \in Program[tool][k].on
    BY <1>0, <1>6, StepFacts
  <1>8. k \in Nat \ {0} /\ h.in \in Program[tool][at].on
    BY <1>0, <1>1, StepFacts DEF Step
  <1>9. k # at
    BY <1>0, <1>4, <1>7, <1>8, DisciplineAssumption
  <1>10. ~(at < k)
    BY <1>0, <1>1, <1>5, <1>7, <1>8 DEF PInv, OrderInv
  <1>11. k \in 1..(at - 1)
    BY <1>0, <1>8, <1>9, <1>10
  <1> QED
    BY <1>1, <1>7, <1>11 DEF WrittenThisRun

LEMMA NextAddsToOwnRun ==
    ASSUME PInv, PNext
    PROVE  \A h \in Hunk : edits'[h] > edits[h] /\ Noticed(h.of, h.in) =>
              \A g \in Hunk : g.of = h.of /\ edits[g] > 0 => WrittenThisRun(g.of, g.in)
  <1> SUFFICES ASSUME NEW h \in Hunk, NEW g \in Hunk, g.of = h.of,
                      edits'[h] > edits[h], Noticed(h.of, h.in), edits[g] > 0
               PROVE  WrittenThisRun(g.of, g.in)
    OBVIOUS
  <1>0. edits \in [Hunk -> Nat]
    BY DEF PInv, PTypeOK
  <1>1. edits' # edits
    BY <1>0
  <1>2. CASE Write
    BY <1>2, WriteIsRewritten, AddsToOwnRun
  <1>3. CASE CutShort
    BY <1>3, CutShortIsRewritten, AddsToOwnRun
  <1>4. CASE Fetch
    BY <1>0, <1>4 DEF Fetch, NoEdits
  <1>5. Write \/ CutShort \/ Fetch
    BY <1>1 DEF PNext, Invoke, ToolStep, ToolFault, Check, Verify, Report, Finish, Kill
  <1> QED
    BY <1>2, <1>3, <1>4, <1>5

(* The pieces of a patch that edits two files are always written by one run:*)
(* a rerun after an interruption refuses instead of completing it, wherever *)
(* it can notice what is there.                                             *)
THEOREM OneRunWritesAll == PSpec => NoMixedRuns
  <1>1. PInv /\ [PNext]_pvars =>
           [\A h \in Hunk : edits'[h] > edits[h] /\ Noticed(h.of, h.in) =>
               \A g \in Hunk : g.of = h.of /\ edits[g] > 0 => WrittenThisRun(g.of, g.in)]_pvars
    BY NextAddsToOwnRun
  <1> QED
    BY <1>1, Invariance, PTL DEF PSpec, NoMixedRuns
=============================================================================
