------------------------------ MODULE Patcher ------------------------------
(* The source patchers of tools/patch_*.py.  Each one reads the file or     *)
(* files it edits, refuses unless every anchor has the shape it was written *)
(* for and its own marker is absent, writes the edited text back, and may   *)
(* leave a JSON report.  No tool is atomic: it can refuse after its first   *)
(* write, a write can stop half way, and it can be killed between two       *)
(* steps; whatever it left behind is what the next invocation reads.        *)
(*                                                                          *)
(* A file is abstracted to the places the tools touch, in text order: what  *)
(* is in it is which of their hunks it holds, how often, and the last of    *)
(* its places an interrupted write has left.  SourcePatches instantiates    *)
(* the constants with the tools of the repository.                          *)
EXTENDS Naturals, Sequences

CONSTANTS
    Patch,      \* the patch tools
    File,       \* the source files they edit
    Idle,       \* no tool is running
    Program,    \* Program[p]: the steps of p, records [op, on], in source order
    End,        \* End[f]: past the last place of f
    Hunk,       \* the hunks of the edits, places [in, of, at] of a file and a tool
    Mark,       \* the hunks that hold a marker their tool looks for
    Anchor,     \* where a tool counts its anchors; one that is a hunk is replaced
    Requires,   \* Requires[p]: patches whose marker p demands in its files
    Recognising,\* tools that report success when their edit is already there
    Shapes      \* the upstream texts a fetch may bring, functions [Patch -> [File -> Shape]]

\* "pinned": the text the tool was written for; "drifted": an anchor count is
\* wrong; "odd": anchors right, but the check after the edit fails; "split":
\* every needle occurs once, but not adjacent, so that str.replace finds nothing;
\* "extra": as pinned, with one more use of the removed text elsewhere in the file
Shape == {"pinned", "drifted", "odd", "split", "extra"}

Op == {"check", "write", "verify", "report"}

Target(p) == UNION {Program[p][i].on : i \in {j \in DOMAIN Program[p] : Program[p][j].op = "write"}}

Writes(p, i) == i \in DOMAIN Program[p] /\ Program[p][i].op = "write"
Checks(p, i) == i \in DOMAIN Program[p] /\ Program[p][i].op = "check"

Place == [in : File, of : Patch, at : Nat \ {0}]

ASSUME PatchAssumption ==
    /\ Idle \notin Patch
    /\ \A p \in Patch : Program[p] \in Seq([op : Op, on : SUBSET File])
    /\ End \in [File -> Nat]
    /\ Hunk \subseteq Place /\ Anchor \subseteq Place /\ Mark \subseteq Hunk
    /\ \A h \in Hunk \cup Anchor : h.at < End[h.in]
    /\ \A h \in Hunk : h.in \in Target(h.of)
    /\ Requires \in [Patch -> SUBSET Patch]
    /\ Recognising \subseteq Patch
    /\ Shapes \subseteq [Patch -> [File -> Shape]]

\* The hunks p looks for before it edits f: its marker, and the anchors it replaces.
Signs(p, f) == {h \in Mark \cup (Hunk \cap Anchor) : h.of = p /\ h.in = f}

\* What the tools have in common: a file is read and checked before it is
\* written, it is written once and on its own, its edit leaves a sign, and a report
\* comes after every write.
ASSUME DisciplineAssumption ==
    /\ \A p \in Patch : \A i \in DOMAIN Program[p] : Writes(p, i) =>
           /\ \E j \in 1..(i - 1) : Checks(p, j) /\ Program[p][i].on \subseteq Program[p][j].on
           /\ \E f \in File : Program[p][i].on = {f} /\ Signs(p, f) # {}
           /\ \A k \in DOMAIN Program[p] \ {i} :
                  Writes(p, k) => Program[p][i].on \cap Program[p][k].on = {}
    /\ \A p \in Patch : \A i, j \in DOMAIN Program[p] :
           Writes(p, i) /\ Program[p][j].op = "report" => i < j

VARIABLES
    shape,      \* the upstream text of each file as each tool sees it
    edits,      \* edits[h]: how many times the hunk h is in its file
    kept,       \* kept[f]: the upstream text of f is there up to this place
    tool,       \* the tool that is running, or Idle
    at,         \* the step it is about to take
    result,     \* result[p]: how the last invocation of p since the fetch ended
    report      \* the tools whose report file exists

pvars == <<shape, edits, kept, tool, at, result, report>>

NoEdits == [h \in Hunk |-> 0]

\* No write of the file was cut short since the fetch.
Whole(f) == kept[f] = End[f]

PTypeOK ==
    /\ shape \in Shapes
    /\ edits \in [Hunk -> Nat]
    /\ kept \in [File -> Nat]
    /\ \A f \in File : kept[f] <= End[f]
    /\ tool \in Patch \cup {Idle}
    /\ at \in Nat \ {0}
    /\ tool # Idle => at <= Len(Program[tool]) + 1
    /\ result \in [Patch -> {"none", "running", "ok", "refused", "interrupted"}]
    /\ report \subseteq Patch

PInit ==
    /\ shape \in Shapes
    /\ edits = NoEdits
    /\ kept = End
    /\ tool = Idle
    /\ at = 1
    /\ result = [p \in Patch |-> "none"]
    /\ report = {}

-----------------------------------------------------------------------------
(* What a tool decides from the text it has read.                           *)

\* Mutant: the marker is not looked for.
UnmarkedUnseen(p, f) == TRUE

Unmarked(p, f) == \A m \in Mark : m.of = p /\ m.in = f => edits[m] = 0

Anchored(p, f) ==
    /\ shape[p][f] # "drifted"
    /\ \A a \in Anchor : a.of = p /\ a.in = f => a.at <= kept[f] /\ (a \in Hunk => edits[a] = 0)

Prepared(p, f) == \A m \in Mark : m.of \in Requires[p] /\ m.in = f => edits[m] > 0

\* Mutant: the patch this one builds on is not demanded.
AcceptableUnprepared(p, f) == Unmarked(p, f) /\ Anchored(p, f)

Acceptable(p, f) == Unmarked(p, f) /\ Anchored(p, f) /\ Prepared(p, f)

InPlace(p) == \A h \in Hunk : h.of = p => edits[h] > 0

\* The text after str.replace holds each hunk of p once more, unless the joined
\* needles do not occur in it.
Edited(p, on, h) ==
    IF h.of = p /\ h.in \in on /\ shape[p][h.in] # "split" THEN edits[h] + 1 ELSE edits[h]

-----------------------------------------------------------------------------
Step == Program[tool][at]

AtStep(op) == tool # Idle /\ at <= Len(Program[tool]) /\ Step.op = op

\* Mutant: a step is skipped.
AdvanceTwice == at' = at + 2 /\ UNCHANGED <<tool, result>>

Advance == at' = at + 1 /\ UNCHANGED <<tool, result>>

Exit(status) ==
    /\ result' = [result EXCEPT ![tool] = status]
    /\ tool' = Idle
    /\ at' = 1

Invoke(p) ==
    /\ tool = Idle
    /\ tool' = p
    /\ at' = 1
    /\ result' = [result EXCEPT ![p] = "running"]
    /\ UNCHANGED <<shape, edits, kept, report>>

\* Mutant: one file that looks right is enough.
CheckAnyFile ==
    /\ AtStep("check")
    /\ IF \E f \in Step.on : Acceptable(tool, f) THEN Advance ELSE Exit("refused")
    /\ UNCHANGED <<shape, edits, kept, report>>

\* Mutant: a marker in one file is taken for a patch that is already applied.
CheckMarkerIsSuccess ==
    /\ AtStep("check")
    /\ IF \E f \in Step.on : ~Unmarked(tool, f)
       THEN Exit("ok")
       ELSE IF \A f \in Step.on : Acceptable(tool, f) THEN Advance ELSE Exit("refused")
    /\ UNCHANGED <<shape, edits, kept, report>>

Check ==
    /\ AtStep("check")
    /\ IF tool \in Recognising /\ InPlace(tool)
       THEN Exit("ok")
       ELSE IF \A f \in Step.on : Acceptable(tool, f)
            THEN Advance
            ELSE Exit("refused")
    /\ UNCHANGED <<shape, edits, kept, report>>

Write ==
    /\ AtStep("write")
    /\ edits' = [h \in Hunk |-> Edited(tool, Step.on, h)]
    /\ Advance
    /\ UNCHANGED <<shape, kept, report>>

\* Path.write_text truncates, then writes: a full disk or a kill leaves a prefix
\* of the new text, up to any of its places.
CutShort ==
    /\ AtStep("write")
    /\ \E f \in Step.on : \E k \in 0..(End[f] - 1) :
          /\ edits' = [h \in Hunk |-> CASE h.in # f  -> edits[h]
                                        [] h.in = f /\ h.at <= k -> Edited(tool, Step.on, h)
                                        [] h.in = f /\ h.at > k  -> 0]
          /\ kept' = [kept EXCEPT ![f] = IF k < @ THEN k ELSE @]
    /\ Exit("interrupted")
    /\ UNCHANGED <<shape, report>>

\* A check of the files after they were written.
Verify ==
    /\ AtStep("verify")
    /\ IF /\ \A h \in Hunk : h.of = tool /\ h.in \in Step.on => edits[h] > 0
          /\ \A f \in Step.on : shape[tool][f] # "odd"
       THEN Advance
       ELSE Exit("refused")
    /\ UNCHANGED <<shape, edits, kept, report>>

Report ==
    /\ AtStep("report")
    /\ report' = report \cup {tool}
    /\ Advance
    /\ UNCHANGED <<shape, edits, kept>>

Finish ==
    /\ tool # Idle
    /\ at > Len(Program[tool])
    /\ Exit("ok")
    /\ UNCHANGED <<shape, edits, kept, report>>

Kill ==
    /\ tool # Idle
    /\ Exit("interrupted")
    /\ UNCHANGED <<shape, edits, kept, report>>

ToolStep == Check \/ Write \/ Verify \/ Report \/ Finish

ToolFault == CutShort \/ Kill

\* Mutant: the reports of the previous checkout survive.
FetchKeepsReports ==
    /\ tool = Idle
    /\ shape' \in Shapes
    /\ edits' = NoEdits
    /\ kept' = End
    /\ result' = [p \in Patch |-> "none"]
    /\ UNCHANGED <<tool, at, report>>

\* A fresh checkout: pristine text, and no result or report to trust.
Fetch ==
    /\ tool = Idle
    /\ shape' \in Shapes
    /\ edits' = NoEdits
    /\ kept' = End
    /\ result' = [p \in Patch |-> "none"]
    /\ report' = {}
    /\ UNCHANGED <<tool, at>>

PNext == (\E p \in Patch : Invoke(p)) \/ ToolStep \/ ToolFault \/ Fetch

PSpec == PInit /\ [][PNext]_pvars /\ WF_pvars(ToolStep)

-----------------------------------------------------------------------------
(* A second application is noticed in any text if a sign of the first comes *)
(* before an anchor of the tool, so that no prefix has all the anchors and  *)
(* none of the signs, and in a whole text in any case.                      *)
Betrays(p, f) ==
    \E s \in Signs(p, f) : \E a \in Anchor : a.of = p /\ a.in = f /\ s.at <= a.at

Noticed(p, f) == Betrays(p, f) \/ Whole(f)

(* However the tools are invoked, interrupted anywhere in a write and       *)
(* invoked again, no hunk is ever applied twice: the marker and anchor      *)
(* checks of every tool see what an earlier, unfinished, run left behind.   *)
(* The exception is a torn file whose signs come after the anchors; it is   *)
(* the one that NeverAppliedTwice is about.                                 *)
AppliedAtMostOnce == \A h \in Hunk : edits[h] > 1 => ~Noticed(h.of, h.in)

(* What "already applied" in the refusals of the tools means, in every text.*)
NeverAppliedTwice == \A h \in Hunk : edits[h] <= 1

(* A tool that exits 0 has all its hunks in the files it targets; the       *)
(* exceptions are a place some other tool has torn off since, and text whose*)
(* needles are not adjacent (ReportedMeansRemoved is about that one).       *)
Written(h) == edits[h] > 0 \/ h.at > kept[h.in] \/ shape[h.of][h.in] = "split"

SuccessMeansApplied ==
    \A p \in Patch : result[p] = "ok" => \A h \in Hunk : h.of = p => Written(h)

(* A report file is only ever left behind by a run that had written every   *)
(* hunk, even though an interrupted rerun may follow it.                    *)
ReportMeansApplied ==
    \A p \in report : \A h \in Hunk : h.of = p => Written(h)

(* The strict reading of the policy report, which lists the neverallow rules*)
(* under "removed": once it exists, they are gone.                          *)
ReportedMeansRemoved ==
    \A p \in report : \A h \in Hunk : h.of = p => edits[h] > 0 \/ ~Whole(h.in)

(* The edit of a patch that builds on another one (the PTY transition on    *)
(* the recovery child) is never in a file without the marker of that one,   *)
(* unless the file ends before the place of the marker.                     *)
PrerequisitesFirst ==
    \A h \in Hunk, m \in Mark :
        edits[h] > 0 /\ m.of \in Requires[h.of] /\ m.in = h.in =>
            edits[m] > 0 \/ m.at > kept[m.in]

(* A run never completes what an interrupted run began: when a tool adds a   *)
(* hunk to a file, every other hunk of its edit was added by this same run,  *)
(* so the pieces of a two-file patch are always of one generation.           *)
WrittenThisRun(p, g) == tool = p /\ \E i \in 1..(at - 1) : Writes(p, i) /\ g \in Program[p][i].on

NoMixedRuns ==
    [][\A h \in Hunk : edits'[h] > edits[h] /\ Noticed(h.of, h.in) =>
          \A g \in Hunk : g.of = h.of /\ edits[g] > 0 => WrittenThisRun(g.of, g.in)]_pvars

-----------------------------------------------------------------------------
(* The inductive invariant behind these properties.                         *)

\* The running tool has not exited.
RunningInv == tool # Idle => result[tool] = "running"

\* An edit is in a file as far as the file goes, or not at all.
UptoInv ==
    \A h, g \in Hunk :
        edits[h] > 0 /\ g.of = h.of /\ g.in = h.in /\ g.at <= kept[g.in] => edits[g] > 0

\* What a tool needs of a file that it has checked and is about to write.
Open(p, f) ==
    /\ Prepared(p, f)
    /\ \A a \in Anchor : a.of = p /\ a.in = f => a.at <= kept[f]
    /\ Noticed(p, f) => \A h \in Hunk : h.of = p /\ h.in = f => edits[h] = 0

\* What the running tool has checked and not yet written is untouched, what it
\* has written holds its edit.
ProgressInv ==
    tool # Idle => \A i \in DOMAIN Program[tool] : Writes(tool, i) =>
        /\ i < at => \A h \in Hunk : h.of = tool /\ h.in \in Program[tool][i].on => Written(h)
        /\ i >= at /\ (\E j \in 1..(at - 1) : Checks(tool, j) /\ Program[tool][i].on \subseteq Program[tool][j].on) =>
               \A f \in Program[tool][i].on : Open(tool, f)

\* A later file of a tool has a hunk only if the earlier ones were written.
OrderInv ==
    \A h, g \in Hunk : g.of = h.of /\ edits[g] > 0 =>
        \A i, k \in DOMAIN Program[h.of] :
            /\ Writes(h.of, i) /\ h.in \in Program[h.of][i].on
            /\ Writes(h.of, k) /\ g.in \in Program[h.of][k].on
            /\ i < k
            => Written(h)

PInv ==
    /\ PTypeOK /\ RunningInv /\ UptoInv /\ ProgressInv /\ OrderInv
    /\ AppliedAtMostOnce /\ SuccessMeansApplied /\ ReportMeansApplied /\ PrerequisitesFirst
=============================================================================
