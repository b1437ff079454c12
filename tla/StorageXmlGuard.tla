-------------------------- MODULE StorageXmlGuard --------------------------
(* TWPartitionManager::Decrypt_Adopted with the storage.xml guard: the file *)
(* is only given to the XML parser when its first character that is not a   *)
(* blank is "<"; otherwise the optional metadata is skipped, the probe of   *)
(* the partitions goes on, and the clean-up copes with a document that was  *)
(* never created.  The parser may never return from text it cannot parse.   *)
EXTENDS Naturals, Sequences

CONSTANTS
    Texts,      \* contents of storage.xml, sequences of Char
    Partitions  \* how many partitions the probe visits

Char == {"blank", "<", "other"}

ASSUME StorageAssumption == Texts \subseteq Seq(Char) /\ Partitions \in Nat

VARIABLES
    present,    \* the file can be loaded
    text,       \* its content; a NUL follows it in the buffer
    valid,      \* the parser gets to the end of it
    place,      \* "load", "skip", "parse", "error", "probe", "clean", "free", "returned", "crashed"
    start,      \* xml_start, as a position in text
    xmlFile,    \* the buffer: "null", "live", "freed"
    doc,        \* the document: "null", "live", "deleted"
    volumes,    \* the node found in it, which points into the buffer
    probed      \* partitions visited

file == <<present, text, valid>>
guardVars == <<file, place, start, xmlFile, doc, volumes, probed>>

\* What the guard is to decide.
StartsWithTag(t) == \E i \in DOMAIN t : t[i] = "<" /\ \A j \in 1..(i - 1) : t[j] = "blank"

GuardTypeOK ==
    /\ present \in BOOLEAN /\ text \in Texts /\ valid \in BOOLEAN
    /\ place \in {"load", "skip", "parse", "error", "probe", "clean", "free", "returned", "crashed"}
    /\ start \in 1..(Len(text) + 1)
    /\ xmlFile \in {"null", "live", "freed"}
    /\ doc \in {"null", "live", "deleted"}
    /\ volumes \in BOOLEAN
    /\ probed \in 0..Partitions

GuardInit ==
    /\ present \in BOOLEAN /\ text \in Texts /\ valid \in BOOLEAN
    /\ valid => StartsWithTag(text)
    /\ place = "load" /\ start = 1
    /\ xmlFile = "null" /\ doc = "null" /\ volumes = FALSE /\ probed = 0

-----------------------------------------------------------------------------
Load ==
    /\ place = "load"
    /\ IF present
       THEN xmlFile' = "live" /\ place' = "skip"
       ELSE place' = "returned" /\ UNCHANGED xmlFile
    /\ UNCHANGED <<file, start, doc, volumes, probed>>

\* Mutant: the NUL that ends the text is skipped as well.
BlankOrEnd == start > Len(text) \/ text[start] = "blank"

AtBlank == start <= Len(text) /\ text[start] = "blank"
AtTag   == start <= Len(text) /\ text[start] = "<"

SkipBlank ==
    /\ place = "skip" /\ AtBlank
    /\ start' = start + 1
    /\ UNCHANGED <<file, place, xmlFile, doc, volumes, probed>>

\* Mutant: everything is parsed.
GuardOpen ==
    /\ place = "skip" /\ ~AtBlank
    /\ place' = "parse"
    /\ UNCHANGED <<file, start, xmlFile, doc, volumes, probed>>

Guard ==
    /\ place = "skip" /\ ~AtBlank
    /\ place' = IF AtTag THEN "parse" ELSE "probe"
    /\ UNCHANGED <<file, start, xmlFile, doc, volumes, probed>>

\* The parser, then first_node("volumes"); what it cannot parse may keep it in
\* its error path.
Parse ==
    /\ place = "parse"
    /\ doc' = "live"
    /\ \/ place' = "probe" /\ volumes' \in BOOLEAN
       \/ ~valid /\ place' = "error" /\ UNCHANGED volumes
    /\ UNCHANGED <<file, start, xmlFile, probed>>

\* Each partition is probed; its volume is looked up where there are any.
Probe ==
    /\ place = "probe" /\ probed < Partitions
    /\ probed' = probed + 1
    /\ place' = IF volumes /\ xmlFile # "live" THEN "crashed" ELSE "probe"
    /\ UNCHANGED <<file, start, xmlFile, doc, volumes>>

ProbeDone ==
    /\ place = "probe" /\ probed = Partitions
    /\ place' = "clean"
    /\ UNCHANGED <<file, start, xmlFile, doc, volumes, probed>>

\* Mutant: the donor's clean-up, which has a document whenever it has a file.
CleanAlways ==
    /\ place = "clean"
    /\ IF doc = "null" THEN place' = "crashed" /\ UNCHANGED doc ELSE place' = "free" /\ doc' = "deleted"
    /\ UNCHANGED <<file, start, xmlFile, volumes, probed>>

\* if (xmlFile) { if (doc) { clear; delete } free }
Clean ==
    /\ place = "clean"
    /\ place' = "free"
    /\ doc' = IF doc = "live" THEN "deleted" ELSE doc
    /\ UNCHANGED <<file, start, xmlFile, volumes, probed>>

Free ==
    /\ place = "free"
    /\ xmlFile' = "freed"
    /\ place' = "returned"
    /\ UNCHANGED <<file, start, doc, volumes, probed>>

GuardNext == Load \/ SkipBlank \/ Guard \/ Parse \/ Probe \/ ProbeDone \/ Clean \/ Free

GuardSpec == GuardInit /\ [][GuardNext]_guardVars /\ WF_guardVars(GuardNext)

-----------------------------------------------------------------------------
(* On every path, with or without a document, the function comes to its end *)
(* without touching what is not there, has visited every partition unless   *)
(* there is no file, and holds neither the document nor the buffer.         *)
LeavesClean ==
    /\ place # "crashed"
    /\ place = "returned" => /\ doc # "live" /\ xmlFile # "live"
                             /\ present => xmlFile = "freed" /\ probed = Partitions

(* The function returns unless the file begins like XML and is not: binary  *)
(* XML, text that is none and an empty file never reach the parser.         *)
Returns == (StartsWithTag(text) => valid) => <>(place = "returned")

-----------------------------------------------------------------------------
(* The inductive invariant behind them.                                     *)

\* Where the function may be, and what has happened by then to the file's buffer.
BufferInv ==
    /\ place # "crashed"
    /\ place = "load" => xmlFile = "null"
    /\ place \in {"skip", "parse", "error", "probe", "clean", "free"} => present /\ xmlFile = "live"
    /\ place = "returned" => xmlFile = IF present THEN "freed" ELSE "null"

\* The probe begins with the first partition and is complete before the clean-up.
ProbeInv ==
    /\ place \in {"load", "skip", "parse"} => probed = 0
    /\ place \in {"clean", "free"} \/ (place = "returned" /\ present) => probed = Partitions

\* Only blanks were passed, and a tag stands where the parser begins.
BlanksInv ==
    /\ place \in {"load", "skip", "parse"} => \A j \in 1..(start - 1) : text[j] = "blank"
    /\ place = "load" => start = 1
    /\ place = "parse" => AtTag

\* A document exists from the parser to the clean-up.
DocumentInv ==
    /\ place \in {"load", "skip", "parse"} => doc = "null"
    /\ place \in {"free", "returned"} => doc # "live"

(* The guard decides what it is to decide, for every text: the parser is    *)
(* given exactly the files whose first character that is no blank is "<",   *)
(* so that no metadata is dropped that could have been read.                *)
ParsesTagsOnly ==
    /\ place \in {"parse", "error"} => StartsWithTag(text)
    /\ place \in {"probe", "clean"} => doc = IF StartsWithTag(text) THEN "live" ELSE "null"

GInv ==
    /\ GuardTypeOK /\ BufferInv /\ ProbeInv /\ BlanksInv /\ DocumentInv /\ ParsesTagsOnly

\* How many steps the function has left at most; 0 in the parser's error path.
StepsLeft ==
    CASE place = "load"  -> Len(text) + Partitions + 7
      [] place = "skip"  -> Len(text) + 1 - start + Partitions + 6
      [] place = "parse" -> Partitions + 5
      [] place = "probe" -> Partitions - probed + 4
      [] place = "clean" -> 3
      [] place = "free"  -> 2
      [] OTHER           -> 0

(* Every step brings the function nearer to its end: neither the skipping of*)
(* blanks nor the probe can go on for ever, however long the file is.       *)
ComesToItsEnd == [][StepsLeft' < StepsLeft]_guardVars
=============================================================================
