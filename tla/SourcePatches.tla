--------------------------- MODULE SourcePatches ---------------------------
(* The table of the repository's patch tools: which files each one edits,   *)
(* in which order it checks, writes, verifies and reports, and where in the *)
(* text its hunks, markers and anchors are.  It is the value of the         *)
(* constants of Patcher.                                                    *)
EXTENDS Naturals, Sequences

RecoveryPatch == {"exclude_app", "storage_guard", "sideload", "rtc", "date_props",
                  "root_parent", "mtp_receive", "mtp_send", "ors"}
CorePatch     == {"force_ffs", "recovery_shell", "pty", "sync_worker", "selector"}
AllPatch      == RecoveryPatch \cup CorePatch \cup {"data_policy"}

RecoveryFile == {"Android.mk", "portrait.xml", "partitionmanager.cpp", "adb_install.cpp",
                 "twrp-functions.cpp", "MtpStorage.cpp", "MtpServer.cpp", "orscmd.h"}
CoreFile     == {"main.cpp", "usb_linux_client.cpp", "shell_service.cpp", "services.cpp", "util.cpp"}
AllFile      == RecoveryFile \cup CoreFile \cup {"recovery.te", "domain.te"}

Check(fs)  == [op |-> "check", on |-> fs]
Write(f)   == [op |-> "write", on |-> {f}]
Verify(fs) == [op |-> "verify", on |-> fs]
Report     == [op |-> "report", on |-> {}]

OneFile(f) == <<Check({f}), Write(f)>>

ForceFfs     == <<Check({"main.cpp", "usb_linux_client.cpp"}), Write("main.cpp"),
                  Write("usb_linux_client.cpp"), Report>>
RecoveryShell == OneFile("shell_service.cpp") \o <<Report>>
Pty          == OneFile("shell_service.cpp") \o <<Report>>
SyncWorker   == <<Check({"services.cpp", "main.cpp"}), Write("services.cpp"), Write("main.cpp"), Report>>
Selector     == OneFile("util.cpp") \o <<Report>>
ExcludeApp   == <<Check({"Android.mk", "portrait.xml"}), Write("Android.mk"), Write("portrait.xml"),
                  Verify({"Android.mk", "portrait.xml"})>>
StorageGuard == OneFile("partitionmanager.cpp") \o <<Report>>
Sideload     == OneFile("adb_install.cpp")
Rtc          == OneFile("twrp-functions.cpp")
DateProps    == OneFile("MtpStorage.cpp")
RootParent   == OneFile("MtpServer.cpp")
MtpReceive   == OneFile("MtpServer.cpp")
MtpSend      == OneFile("MtpServer.cpp")
Ors          == OneFile("orscmd.h")
\* The one tool that writes its first file before it has looked at its second.
DataPolicy   == OneFile("recovery.te") \o OneFile("domain.te") \o <<Report>>

ProgramOf ==
    [p \in AllPatch |->
        CASE p = "force_ffs"      -> ForceFfs
          [] p = "recovery_shell" -> RecoveryShell
          [] p = "pty"            -> Pty
          [] p = "sync_worker"    -> SyncWorker
          [] p = "selector"       -> Selector
          [] p = "exclude_app"    -> ExcludeApp
          [] p = "storage_guard"  -> StorageGuard
          [] p = "sideload"       -> Sideload
          [] p = "rtc"            -> Rtc
          [] p = "date_props"     -> DateProps
          [] p = "root_parent"    -> RootParent
          [] p = "mtp_receive"    -> MtpReceive
          [] p = "mtp_send"       -> MtpSend
          [] p = "ors"            -> Ors
          [] p = "data_policy"    -> DataPolicy]

Files(p) == UNION {ProgramOf[p][i].on : i \in DOMAIN ProgramOf[p]}

-----------------------------------------------------------------------------
(* Where the tools touch each file, in text order.  A place says whose hunk *)
(* is there, whose anchor, and whose marker is inside the hunk.  An anchor  *)
(* with a hunk of the same tool is replaced; one on a place of its own is   *)
(* still there after the edit.  An anchor that an anchor of the same tool   *)
(* always follows is not listed, and neither are the includes of unistd.h   *)
(* that two tools add where they are missing.                               *)

Touched(hunk, anchor, mark) == [hunk |-> hunk, anchor |-> anchor, mark |-> mark]

Inserts(p)  == Touched({p}, {}, {})     \* a hunk
Marks(p)    == Touched({p}, {}, {p})    \* a hunk with the marker
Replaces(p) == Touched({p}, {p}, {})    \* a hunk in the place of an anchor
Claims(p)   == Touched({p}, {p}, {p})   \* the same with the marker
Finds(p)    == Touched({}, {p}, {})     \* an anchor that stays

\* The transition for raw shells is code of recovery_shell and an anchor of pty.
RawTransition == Touched({"recovery_shell", "pty"}, {"pty"}, {})

LayoutOf(f) ==
    CASE f = "Android.mk" -> <<Inserts("exclude_app"), Finds("exclude_app"), Marks("exclude_app")>>
      [] f = "portrait.xml" -> <<Replaces("exclude_app"), Replaces("exclude_app")>>
      [] f = "partitionmanager.cpp" ->
            <<Marks("storage_guard"), Replaces("storage_guard"), Finds("storage_guard")>>
      [] f = "adb_install.cpp" -> <<Marks("sideload"), Marks("sideload"), Finds("sideload")>>
      [] f = "twrp-functions.cpp" -> <<Inserts("rtc"), Marks("rtc"), Finds("rtc")>>
      [] f = "MtpStorage.cpp" ->
            <<Inserts("date_props"), Marks("date_props"), Replaces("date_props"), Replaces("date_props")>>
      [] f = "MtpServer.cpp" ->
            <<Marks("mtp_send"), Replaces("mtp_send"), Finds("mtp_send"), Claims("root_parent"),
              Marks("mtp_receive"), Finds("root_parent"), Replaces("mtp_receive"), Finds("mtp_receive")>>
      [] f = "orscmd.h" -> <<Replaces("ors")>>
      [] f = "main.cpp" ->
            <<Inserts("sync_worker"), Claims("force_ffs"), Finds("force_ffs"), Claims("sync_worker")>>
      [] f = "usb_linux_client.cpp" -> <<Claims("force_ffs")>>
      [] f = "services.cpp" -> <<Inserts("sync_worker"), Marks("sync_worker"), Replaces("sync_worker")>>
      [] f = "util.cpp" -> <<Claims("selector")>>
      [] f = "shell_service.cpp" ->
            <<Inserts("recovery_shell"), Marks("pty"), Replaces("pty"), Claims("recovery_shell"),
              RawTransition, Finds("recovery_shell")>>
      [] f = "recovery.te" -> <<Replaces("data_policy")>>
      [] f = "domain.te" -> <<Marks("data_policy"), Finds("data_policy")>>

Layout == [f \in AllFile |-> LayoutOf(f)]

PastEnd == [f \in AllFile |-> Len(Layout[f]) + 1]

Places(files, patches) ==
    UNION {[in : {f}, of : patches, at : DOMAIN Layout[f]] : f \in files}
HunksOf(files, patches)   == {h \in Places(files, patches) : h.of \in Layout[h.in][h.at].hunk}
AnchorsOf(files, patches) == {h \in Places(files, patches) : h.of \in Layout[h.in][h.at].anchor}
MarksOf(files, patches)   == {h \in Places(files, patches) : h.of \in Layout[h.in][h.at].mark}

RequiresMarker == [p \in AllPatch |-> IF p = "pty" THEN {"recovery_shell"} ELSE {}]

\* What a fetch may bring for each hunk: exclude_app verifies after it has
\* written and looks at the rebootcheck page of portrait.xml only, and
\* recovery.te is counted line by line but replaced as a block.
HunkShapes(p, f) ==
    {"pinned", "drifted"}
        \cup (IF p = "exclude_app" THEN {"odd"} ELSE {})
        \cup (IF f = "portrait.xml" THEN {"extra"} ELSE {})
        \cup (IF f = "recovery.te" THEN {"split"} ELSE {})

\* The patch steps of the workflow in order, with the repositories whose commit
\* is compared with the qualified one before the first tool runs.
Single(p) == [need |-> {}, run |-> <<p>>]

WorkflowStage ==
    <<Single("exclude_app"), Single("storage_guard"), Single("sideload"), Single("rtc"),
      Single("date_props"), Single("root_parent"), Single("mtp_receive"), Single("mtp_send"),
      Single("ors"),
      [need |-> {"core", "bionic"},
       run |-> <<"force_ffs", "recovery_shell", "pty", "sync_worker", "selector">>],
      Single("data_policy")>>
=============================================================================
