---------------------------- MODULE NotifierBase ----------------------------
(***************************************************************************)
(* xpra.notifications.notifier_base.NotifierBase: the temporary icon files *)
(* of notifications.  A backend's show_notify() turns a notification's    *)
(* icon into a file name with get_icon_string(), which writes image data   *)
(* to a new temporary file and records it under the notification id in    *)
(* self.temp_files; clean_notification(nid) removes that file when the     *)
(* notification closes, and cleanup() is meant to remove them all.        *)
(*                                                                         *)
(* The backends (show_notify) are not among the sources; each is a caller  *)
(* that may show any notification id, again and again (replaces_nid), and  *)
(* that checks dbus_check() first.  File names are the numbers 1..n of the *)
(* files NamedTemporaryFile creates.                                       *)
(***************************************************************************)
EXTENDS Naturals, FiniteSets, Functions, TLC

CONSTANTS
  Nids,        \* notification ids
  AppIcons,    \* app_icon arguments: "", themed icon names, absolute paths
  AbsPaths,    \* the absolute paths among them
  IconExts,    \* icon[0] of icon arguments: "none" (no icon), or a format
  DbusIds,     \* dbus_id arguments of show_notify
  LocalDbusId, \* DBUS_SESSION_BUS_ADDRESS of this process
  MaxIcons     \* bound: temporary files created

\* The icon formats get_icon_string writes to a file.
ImageExts == {"png", "webp", "jpeg"}

VARIABLES
  temp_files,  \* self.temp_files, as a function from its keys
  disk,        \* the temporary icon files that exist
  created      \* temporary files created so far

vars == <<temp_files, disk, created>>

Init ==
  /\ temp_files = [n \in {} |-> 0]
  /\ disk = {}
  /\ created = 0

\* dbus_check(dbus_id): refuse a notification that came from our own bus.
DbusCheck(dbus_id) == ~(dbus_id # "" /\ dbus_id = LocalDbusId)

\* clean_notification(nid): pop the entry and unlink its file; a failed
\* unlink is only logged.
CleanNotification(nid) ==
  /\ temp_files' = [n \in DOMAIN temp_files \ {nid} |-> temp_files[n]]
  /\ disk' = IF nid \in DOMAIN temp_files THEN disk \ {temp_files[nid]} ELSE disk

\* get_icon_string(nid, app_icon, icon): a relative app_icon is returned as
\* it is, no icon gives "", and an image in one of ImageExts is written to
\* a new temporary file recorded as temp_files[nid]; other formats give "".
GetIconString(nid, app_icon, ext) ==
  IF (app_icon # "" /\ app_icon \notin AbsPaths) \/ ext \notin ImageExts
  THEN UNCHANGED <<temp_files, disk, created>>
  ELSE /\ created < MaxIcons
       /\ created' = created + 1
       /\ disk' = disk \cup {created + 1}
       /\ temp_files' = (nid :> (created + 1)) @@ temp_files

-----------------------------------------------------------------------------
\* A backend's show_notify(): dbus_check(), then get_icon_string().
ShowNotify(dbus_id, nid, app_icon, ext) ==
  /\ DbusCheck(dbus_id)
  /\ GetIconString(nid, app_icon, ext)

\* The notification closes: clean_notification(nid).
CloseNotification(nid) ==
  /\ CleanNotification(nid)
  /\ UNCHANGED created

\* cleanup(): if there are temp files, replace the dict by an empty one and
\* call clean_notification for each key of self.temp_files, which is the
\* new, empty dict: no file is unlinked.
Cleanup ==
  /\ DOMAIN temp_files # {}
  /\ temp_files' = [n \in {} |-> 0]
  /\ UNCHANGED <<disk, created>>

Next ==
  \/ \E d \in DbusIds, n \in Nids, a \in AppIcons, e \in IconExts :
       ShowNotify(d, n, a, e)
  \/ \E n \in Nids : CloseNotification(n)
  \/ Cleanup

Spec == Init /\ [][Next]_vars

-----------------------------------------------------------------------------
(* Every temporary icon file get_icon_string() leaves on disk is still   *)
(* recorded in temp_files, so that clean_notification() or cleanup() can *)
(* remove it: no icon file is orphaned, whether a notification replaces  *)
(* an earlier one with the same id or the notifier is cleaned up.        *)
NoOrphanIcon == disk \subseteq Range(temp_files)

=============================================================================
