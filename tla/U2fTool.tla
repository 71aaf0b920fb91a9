------------------------------- MODULE U2fTool -------------------------------
(***************************************************************************)
(* xpra.gtk.dialogs.u2f_tool.main(): the U2F registration tool, run again  *)
(* and again by a user against the files in the user's configuration      *)
(* directories.  Directories are numbered in the order get_user_conf_dirs()*)
(* lists them; the tool saves into the first.  A file is <<dir, name>>.    *)
(* Dialogs and printed messages, the key bytes and the glob of existing    *)
(* public keys (reported, never used) are left out: they change no state.  *)
(* load_binary_file() of a missing file is b"", an empty key handle.       *)
(***************************************************************************)
EXTENDS Naturals

CONSTANT NConfDirs   \* len(get_user_conf_dirs())

ConfDirs == 1..NConfDirs

KEY_HANDLE == "u2f-keyhandle.hex"

VARIABLES
  files,   \* the files that exist in the configuration directories
  made,    \* the configuration directories that exist
  pc,      \* where main() is: "idle" between runs
  k,       \* index of the key handle file the first loop examines
  i,       \* the public key file counter of the naming loop
  status   \* the exit code of the last run

vars == <<files, made, pc, k, i, status>>

\* A user who has never registered.
Init ==
  /\ files = {}
  /\ made = {}
  /\ pc = "idle"
  /\ k = 1
  /\ i = 1
  /\ status = 0

\* The user starts the tool.
Run ==
  /\ pc = "idle"
  /\ pc' = "check" /\ k' = 1
  /\ UNCHANGED <<files, made, i, status>>

\* The loop over key_handle_filenames: an existing (non-empty) key handle
\* ends the run with 1; after the last directory the tool goes on.
CheckKeyHandle ==
  /\ pc = "check"
  /\ IF <<k, KEY_HANDLE>> \in files
       THEN pc' = "idle" /\ status' = 1 /\ UNCHANGED k
     ELSE IF k = NConfDirs
       THEN pc' = "mkdir" /\ UNCHANGED <<k, status>>
     ELSE k' = k + 1 /\ UNCHANGED <<pc, status>>
  /\ UNCHANGED <<files, made, i>>

\* conf_dir is the first directory; it is created when missing.
MakeConfDir ==
  /\ pc = "mkdir"
  /\ made' = made \cup {1}
  /\ pc' = "open"
  /\ UNCHANGED <<files, k, i, status>>

\* GetLocalU2FInterface(): no device ends the run with 1.
OpenDevice ==
  /\ pc = "open"
  /\ \E found \in BOOLEAN :
       IF found THEN pc' = "register" /\ UNCHANGED status
                ELSE pc' = "idle" /\ status' = 1
  /\ UNCHANGED <<files, made, k, i>>

\* dev.Register(): the user touches the device, or it raises (a timeout),
\* which nothing catches: the interpreter exits with 1.
Register ==
  /\ pc = "register"
  /\ \E touched \in BOOLEAN :
       IF touched THEN pc' = "save" /\ UNCHANGED status
                  ELSE pc' = "idle" /\ status' = 1
  /\ UNCHANGED <<files, made, k, i>>

\* The key handle is written to the first directory's file; i = 1.
SaveKeyHandle ==
  /\ pc = "save"
  /\ files' = files \cup {<<1, KEY_HANDLE>>}
  /\ i' = 1
  /\ pc' = "pick"
  /\ UNCHANGED <<made, k, status>>

\* "u2f%s-pub.hex" % c, where c is "" for i = 1 and the unformatted "-%i"
\* after that.
PubName(n) == IF n > 1 THEN "u2f-%i-pub.hex" ELSE "u2f-pub.hex"

\* One turn of the while loop: a free name is written and the run ends
\* with 0; a taken one goes round again, with i as it was.
PickName ==
  /\ pc = "pick"
  /\ IF <<1, PubName(i)>> \in files
       THEN UNCHANGED <<files, pc, status>>
       ELSE /\ files' = files \cup {<<1, PubName(i)>>}
            /\ pc' = "idle"
            /\ status' = 0
  /\ UNCHANGED <<made, k, i>>

\* Between runs the user deletes a file, as the tool asks when it finds a
\* key handle ("delete this file if you want to register again").
DeleteFile ==
  /\ pc = "idle"
  /\ \E f \in files : files' = files \ {f}
  /\ UNCHANGED <<made, pc, k, i, status>>

Tool == CheckKeyHandle \/ MakeConfDir \/ OpenDevice \/ Register
          \/ SaveKeyHandle \/ PickName

Next == Run \/ Tool \/ DeleteFile

\* main() runs to completion once started; the user acts when they like.
Spec == Init /\ [][Next]_vars /\ WF_vars(Tool)

-----------------------------------------------------------------------------
TypeOK ==
  /\ files \subseteq ConfDirs \X {KEY_HANDLE, PubName(1), PubName(2)}
  /\ made \subseteq ConfDirs
  /\ pc \in {"idle", "check", "mkdir", "open", "register", "save", "pick"}
  /\ k \in ConfDirs /\ i \in Nat
  /\ status \in {0, 1}

(* Every run of main() returns: once the tool is started it comes back to *)
(* the prompt, with a key saved or an error, whatever files a previous   *)
(* registration left and the user removed.                               *)
RegistrationEnds == (pc # "idle") ~> (pc = "idle")

=============================================================================
