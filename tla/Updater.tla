------------------------------- MODULE Updater -------------------------------
(***************************************************************************)
(* The self updater: requests download or upload an archive, extract its   *)
(* executable beside the running one, write its other files in place, and  *)
(* rename. A request writes through an open file, which stays the same     *)
(* file when it is renamed, or loses its name to another one.              *)
(*                                                                         *)
(* A file has two pieces, each from some archive or blank. "exe" is the    *)
(* executable, "new" and "old" its .new and .old, "lib" the other files of *)
(* the program, "stray" such a file in a directory where it is not found.  *)
(***************************************************************************)
EXTENDS Integers

CONSTANTS
  Request, Archive,
  Installed,        (* what is installed at first                             *)
  About,            (* [platform, zip, nested, version] of each archive       *)
  Version,          (* the version of the program that runs                   *)
  MaxFaults         (* bound on failing operations of the system              *)

Triple == Nat \X Nat \X Nat

ASSUME UpdaterConstants ==
  /\ Installed \notin Archive /\ MaxFaults \in Nat /\ Version \in Triple
  /\ About \in [Archive -> [platform : {"windows", "unix"}, zip : BOOLEAN, nested : BOOLEAN, version : Triple]]

VARIABLES
  windows,          (* runtime.GOOS, which never changes                      *)
  file,             (* the files of the directory                             *)
  image,            (* where the file of the running program is               *)
  req,              (* the requests: [at, archive, fd, piece, before, whole]  *)
  temp,             (* requests whose temporary archive is in the directory   *)
  spoilt,           (* what has happened that may spoil the installation      *)
  faults
vars == <<windows, file, image, req, temp, spoilt, faults>>

Name == {"exe", "new", "old", "lib", "stray"}
Place == Name \cup {"unlinked", "none"}
Absent == <<>>
Pieces(a, b) == <<a, b>>
All(c) == Pieces(c, c)
Content == Archive \cup {Installed, "blank"}
File == {Absent} \cup (Content \X Content)
Busy == {"fetch", "open", "exe", "libs", "lib", "retire", "move", "install", "rollback"}

TypeOK ==
  /\ windows \in BOOLEAN /\ file \in [Name -> File] /\ image \in Place
  /\ req \in [Request -> [at : Busy \cup {"idle", "ok", "failed"}, archive : Archive \cup {Installed}, fd : Place,
                          piece : 1..2, before : File, whole : BOOLEAN]]
  /\ temp \subseteq Request /\ spoilt \subseteq {"overlap", "foreign", "gap", "rollback"} /\ faults \in 0..MaxFaults

Platform == IF windows THEN "windows" ELSE "unix"
Fault == faults < MaxFaults /\ faults' = faults + 1

(* The archives whose executable this platform runs, and a file that runs.  *)
Native == {Installed} \cup {a \in Archive : About[a].platform = Platform}
Runs(f) == \E c \in Native : f = All(c)
-----------------------------------------------------------------------------
(* isNewer and findAsset: what CheckUpdate offers, a .zip for Windows and a  *)
(* .tar.gz for the others. ApplyLocalUpdate takes any .zip.                  *)

IsNewer(current, latest) ==
  \E i \in 1..3 : latest[i] > current[i] /\ \A j \in 1..(i - 1) : latest[j] = current[j]

Offered(a) == About[a].platform = Platform /\ (About[a].zip <=> windows) /\ IsNewer(Version, About[a].version)

Uploaded(a) == About[a].zip

(* The archive holds an executable of the same name, or else some .exe.      *)
HasExe(a) == About[a].platform = Platform \/ About[a].platform = "windows"
-----------------------------------------------------------------------------
(* The file system. On Windows a file that another request writes cannot be *)
(* moved or removed; the executable that runs can be moved, but neither     *)
(* replaced nor removed.                                                    *)

Held(r, n) == windows /\ \E s \in Request \ {r} : req[s].fd = n

CanRename(r, from, to) ==
  /\ file[from] # Absent /\ ~Held(r, from) /\ ~Held(r, to) /\ ~(windows /\ image = to)

Moved(place, from, to) == CASE place = from -> to [] place = to -> "unlinked" [] OTHER -> place

Rename(from, to) ==
  /\ file' = [file EXCEPT ![to] = file[from], ![from] = Absent]
  /\ image' = Moved(image, from, to)

CanRemove(r, n) == ~Held(r, n) /\ ~(windows /\ image = n)

Remove(r, n) == file' = IF CanRemove(r, n) THEN [file EXCEPT ![n] = Absent] ELSE file

(* What a request does next, while the open files of the others follow the  *)
(* rename or removal of a file.                                             *)
Then(r, next, from, to) ==
  req' = [s \in Request |-> IF s = r THEN next ELSE [req[s] EXCEPT !.fd = Moved(@, from, to)]]

ThenRemoved(r, next, n) ==
  req' = [s \in Request |->
            IF s = r THEN next
            ELSE IF CanRemove(r, n) /\ req[s].fd = n THEN [req[s] EXCEPT !.fd = "unlinked"] ELSE req[s]]

Unused(answer) ==
  [at |-> answer, archive |-> Installed, fd |-> "none", piece |-> 1, before |-> Absent, whole |-> TRUE]
At(r, at) == req[r].at = at
Goes(r, at) == req' = [req EXCEPT ![r].at = at]
Answers(r, answer) == req' = [req EXCEPT ![r] = Unused(answer)] /\ temp' = temp \ {r}
-----------------------------------------------------------------------------
(* A request; `before` is the executable it finds.                          *)
Ask(r, a) ==
  /\ image # "none" /\ req[r].at \notin Busy /\ (Offered(a) \/ Uploaded(a))
  /\ req' = [req EXCEPT ![r] = [Unused("fetch") EXCEPT !.archive = a, !.before = file["exe"]]]
  /\ temp' = temp \cup {r}
  /\ spoilt' = IF \E s \in Request : req[s].at \in Busy THEN spoilt \cup {"overlap"} ELSE spoilt
  /\ UNCHANGED <<windows, file, image, faults>>

(* The archive is in the temporary file, and its executable is found; or     *)
(* the request fails, as every download of a .tar.gz does.                   *)
Fetch(r) ==
  LET a == req[r].archive
  IN  /\ At(r, "fetch") /\ About[a].zip /\ HasExe(a) /\ Goes(r, "open")
      /\ spoilt' = IF a \in Native THEN spoilt ELSE spoilt \cup {"foreign"}
      /\ UNCHANGED <<windows, file, image, temp, faults>>

Refuse(r) ==
  /\ At(r, "fetch") /\ Answers(r, "failed")
  /\ \/ ~(About[req[r].archive].zip /\ HasExe(req[r].archive)) /\ UNCHANGED faults
     \/ Fault
  /\ UNCHANGED <<windows, file, image, spoilt>>

(* A bug: the executable is written where it is, as the other files are.    *)
InPlaceMutant(r) ==
  /\ At(r, "open")
  /\ req' = [req EXCEPT ![r] = [@ EXCEPT !.at = "exe", !.fd = "exe", !.piece = 1]]
  /\ file' = [file EXCEPT !["exe"] = All("blank"), !["new"] = All(req[r].archive)]
  /\ UNCHANGED <<windows, image, temp, spoilt, faults>>

(* os.OpenFile(exe.new, O_CREATE|O_WRONLY|O_TRUNC): truncates the file under *)
(* another request that writes it.                                           *)
CreateNew(r) ==
  /\ At(r, "open")
  /\ req' = [req EXCEPT ![r] = [@ EXCEPT !.at = "exe", !.fd = "new", !.piece = 1]]
  /\ file' = [file EXCEPT !["new"] = All("blank")]
  /\ UNCHANGED <<windows, image, temp, spoilt, faults>>

CreateFails(r) ==
  /\ At(r, "open") /\ Fault /\ Answers(r, "failed")
  /\ UNCHANGED <<windows, file, image, spoilt>>

Put(r) ==
  file' = IF req[r].fd \in Name
            THEN [file EXCEPT ![req[r].fd] =
                    IF req[r].piece = 1 THEN Pieces(req[r].archive, @[2]) ELSE Pieces(@[1], req[r].archive)]
            ELSE file

(* A bug: the file is closed a piece too late. *)
OneMoreMutant(r, next) ==
  req' = [req EXCEPT ![r] = IF @.piece <= 2 THEN [@ EXCEPT !.piece = @ + 1]
                            ELSE [@ EXCEPT !.at = next, !.fd = "none", !.piece = 1]]

(* io.Copy goes on, or the file is closed. *)
Advance(r, next) ==
  req' = [req EXCEPT ![r] = IF @.piece < 2 THEN [@ EXCEPT !.piece = 2]
                            ELSE [@ EXCEPT !.at = next, !.fd = "none", !.piece = 1]]

WriteExe(r) ==
  /\ At(r, "exe") /\ Put(r) /\ Advance(r, "libs")
  /\ UNCHANGED <<windows, image, temp, spoilt, faults>>

WriteExeFails(r) ==
  /\ At(r, "exe") /\ Fault
  /\ Remove(r, "new") /\ ThenRemoved(r, Unused("failed"), "new")
  /\ temp' = temp \ {r}
  /\ UNCHANGED <<windows, image, spoilt>>

(* The other files are truncated and written in place. The first directory   *)
(* of their names is taken off, whether or not all of the archive is in it.  *)
LibPath(a) == IF About[a].nested THEN "lib" ELSE "stray"

OpenLib(r) ==
  /\ At(r, "libs")
  /\ LET n == LibPath(req[r].archive)
     IN  /\ file' = [file EXCEPT ![n] = All("blank")]
         /\ req' = [req EXCEPT ![r] = [@ EXCEPT !.at = "lib", !.fd = n, !.piece = 1, !.whole = n = "lib"]]
  /\ UNCHANGED <<windows, image, temp, spoilt, faults>>

WriteLib(r) ==
  /\ At(r, "lib") /\ Put(r) /\ Advance(r, "retire")
  /\ UNCHANGED <<windows, image, temp, spoilt, faults>>

(* extractFile's error is ignored. *)
LibFails(r) ==
  /\ At(r, "libs") \/ At(r, "lib")
  /\ Fault
  /\ req' = [req EXCEPT ![r] = [@ EXCEPT !.at = "retire", !.fd = "none", !.piece = 1, !.whole = FALSE]]
  /\ UNCHANGED <<windows, file, image, temp, spoilt>>

(* os.Remove(exe.old), whose error is ignored. *)
Retire(r) ==
  /\ At(r, "retire")
  /\ \/ Remove(r, "old") /\ ThenRemoved(r, [req[r] EXCEPT !.at = "move"], "old") /\ UNCHANGED faults
     \/ Goes(r, "move") /\ Fault /\ UNCHANGED file
  /\ UNCHANGED <<windows, image, temp, spoilt>>

(* Unix: the new executable takes the name of the old one. On an error it    *)
(* stays beside it.                                                          *)
Replace(r) ==
  /\ At(r, "move") /\ ~windows /\ CanRename(r, "new", "exe")
  /\ Rename("new", "exe") /\ Then(r, Unused("ok"), "new", "exe")
  /\ temp' = temp \ {r}
  /\ UNCHANGED <<windows, spoilt, faults>>

ReplaceFails(r) ==
  /\ At(r, "move") /\ ~windows /\ Answers(r, "failed")
  /\ \/ ~CanRename(r, "new", "exe") /\ UNCHANGED faults
     \/ Fault
  /\ UNCHANGED <<windows, file, image, spoilt>>

(* Windows: the old executable is moved away, and the new one takes its name. *)
MoveAway(r) ==
  /\ At(r, "move") /\ windows /\ CanRename(r, "exe", "old")
  /\ Rename("exe", "old") /\ Then(r, [req[r] EXCEPT !.at = "install"], "exe", "old")
  /\ UNCHANGED <<windows, temp, spoilt, faults>>

MoveAwayFails(r) ==
  /\ At(r, "move") /\ windows
  /\ \/ ~CanRename(r, "exe", "old") /\ UNCHANGED faults
     \/ Fault
  /\ Remove(r, "new") /\ ThenRemoved(r, Unused("failed"), "new")
  /\ temp' = temp \ {r}
  /\ UNCHANGED <<windows, image, spoilt>>

Install(r) ==
  /\ At(r, "install") /\ CanRename(r, "new", "exe")
  /\ Rename("new", "exe") /\ Then(r, Unused("ok"), "new", "exe")
  /\ temp' = temp \ {r}
  /\ UNCHANGED <<windows, spoilt, faults>>

InstallFails(r) ==
  /\ At(r, "install") /\ Goes(r, "rollback")
  /\ \/ ~CanRename(r, "new", "exe") /\ UNCHANGED faults
     \/ Fault
  /\ UNCHANGED <<windows, file, image, temp, spoilt>>

(* A bug: the error is returned, and the old executable left where it is.    *)
NoRollbackMutant(r) ==
  /\ At(r, "rollback") /\ Answers(r, "failed")
  /\ UNCHANGED <<windows, file, image, spoilt, faults>>

Rollback(r) ==
  /\ At(r, "rollback") /\ CanRename(r, "old", "exe")
  /\ Rename("old", "exe") /\ Then(r, Unused("failed"), "old", "exe")
  /\ temp' = temp \ {r}
  /\ UNCHANGED <<windows, spoilt, faults>>

(* Its error is ignored. *)
RollbackFails(r) ==
  /\ At(r, "rollback") /\ Answers(r, "failed")
  /\ \/ ~CanRename(r, "old", "exe") /\ UNCHANGED faults
     \/ Fault
  /\ spoilt' = spoilt \cup {"rollback"}
  /\ UNCHANGED <<windows, file, image>>
-----------------------------------------------------------------------------
(* The program ends, restarted by the user or not: its requests end, their  *)
(* temporary archives stay.                                                 *)
Die ==
  /\ image # "none" /\ image' = "none"
  /\ req' = [s \in Request |-> Unused("idle")]
  /\ spoilt' = IF \E s \in Request : req[s].at \in {"install", "rollback"} THEN spoilt \cup {"gap"} ELSE spoilt
  /\ UNCHANGED <<windows, file, temp, faults>>

Launch ==
  /\ image = "none" /\ Runs(file["exe"]) /\ image' = "exe"
  /\ UNCHANGED <<windows, file, req, temp, spoilt, faults>>

Init ==
  /\ windows \in BOOLEAN /\ image = "exe" /\ temp = {} /\ spoilt = {} /\ faults = 0
  /\ file = [n \in Name |-> IF n \in {"exe", "lib"} THEN All(Installed) ELSE Absent]
  /\ req = [r \in Request |-> Unused("idle")]

RequestStep(r) ==
  \/ \E a \in Archive : Ask(r, a)
  \/ Fetch(r) \/ Refuse(r) \/ CreateNew(r) \/ CreateFails(r) \/ WriteExe(r) \/ WriteExeFails(r)
  \/ OpenLib(r) \/ WriteLib(r) \/ LibFails(r) \/ Retire(r)
  \/ Replace(r) \/ ReplaceFails(r) \/ MoveAway(r) \/ MoveAwayFails(r)
  \/ Install(r) \/ InstallFails(r) \/ Rollback(r) \/ RollbackFails(r)

Next == Die \/ Launch \/ \E r \in Request : RequestStep(r)

Spec == Init /\ [][Next]_vars
-----------------------------------------------------------------------------
(* Whatever fails and wherever the program dies, there is a whole            *)
(* executable that runs: the one of its name, or, on Windows only and only   *)
(* while a request is between its two renames, died there or could not roll  *)
(* back, the .old. This does not hold once two requests overlapped, since    *)
(* both write exe.new, or a Windows archive was applied elsewhere.           *)
StaysRunnable ==
  spoilt \cap {"overlap", "foreign"} = {} =>
    \/ Runs(file["exe"])
    \/ /\ windows /\ file["exe"] = Absent /\ Runs(file["old"])
       /\ \/ \E r \in Request : req[r].at \in {"install", "rollback"}
          \/ spoilt \cap {"gap", "rollback"} # {}

(* What an answer to r has to agree with, in the step that gives it.        *)
Truthful(r) ==
  req[r].at \in Busy /\ "overlap" \notin spoilt =>
    /\ req'[r].at = "ok" => /\ file'["exe"] = All(req[r].archive)
                            /\ req[r].whole => file'["lib"] = All(req[r].archive)
    /\ req'[r].at = "failed" =>
         \/ file'["exe"] = req[r].before
         \/ file'["exe"] = Absent /\ "rollback" \in spoilt' /\ file'["old"] = req[r].before

(* The answer to a request tells what was done: "Update applied" only with   *)
(* the whole new executable in place, and its other files unless one of them *)
(* could not be written or was put elsewhere; an error only with the old     *)
(* executable in place, or, when the rollback failed, as the .old. The other *)
(* files may be the new ones even so.                                        *)
AnswerIsTrue == [][\A r \in Request : Truthful(r)]_vars
=============================================================================
