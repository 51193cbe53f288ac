--------------------------- MODULE Updater_proofs ---------------------------
(***************************************************************************)
(* Theorems about Updater, for every set of requests and archives and any  *)
(* number of faults.                                                       *)
(*                                                                         *)
(* As long as no two requests overlapped, Shape says where the request in  *)
(* flight has its open file, and Progress what it has made of the files.   *)
(***************************************************************************)
EXTENDS Updater, TLAPS

InUse(r) == req[r].at \in Busy
Calm == "overlap" \notin spoilt

Single == \A r, s \in Request : InUse(r) /\ InUse(s) => r = s

Shape(r) ==
  /\ req[r].at = "exe" => req[r].fd = "new"
  /\ req[r].at = "lib" => req[r].fd \in {"lib", "stray"} /\ (req[r].whole => req[r].fd = "lib")
  /\ req[r].at \notin {"exe", "lib"} => req[r].fd = "none"
  /\ req[r].at \in {"install", "rollback"} => windows
  /\ InUse(r) => image # "none"

Extracted == {"libs", "lib", "retire", "move", "install"}
Between == {"install", "rollback"}

Progress(r) ==
  /\ req[r].at = "exe" /\ req[r].piece = 2 => file["new"][1] = req[r].archive
  /\ req[r].at \in Extracted => file["new"] = All(req[r].archive)
  /\ req[r].at = "lib" /\ req[r].piece = 2 /\ req[r].whole => file["lib"][1] = req[r].archive
  /\ req[r].at \in {"retire", "move", "install"} /\ req[r].whole => file["lib"] = All(req[r].archive)
  /\ req[r].at \in Busy \ Between => file["exe"] = req[r].before
  /\ req[r].at \in Between => file["exe"] = Absent /\ file["old"] = req[r].before

NativeArchive(r) ==
  "foreign" \notin spoilt /\ req[r].at \in Busy \ {"fetch"} => req[r].archive \in Native

RequestInv(r) == Shape(r) /\ Progress(r) /\ NativeArchive(r)

ImageInv == windows => image \in {"exe", "old", "none"} /\ (file["exe"] = Absent => image # "exe")

Runnable ==
  "foreign" \notin spoilt =>
    \/ Runs(file["exe"])
    \/ /\ windows /\ file["exe"] = Absent /\ Runs(file["old"])
       /\ (\E r \in Request : req[r].at \in Between) \/ spoilt \cap {"gap", "rollback"} # {}

CalmInv == Calm => Single /\ ImageInv /\ Runnable /\ \A r \in Request : RequestInv(r)
-----------------------------------------------------------------------------
RequestType ==
  [at : Busy \cup {"idle", "ok", "failed"}, archive : Archive \cup {Installed}, fd : Place,
   piece : 1..2, before : File, whole : BOOLEAN]

LEMMA TypeParts ==
  TypeOK <=> /\ windows \in BOOLEAN /\ file \in [Name -> File] /\ image \in Place
             /\ req \in [Request -> RequestType]
             /\ temp \subseteq Request /\ spoilt \subseteq {"overlap", "foreign", "gap", "rollback"}
             /\ faults \in 0..MaxFaults
BY DEF TypeOK, RequestType

LEMMA Files == ASSUME NEW c \in Content, NEW d \in Content PROVE Pieces(c, d) \in File /\ All(c) \in File
BY DEF Pieces, All, File

LEMMA AbsentFile == Absent \in File
BY DEF File

LEMMA UnusedType ==
  ASSUME NEW answer \in Busy \cup {"idle", "ok", "failed"}
  PROVE  /\ Unused(answer) \in RequestType
         /\ Unused(answer).at = answer /\ Unused(answer).fd = "none"
BY AbsentFile DEF Unused, RequestType, Place

LEMMA MovedType ==
  ASSUME NEW place \in Place, NEW from \in Name, NEW to \in Name
  PROVE  Moved(place, from, to) \in Place
BY DEF Moved, Place

LEMMA RenameType ==
  ASSUME TypeOK, NEW from \in Name, NEW to \in Name, Rename(from, to)
  PROVE  file' \in [Name -> File] /\ image' \in Place
<1>1. file' \in [Name -> File]
  BY AbsentFile, TypeParts DEF Rename
<1>2. image' \in Place
  BY MovedType, TypeParts DEF Rename
<1> QED
  BY <1>1, <1>2

LEMMA RemoveType ==
  ASSUME TypeOK, NEW r, NEW n \in Name, Remove(r, n)
  PROVE  file' \in [Name -> File]
BY AbsentFile, TypeParts DEF Remove

LEMMA GoesType ==
  ASSUME TypeOK, NEW r \in Request, NEW at \in Busy, Goes(r, at)
  PROVE  req' \in [Request -> RequestType]
<1>1. req[r] \in RequestType
  BY TypeParts
<1>2. [req[r] EXCEPT !.at = at] \in RequestType
  BY <1>1 DEF RequestType
<1> QED
  BY <1>2, TypeParts DEF Goes

LEMMA AnswersType ==
  ASSUME TypeOK, NEW r \in Request, NEW answer \in {"ok", "failed"}, Answers(r, answer)
  PROVE  req' \in [Request -> RequestType] /\ temp' \subseteq Request
<1>1. Unused(answer) \in RequestType
  BY UnusedType
<1> QED
  BY <1>1, TypeParts DEF Answers

LEMMA ThenType ==
  ASSUME TypeOK, NEW r \in Request, NEW next \in RequestType, NEW from \in Name, NEW to \in Name,
         Then(r, next, from, to)
  PROVE  req' \in [Request -> RequestType]
<1>1. ASSUME NEW s \in Request
      PROVE  [req[s] EXCEPT !.fd = Moved(req[s].fd, from, to)] \in RequestType
  <2>1. req[s] \in RequestType
    BY TypeParts
  <2>2. Moved(req[s].fd, from, to) \in Place
    BY <2>1, MovedType DEF RequestType
  <2> QED
    BY <2>1, <2>2 DEF RequestType
<1> QED
  BY <1>1 DEF Then

LEMMA ThenRemovedType ==
  ASSUME TypeOK, NEW r \in Request, NEW next \in RequestType, NEW n \in Name, ThenRemoved(r, next, n)
  PROVE  req' \in [Request -> RequestType]
<1>1. ASSUME NEW s \in Request
      PROVE  req[s] \in RequestType /\ [req[s] EXCEPT !.fd = "unlinked"] \in RequestType
  <2>1. req[s] \in RequestType
    BY TypeParts
  <2> QED
    BY <2>1 DEF RequestType, Place
<1> QED
  BY <1>1 DEF ThenRemoved

LEMMA AdvanceType ==
  ASSUME TypeOK, NEW r \in Request, NEW next \in Busy, Advance(r, next)
  PROVE  req' \in [Request -> RequestType]
<1>1. req[r] \in RequestType
  BY TypeParts
<1>2. [req[r] EXCEPT !.piece = 2] \in RequestType
  BY <1>1 DEF RequestType
<1>3. [req[r] EXCEPT !.at = next, !.fd = "none", !.piece = 1] \in RequestType
  <2>1. "none" \in Place /\ 1 \in 1..2 /\ next \in Busy \cup {"idle", "ok", "failed"}
    BY DEF Place
  <2> QED
    BY <1>1, <2>1 DEF RequestType
<1>4. req' = [req EXCEPT ![r] = IF req[r].piece < 2 THEN [req[r] EXCEPT !.piece = 2]
                                ELSE [req[r] EXCEPT !.at = next, !.fd = "none", !.piece = 1]]
  BY DEF Advance
<1> QED
  BY <1>2, <1>3, <1>4, TypeParts

LEMMA FaultType == ASSUME TypeOK, Fault PROVE faults' \in 0..MaxFaults
BY UpdaterConstants, TypeParts DEF Fault

(* A request writes only while it extracts, and what it writes exists.      *)
OpenInv ==
  \A r \in Request : /\ req[r].at \notin {"exe", "lib"} => req[r].fd = "none"
                     /\ req[r].fd \in Name => file[req[r].fd] # Absent

LEMMA PutType ==
  ASSUME TypeOK, OpenInv, NEW r \in Request, Put(r)
  PROVE  file' \in [Name -> File] /\ \A n \in Name : file[n] # Absent => file'[n] # Absent
<1>1. req[r].archive \in Content
  <2>1. req[r] \in RequestType
    BY TypeParts
  <2> QED
    BY <2>1 DEF RequestType, Content
<1>2. CASE req[r].fd \in Name
  <2> DEFINE n == req[r].fd
             new == IF req[r].piece = 1 THEN Pieces(req[r].archive, file[n][2]) ELSE Pieces(file[n][1], req[r].archive)
  <2>1. file[n] \in Content \X Content
    BY <1>2, TypeParts DEF OpenInv, File
  <2>2. new \in File /\ new # Absent
    BY <1>1, <2>1, Files DEF Pieces, Absent
  <2>3. file' = [file EXCEPT ![n] = new]
    BY <1>2 DEF Put
  <2> HIDE DEF new
  <2> QED
    BY <1>2, <2>2, <2>3, TypeParts
<1>3. CASE req[r].fd \notin Name
  BY <1>3, TypeParts DEF Put
<1> QED
  BY <1>2, <1>3

LEMMA AbsentIsNone == \A c : All(c) # Absent
BY DEF All, Pieces, Absent

(* When a name passes to another file, so do the open files.                *)
LEMMA OpenMoves ==
  ASSUME TypeOK, OpenInv, NEW r \in Request, NEW next \in RequestType, next.fd = "none",
         NEW from \in Name, NEW to \in Name, from # to, file[from] # Absent,
         Rename(from, to), Then(r, next, from, to)
  PROVE  OpenInv'
<1> SUFFICES ASSUME NEW s \in Request
             PROVE  /\ req'[s].at \notin {"exe", "lib"} => req'[s].fd = "none"
                    /\ req'[s].fd \in Name => file'[req'[s].fd] # Absent
  BY DEF OpenInv
<1>1. CASE s = r
  <2>1. req'[s] = next
    BY <1>1 DEF Then
  <2> QED
    BY <2>1 DEF Name
<1>2. CASE s # r
  <2>1. req'[s] = [req[s] EXCEPT !.fd = Moved(req[s].fd, from, to)] /\ req[s] \in RequestType
    BY <1>2, TypeParts DEF Then
  <2>2. req'[s].at = req[s].at /\ req'[s].fd = Moved(req[s].fd, from, to)
    BY <2>1 DEF RequestType
  <2>3. "none" \notin Name /\ "unlinked" \notin Name
    BY DEF Name
  <2>4. \A n \in Name : file'[n] = IF n = from THEN Absent ELSE IF n = to THEN file[from] ELSE file[n]
    BY TypeParts DEF Rename
  <2>5. req[s].fd = "none" => Moved(req[s].fd, from, to) = "none"
    BY <2>3 DEF Moved
  <2>6. Moved(req[s].fd, from, to) \in Name =>
          \/ Moved(req[s].fd, from, to) = to
          \/ Moved(req[s].fd, from, to) = req[s].fd /\ req[s].fd \notin {from, to}
    BY <2>3 DEF Moved
  <2> QED
    BY <2>2, <2>3, <2>4, <2>5, <2>6 DEF OpenInv
<1> QED
  BY <1>1, <1>2

LEMMA OpenRemoved ==
  ASSUME TypeOK, OpenInv, NEW r \in Request, NEW next \in RequestType, next.fd = "none",
         NEW n \in Name, Remove(r, n), ThenRemoved(r, next, n)
  PROVE  OpenInv'
<1> SUFFICES ASSUME NEW s \in Request
             PROVE  /\ req'[s].at \notin {"exe", "lib"} => req'[s].fd = "none"
                    /\ req'[s].fd \in Name => file'[req'[s].fd] # Absent
  BY DEF OpenInv
<1>1. "none" \notin Name /\ "unlinked" \notin Name
  BY DEF Name
<1>2. CASE s = r
  <2>1. req'[s] = next
    BY <1>2 DEF ThenRemoved
  <2> QED
    BY <2>1, <1>1
<1>3. CASE s # r /\ CanRemove(r, n) /\ req[s].fd = n
  <2>1. req'[s] = [req[s] EXCEPT !.fd = "unlinked"] /\ req[s] \in RequestType
    BY <1>3, TypeParts DEF ThenRemoved
  <2>2. req'[s].at = req[s].at /\ req'[s].fd = "unlinked"
    BY <2>1 DEF RequestType
  <2> QED
    BY <2>2, <1>1, <1>3 DEF OpenInv
<1>4. CASE s # r /\ ~(CanRemove(r, n) /\ req[s].fd = n)
  <2>1. req'[s] = req[s]
    BY <1>4 DEF ThenRemoved
  <2>2. \A m \in Name : m # n \/ ~CanRemove(r, n) => file'[m] = file[m]
    BY TypeParts DEF Remove
  <2> QED
    BY <2>1, <2>2, <1>4 DEF OpenInv
<1> QED
  BY <1>2, <1>3, <1>4

(* A request that opens no file that does not exist keeps OpenInv.          *)
LEMMA OpenStays ==
  ASSUME TypeOK, OpenInv, NEW r \in Request,
         \A s \in Request \ {r} : req'[s] = req[s],
         \A n \in Name : file[n] # Absent => file'[n] # Absent,
         req'[r].at \notin {"exe", "lib"} => req'[r].fd = "none",
         req'[r].fd \in Name => file'[req'[r].fd] # Absent
  PROVE  OpenInv'
BY DEF OpenInv

LEMMA InitType == Init => TypeOK /\ OpenInv
<1> SUFFICES ASSUME Init PROVE TypeOK /\ OpenInv
  OBVIOUS
<1>1. req \in [Request -> RequestType] /\ \A r \in Request : req[r].fd = "none"
  BY UnusedType DEF Init
<1>2. file \in [Name -> File]
  BY AbsentFile, Files DEF Init, Content
<1>3. image \in Place /\ 0 \in 0..MaxFaults /\ "none" \notin Name
  BY UpdaterConstants DEF Init, Place, Name
<1> QED
  BY <1>1, <1>2, <1>3, TypeParts DEF Init, OpenInv

LEMMA NextType == ASSUME TypeOK, OpenInv, [Next]_vars PROVE TypeOK' /\ OpenInv'
<1>1. ASSUME NEW r \in Request, NEW a \in Archive, Ask(r, a)
      PROVE  TypeOK' /\ OpenInv'
  <2>1. file["exe"] \in File
    BY TypeParts DEF Name
  <2>2. "fetch" \in Busy
    BY  DEF Busy
  <2>3. Unused("fetch") \in RequestType /\ a \in Archive \cup {Installed}
    BY <2>1, <2>2, UnusedType
  <2>4. [Unused("fetch") EXCEPT !.archive = a, !.before = file["exe"]] \in RequestType
    BY <2>1, <2>2, <2>3 DEF RequestType
  <2>5. req' \in [Request -> RequestType]
    BY <1>1, <2>1, <2>2, <2>3, <2>4, TypeParts DEF Ask
  <2>6. req'[r].at = "fetch" /\ req'[r].fd = "none" /\ \A s \in Request \ {r} : req'[s] = req[s]
    BY <1>1, TypeParts DEF Ask, Unused
  <2>7. temp' \subseteq Request /\ spoilt' \subseteq {"overlap", "foreign", "gap", "rollback"}
    BY <1>1, TypeParts DEF Ask
  <2>8. OpenInv'
    BY <1>1, <2>1, <2>2, <2>3, <2>4, <2>5, <2>6, <2>7, OpenStays DEF Ask, Name
  <2> QED
    BY <1>1, <2>1, <2>2, <2>3, <2>4, <2>5, <2>6, <2>7, <2>8 DEF Ask, TypeOK, RequestType
<1>2. ASSUME NEW r \in Request, Fetch(r)
      PROVE  TypeOK' /\ OpenInv'
  <2>1. req' \in [Request -> RequestType]
    BY <1>2, GoesType DEF Fetch, Busy
  <2>2. req'[r].at = "open" /\ req'[r].fd = req[r].fd /\ req[r].at = "fetch" /\ \A s \in Request \ {r} : req'[s] = req[s]
    BY <1>2, TypeParts DEF Fetch, At, Goes, RequestType
  <2>3. spoilt' \subseteq {"overlap", "foreign", "gap", "rollback"}
    BY <1>2, TypeParts DEF Fetch
  <2>4. OpenInv'
    BY <1>2, <2>1, <2>2, <2>3 DEF Fetch, OpenInv
  <2> QED
    BY <1>2, <2>1, <2>2, <2>3, <2>4 DEF Fetch, TypeOK, RequestType
<1>3. ASSUME NEW r \in Request, Refuse(r)
      PROVE  TypeOK' /\ OpenInv'
  <2>1. req' \in [Request -> RequestType] /\ temp' \subseteq Request
    BY <1>3, AnswersType DEF Refuse
  <2>2. req'[r].fd = "none" /\ \A s \in Request \ {r} : req'[s] = req[s]
    BY <1>3, TypeParts DEF Refuse, Answers, Unused
  <2>3. faults' \in 0..MaxFaults
    BY <1>3, FaultType, TypeParts DEF Refuse
  <2>4. OpenInv'
    BY <1>3, <2>1, <2>2, <2>3, OpenStays DEF Refuse, Name
  <2> QED
    BY <1>3, <2>1, <2>2, <2>3, <2>4 DEF Refuse, TypeOK, RequestType
<1>4. ASSUME NEW r \in Request, CreateNew(r)
      PROVE  TypeOK' /\ OpenInv'
  <2>1. req[r] \in RequestType
    BY TypeParts
  <2>2. "exe" \in Busy /\ "new" \in Place /\ 1 \in 1..2
    BY  DEF Busy, Place, Name
  <2>3. [req[r] EXCEPT !.at = "exe", !.fd = "new", !.piece = 1] \in RequestType
    BY <2>1, <2>2 DEF RequestType
  <2>4. req' \in [Request -> RequestType]
    BY <1>4, <2>1, <2>2, <2>3, TypeParts DEF CreateNew
  <2>5. req'[r].fd = "new" /\ req'[r].at = "exe" /\ \A s \in Request \ {r} : req'[s] = req[s]
    BY <1>4, TypeParts DEF CreateNew, RequestType
  <2>6. All("blank") \in File /\ All("blank") # Absent
    BY Files, AbsentIsNone DEF Content
  <2>7. file' \in [Name -> File] /\ file'["new"] # Absent /\ \A n \in Name : file[n] # Absent => file'[n] # Absent
    BY <1>4, <2>1, <2>2, <2>3, <2>4, <2>5, <2>6, TypeParts DEF CreateNew, Name
  <2>8. OpenInv'
    BY <2>1, <2>2, <2>3, <2>4, <2>5, <2>6, <2>7, OpenStays
  <2> QED
    BY <1>4, <2>1, <2>2, <2>3, <2>4, <2>5, <2>6, <2>7, <2>8 DEF CreateNew, TypeOK, RequestType
<1>5. ASSUME NEW r \in Request, CreateFails(r)
      PROVE  TypeOK' /\ OpenInv'
  <2>1. req' \in [Request -> RequestType] /\ temp' \subseteq Request
    BY <1>5, AnswersType DEF CreateFails
  <2>2. req'[r].fd = "none" /\ \A s \in Request \ {r} : req'[s] = req[s]
    BY <1>5, TypeParts DEF CreateFails, Answers, Unused
  <2>3. faults' \in 0..MaxFaults
    BY <1>5, FaultType, TypeParts DEF CreateFails
  <2>4. OpenInv'
    BY <1>5, <2>1, <2>2, <2>3, OpenStays DEF CreateFails, Name
  <2> QED
    BY <1>5, <2>1, <2>2, <2>3, <2>4 DEF CreateFails, TypeOK, RequestType
<1>6. ASSUME NEW r \in Request, WriteExe(r)
      PROVE  TypeOK' /\ OpenInv'
  <2>1. req' \in [Request -> RequestType]
    BY <1>6, AdvanceType DEF WriteExe, Busy
  <2>2. file' \in [Name -> File] /\ \A n \in Name : file[n] # Absent => file'[n] # Absent
    BY <1>6, PutType DEF WriteExe
  <2>3. req[r] \in RequestType
    BY TypeParts
  <2>4. /\ \A s \in Request \ {r} : req'[s] = req[s]
        /\ \/ req'[r].at = req[r].at /\ req'[r].fd = req[r].fd
           \/ req'[r].fd = "none"
    BY <1>6, <2>1, <2>2, <2>3, TypeParts DEF WriteExe, Advance, RequestType
  <2>5. (req'[r].fd \in Name => req[r].fd = req'[r].fd) /\ (req'[r].at \notin {"exe", "lib"} => req'[r].fd = "none")
    BY <1>6, <2>1, <2>2, <2>3, <2>4 DEF OpenInv, Name
  <2>6. OpenInv'
    BY <2>1, <2>2, <2>3, <2>4, <2>5, OpenStays DEF OpenInv
  <2> QED
    BY <1>6, <2>1, <2>2, <2>3, <2>4, <2>5, <2>6 DEF WriteExe, TypeOK, RequestType
<1>7. ASSUME NEW r \in Request, WriteExeFails(r)
      PROVE  TypeOK' /\ OpenInv'
  <2>1. "new" \in Name /\ Unused("failed") \in RequestType /\ Unused("failed").fd = "none"
    BY UnusedType DEF Name, Unused
  <2>2. file' \in [Name -> File]
    BY <1>7, <2>1, RemoveType DEF WriteExeFails
  <2>3. req' \in [Request -> RequestType]
    BY <1>7, <2>1, <2>2, ThenRemovedType DEF WriteExeFails
  <2>4. OpenInv'
    BY <1>7, <2>1, <2>2, <2>3, OpenRemoved DEF WriteExeFails
  <2>5. faults' \in 0..MaxFaults
    BY <1>7, FaultType, TypeParts DEF WriteExeFails
  <2>6. temp' \subseteq Request
    BY <1>7, TypeParts DEF WriteExeFails
  <2> QED
    BY <1>7, <2>1, <2>2, <2>3, <2>4, <2>5, <2>6 DEF WriteExeFails, TypeOK, RequestType
<1>8. ASSUME NEW r \in Request, OpenLib(r)
      PROVE  TypeOK' /\ OpenInv'
  <2>1. req[r] \in RequestType
    BY TypeParts
  <2>2. LibPath(req[r].archive) \in {"lib", "stray"}
    BY  DEF LibPath
  <2>3. "lib" \in Busy /\ LibPath(req[r].archive) \in Place /\ 1 \in 1..2 /\ (LibPath(req[r].archive) = "lib") \in BOOLEAN
    BY <2>1, <2>2 DEF Busy, Place, Name
  <2>4. [req[r] EXCEPT !.at = "lib", !.fd = LibPath(req[r].archive), !.piece = 1, !.whole = LibPath(req[r].archive) = "lib"] \in RequestType
    BY <2>1, <2>2, <2>3 DEF RequestType
  <2>5. req' \in [Request -> RequestType]
    BY <1>8, <2>1, <2>2, <2>3, <2>4, TypeParts DEF OpenLib
  <2>6. req'[r].fd = LibPath(req[r].archive) /\ req'[r].at = "lib" /\ \A s \in Request \ {r} : req'[s] = req[s]
    BY <1>8, TypeParts DEF OpenLib, RequestType
  <2>7. All("blank") \in File /\ All("blank") # Absent
    BY Files, AbsentIsNone DEF Content
  <2>8. file' \in [Name -> File] /\ file'[LibPath(req[r].archive)] # Absent /\ \A n \in Name : file[n] # Absent => file'[n] # Absent
    BY <1>8, <2>1, <2>2, <2>3, <2>4, <2>5, <2>6, <2>7, TypeParts DEF OpenLib, Name
  <2>9. OpenInv'
    BY <2>1, <2>2, <2>3, <2>4, <2>5, <2>6, <2>7, <2>8, OpenStays
  <2> QED
    BY <1>8, <2>1, <2>2, <2>3, <2>4, <2>5, <2>6, <2>7, <2>8, <2>9 DEF OpenLib, TypeOK, RequestType
<1>9. ASSUME NEW r \in Request, WriteLib(r)
      PROVE  TypeOK' /\ OpenInv'
  <2>1. req' \in [Request -> RequestType]
    BY <1>9, AdvanceType DEF WriteLib, Busy
  <2>2. file' \in [Name -> File] /\ \A n \in Name : file[n] # Absent => file'[n] # Absent
    BY <1>9, PutType DEF WriteLib
  <2>3. req[r] \in RequestType
    BY TypeParts
  <2>4. /\ \A s \in Request \ {r} : req'[s] = req[s]
        /\ \/ req'[r].at = req[r].at /\ req'[r].fd = req[r].fd
           \/ req'[r].fd = "none"
    BY <1>9, <2>1, <2>2, <2>3, TypeParts DEF WriteLib, Advance, RequestType
  <2>5. (req'[r].fd \in Name => req[r].fd = req'[r].fd) /\ (req'[r].at \notin {"exe", "lib"} => req'[r].fd = "none")
    BY <1>9, <2>1, <2>2, <2>3, <2>4 DEF OpenInv, Name
  <2>6. OpenInv'
    BY <2>1, <2>2, <2>3, <2>4, <2>5, OpenStays DEF OpenInv
  <2> QED
    BY <1>9, <2>1, <2>2, <2>3, <2>4, <2>5, <2>6 DEF WriteLib, TypeOK, RequestType
<1>10. ASSUME NEW r \in Request, LibFails(r)
      PROVE  TypeOK' /\ OpenInv'
  <2>1. req[r] \in RequestType
    BY TypeParts
  <2>2. "retire" \in Busy /\ "none" \in Place /\ 1 \in 1..2
    BY  DEF Busy, Place
  <2>3. [req[r] EXCEPT !.at = "retire", !.fd = "none", !.piece = 1, !.whole = FALSE] \in RequestType
    BY <2>1, <2>2 DEF RequestType
  <2>4. req' \in [Request -> RequestType]
    BY <1>10, <2>1, <2>2, <2>3, TypeParts DEF LibFails
  <2>5. req'[r].fd = "none" /\ \A s \in Request \ {r} : req'[s] = req[s]
    BY <1>10, TypeParts DEF LibFails, RequestType
  <2>6. faults' \in 0..MaxFaults
    BY <1>10, FaultType DEF LibFails
  <2>7. OpenInv'
    BY <1>10, <2>1, <2>2, <2>3, <2>4, <2>5, <2>6, OpenStays DEF LibFails, Name
  <2> QED
    BY <1>10, <2>1, <2>2, <2>3, <2>4, <2>5, <2>6, <2>7 DEF LibFails, TypeOK, RequestType
<1>11. ASSUME NEW r \in Request, Retire(r)
      PROVE  TypeOK' /\ OpenInv'
  <2>1. req[r] \in RequestType /\ req[r].at = "retire" /\ req[r].fd = "none" /\ "old" \in Name
    BY <1>11, TypeParts DEF Retire, At, OpenInv, Name
  <2>2. [req[r] EXCEPT !.at = "move"] \in RequestType /\ [req[r] EXCEPT !.at = "move"].fd = "none"
    BY <2>1 DEF RequestType, Busy
  <2>3. CASE Remove(r, "old") /\ ThenRemoved(r, [req[r] EXCEPT !.at = "move"], "old") /\ UNCHANGED faults
    <3>1. file' \in [Name -> File]
      BY <2>3, <2>1, <2>2, RemoveType
    <3>2. req' \in [Request -> RequestType]
      BY <2>3, <2>1, <2>2, ThenRemovedType
    <3>3. OpenInv'
      BY <2>3, <2>1, <2>2, OpenRemoved
    <3> QED
      BY <1>11, <2>3, <2>1, <2>2, <3>1, <3>2, <3>3 DEF Retire, TypeOK, RequestType
  <2>4. CASE Goes(r, "move") /\ Fault /\ UNCHANGED file
    <3>1. req' \in [Request -> RequestType]
      BY <2>4, GoesType DEF Busy
    <3>2. req'[r].at = "move" /\ req'[r].fd = req[r].fd /\ \A s \in Request \ {r} : req'[s] = req[s]
      BY <2>4, <2>1, <2>2, TypeParts DEF Goes, RequestType
    <3>3. faults' \in 0..MaxFaults
      BY <2>4, FaultType
    <3>4. OpenInv'
      BY <2>4, <2>1, <2>2, <3>1, <3>2, <3>3 DEF OpenInv
    <3> QED
      BY <1>11, <2>4, <2>1, <2>2, <3>1, <3>2, <3>3, <3>4 DEF Retire, TypeOK, RequestType
  <2> QED
    BY <1>11, <2>1, <2>2, <2>3, <2>4 DEF Retire, TypeOK, RequestType
<1>12. ASSUME NEW r \in Request, Replace(r)
      PROVE  TypeOK' /\ OpenInv'
  <2>1. "new" \in Name /\ "exe" \in Name /\ "new" # "exe" /\ file["new"] # Absent
    BY <1>12 DEF Replace, Name, CanRename
  <2>2. req[r] \in RequestType
    BY TypeParts
  <2>3. Unused("ok") \in RequestType /\ Unused("ok").fd = "none"
    BY <1>12, <2>1, <2>2, UnusedType
  <2>4. file' \in [Name -> File] /\ image' \in Place
    BY <1>12, <2>1, <2>2, <2>3, RenameType DEF Replace
  <2>5. req' \in [Request -> RequestType]
    BY <1>12, <2>1, <2>2, <2>3, <2>4, ThenType DEF Replace
  <2>6. OpenInv'
    BY <1>12, <2>1, <2>2, <2>3, <2>4, <2>5, OpenMoves DEF Replace
  <2>7. temp' \subseteq Request
    BY <1>12, TypeParts DEF Replace
  <2> QED
    BY <1>12, <2>1, <2>2, <2>3, <2>4, <2>5, <2>6, <2>7 DEF Replace, TypeOK, RequestType
<1>13. ASSUME NEW r \in Request, ReplaceFails(r)
      PROVE  TypeOK' /\ OpenInv'
  <2>1. req' \in [Request -> RequestType] /\ temp' \subseteq Request
    BY <1>13, AnswersType DEF ReplaceFails
  <2>2. req'[r].fd = "none" /\ \A s \in Request \ {r} : req'[s] = req[s]
    BY <1>13, TypeParts DEF ReplaceFails, Answers, Unused
  <2>3. faults' \in 0..MaxFaults
    BY <1>13, FaultType, TypeParts DEF ReplaceFails
  <2>4. OpenInv'
    BY <1>13, <2>1, <2>2, <2>3, OpenStays DEF ReplaceFails, Name
  <2> QED
    BY <1>13, <2>1, <2>2, <2>3, <2>4 DEF ReplaceFails, TypeOK, RequestType
<1>14. ASSUME NEW r \in Request, MoveAway(r)
      PROVE  TypeOK' /\ OpenInv'
  <2>1. "exe" \in Name /\ "old" \in Name /\ "exe" # "old" /\ file["exe"] # Absent
    BY <1>14 DEF MoveAway, Name, CanRename
  <2>2. req[r] \in RequestType
    BY TypeParts
  <2>3. [req[r] EXCEPT !.at = "install"] \in RequestType /\ [req[r] EXCEPT !.at = "install"].fd = "none"
    BY <1>14, <2>1, <2>2, UnusedType DEF MoveAway, At, OpenInv, RequestType, Busy
  <2>4. file' \in [Name -> File] /\ image' \in Place
    BY <1>14, <2>1, <2>2, <2>3, RenameType DEF MoveAway
  <2>5. req' \in [Request -> RequestType]
    BY <1>14, <2>1, <2>2, <2>3, <2>4, ThenType DEF MoveAway
  <2>6. OpenInv'
    BY <1>14, <2>1, <2>2, <2>3, <2>4, <2>5, OpenMoves DEF MoveAway
  <2>7. temp' \subseteq Request
    BY <1>14, TypeParts DEF MoveAway
  <2> QED
    BY <1>14, <2>1, <2>2, <2>3, <2>4, <2>5, <2>6, <2>7 DEF MoveAway, TypeOK, RequestType
<1>15. ASSUME NEW r \in Request, MoveAwayFails(r)
      PROVE  TypeOK' /\ OpenInv'
  <2>1. "new" \in Name /\ Unused("failed") \in RequestType /\ Unused("failed").fd = "none"
    BY UnusedType DEF Name, Unused
  <2>2. file' \in [Name -> File]
    BY <1>15, <2>1, RemoveType DEF MoveAwayFails
  <2>3. req' \in [Request -> RequestType]
    BY <1>15, <2>1, <2>2, ThenRemovedType DEF MoveAwayFails
  <2>4. OpenInv'
    BY <1>15, <2>1, <2>2, <2>3, OpenRemoved DEF MoveAwayFails
  <2>5. faults' \in 0..MaxFaults
    BY <1>15, FaultType, TypeParts DEF MoveAwayFails
  <2>6. temp' \subseteq Request
    BY <1>15, TypeParts DEF MoveAwayFails
  <2> QED
    BY <1>15, <2>1, <2>2, <2>3, <2>4, <2>5, <2>6 DEF MoveAwayFails, TypeOK, RequestType
<1>16. ASSUME NEW r \in Request, Install(r)
      PROVE  TypeOK' /\ OpenInv'
  <2>1. "new" \in Name /\ "exe" \in Name /\ "new" # "exe" /\ file["new"] # Absent
    BY <1>16 DEF Install, Name, CanRename
  <2>2. req[r] \in RequestType
    BY TypeParts
  <2>3. Unused("ok") \in RequestType /\ Unused("ok").fd = "none"
    BY <1>16, <2>1, <2>2, UnusedType
  <2>4. file' \in [Name -> File] /\ image' \in Place
    BY <1>16, <2>1, <2>2, <2>3, RenameType DEF Install
  <2>5. req' \in [Request -> RequestType]
    BY <1>16, <2>1, <2>2, <2>3, <2>4, ThenType DEF Install
  <2>6. OpenInv'
    BY <1>16, <2>1, <2>2, <2>3, <2>4, <2>5, OpenMoves DEF Install
  <2>7. temp' \subseteq Request
    BY <1>16, TypeParts DEF Install
  <2> QED
    BY <1>16, <2>1, <2>2, <2>3, <2>4, <2>5, <2>6, <2>7 DEF Install, TypeOK, RequestType
<1>17. ASSUME NEW r \in Request, InstallFails(r)
      PROVE  TypeOK' /\ OpenInv'
  <2>1. req' \in [Request -> RequestType]
    BY <1>17, GoesType DEF InstallFails, Busy
  <2>2. req'[r].at = "rollback" /\ req'[r].fd = req[r].fd /\ req[r].at = "install" /\ \A s \in Request \ {r} : req'[s] = req[s]
    BY <1>17, TypeParts DEF InstallFails, At, Goes, RequestType
  <2>3. faults' \in 0..MaxFaults
    BY <1>17, FaultType, TypeParts DEF InstallFails
  <2>4. OpenInv'
    BY <1>17, <2>1, <2>2, <2>3 DEF InstallFails, OpenInv
  <2> QED
    BY <1>17, <2>1, <2>2, <2>3, <2>4 DEF InstallFails, TypeOK, RequestType
<1>18. ASSUME NEW r \in Request, Rollback(r)
      PROVE  TypeOK' /\ OpenInv'
  <2>1. "old" \in Name /\ "exe" \in Name /\ "old" # "exe" /\ file["old"] # Absent
    BY <1>18 DEF Rollback, Name, CanRename
  <2>2. req[r] \in RequestType
    BY TypeParts
  <2>3. Unused("failed") \in RequestType /\ Unused("failed").fd = "none"
    BY <1>18, <2>1, <2>2, UnusedType
  <2>4. file' \in [Name -> File] /\ image' \in Place
    BY <1>18, <2>1, <2>2, <2>3, RenameType DEF Rollback
  <2>5. req' \in [Request -> RequestType]
    BY <1>18, <2>1, <2>2, <2>3, <2>4, ThenType DEF Rollback
  <2>6. OpenInv'
    BY <1>18, <2>1, <2>2, <2>3, <2>4, <2>5, OpenMoves DEF Rollback
  <2>7. temp' \subseteq Request
    BY <1>18, TypeParts DEF Rollback
  <2> QED
    BY <1>18, <2>1, <2>2, <2>3, <2>4, <2>5, <2>6, <2>7 DEF Rollback, TypeOK, RequestType
<1>19. ASSUME NEW r \in Request, RollbackFails(r)
      PROVE  TypeOK' /\ OpenInv'
  <2>1. req' \in [Request -> RequestType] /\ temp' \subseteq Request
    BY <1>19, AnswersType DEF RollbackFails
  <2>2. req'[r].fd = "none" /\ \A s \in Request \ {r} : req'[s] = req[s]
    BY <1>19, TypeParts DEF RollbackFails, Answers, Unused
  <2>3. faults' \in 0..MaxFaults
    BY <1>19, FaultType, TypeParts DEF RollbackFails
  <2>4. spoilt' \subseteq {"overlap", "foreign", "gap", "rollback"}
    BY <1>19, TypeParts DEF RollbackFails
  <2>5. OpenInv'
    BY <1>19, <2>1, <2>2, <2>3, <2>4, OpenStays DEF RollbackFails, Name
  <2> QED
    BY <1>19, <2>1, <2>2, <2>3, <2>4, <2>5 DEF RollbackFails, TypeOK, RequestType
<1>20. ASSUME Die
      PROVE  TypeOK' /\ OpenInv'
  <2>1. Unused("idle") \in RequestType /\ Unused("idle").fd = "none"
    BY UnusedType
  <2>2. req' \in [Request -> RequestType]
    BY <1>20, <2>1 DEF Die
  <2>3. "none" \notin Name /\ "none" \in Place
    BY  DEF Name, Place
  <2>4. spoilt' \subseteq {"overlap", "foreign", "gap", "rollback"}
    BY <1>20, TypeParts DEF Die
  <2>5. OpenInv'
    BY <1>20, <2>1, <2>2, <2>3, <2>4 DEF Die, OpenInv
  <2> QED
    BY <1>20, <2>1, <2>2, <2>3, <2>4, <2>5 DEF Die, TypeOK, RequestType
<1>21. ASSUME Launch
      PROVE  TypeOK' /\ OpenInv'
  <2>1. image' \in Place
    BY <1>21 DEF Launch, Place, Name
  <2>2. OpenInv'
    BY <1>21 DEF Launch, OpenInv
  <2> QED
    BY <1>21, <2>1, <2>2 DEF Launch, TypeOK, RequestType
<1>22. CASE UNCHANGED vars
  BY <1>22 DEF TypeOK, OpenInv, vars
<1> QED
  BY <1>1, <1>2, <1>3, <1>4, <1>5, <1>6, <1>7, <1>8, <1>9, <1>10, <1>11, <1>12, <1>13, <1>14, <1>15, <1>16, <1>17, <1>18, <1>19, <1>20, <1>21, <1>22 DEF Next, RequestStep

(* Every reachable state of the updater is well typed, and no request       *)
(* writes to a file that does not exist.                                    *)
THEOREM TypeCorrect == Spec => []TypeOK
<1>1. TypeOK /\ OpenInv /\ [Next]_vars => TypeOK' /\ OpenInv'
  BY NextType
<1> QED
  BY <1>1, InitType, PTL DEF Spec
-----------------------------------------------------------------------------
LEMMA AllPieces ==
  /\ \A c : All(c)[1] = c /\ All(c)[2] = c /\ All(c) # Absent
  /\ \A c, d : Pieces(c, d)[1] = c /\ Pieces(c, d)[2] = d
BY DEF All, Pieces, Absent

LEMMA BusyStages ==
  /\ Extracted \subseteq Busy /\ Between \subseteq Busy
  /\ \A at \in {"fetch", "open", "exe", "libs", "lib", "retire", "move", "install", "rollback"} : at \in Busy
  /\ \A at \in {"idle", "ok", "failed"} : at \notin Busy
BY DEF Busy, Extracted, Between

LEMMA SpoiltGrows == ASSUME [Next]_vars PROVE spoilt \subseteq spoilt' /\ windows' = windows
BY DEF Next, RequestStep, vars, Ask, Fetch, Refuse, CreateNew, CreateFails, WriteExe, WriteExeFails, OpenLib, WriteLib, LibFails, Retire, Replace, ReplaceFails, MoveAway, MoveAwayFails, Install, InstallFails, Rollback, RollbackFails, Die, Launch, Goes, Answers, Rename, Remove

LEMMA RunsFile == \A f : Runs(f) => f # Absent
BY AllPieces DEF Runs

(* A request in flight is alone as long as no two requests overlapped.      *)
LEMMA Alone ==
  ASSUME TypeOK, CalmInv, Calm, NEW r \in Request, InUse(r)
  PROVE  \A s \in Request \ {r} : ~InUse(s) /\ req[s].fd = "none"
<1> SUFFICES ASSUME NEW s \in Request \ {r} PROVE ~InUse(s) /\ req[s].fd = "none"
  OBVIOUS
<1>1. ~InUse(s)
  BY DEF CalmInv, Single
<1>2. req[s].at \notin {"exe", "lib"}
  BY <1>1, BusyStages DEF InUse
<1> QED
  BY <1>1, <1>2 DEF CalmInv, RequestInv, Shape

LEMMA ThenAlone ==
  ASSUME TypeOK, CalmInv, Calm, NEW r \in Request, InUse(r),
         NEW next, NEW from \in Name, NEW to \in Name, Then(r, next, from, to)
  PROVE  req'[r] = next /\ \A s \in Request \ {r} : req'[s] = req[s]
<1>1. ASSUME NEW s \in Request \ {r} PROVE req'[s] = req[s]
  <2>1. req[s] \in RequestType /\ req[s].fd = "none"
    BY Alone, TypeParts
  <2>2. Moved("none", from, to) = "none"
    BY DEF Moved, Name
  <2>3. [req[s] EXCEPT !.fd = "none"] = req[s]
    BY <2>1 DEF RequestType
  <2> QED
    BY <2>1, <2>2, <2>3 DEF Then
<1> QED
  BY <1>1 DEF Then

LEMMA ThenRemovedAlone ==
  ASSUME TypeOK, CalmInv, Calm, NEW r \in Request, InUse(r), NEW next, NEW n \in Name, ThenRemoved(r, next, n)
  PROVE  req'[r] = next /\ \A s \in Request \ {r} : req'[s] = req[s]
<1>1. \A s \in Request \ {r} : req[s].fd # n
  BY Alone DEF Name
<1> QED
  BY <1>1 DEF ThenRemoved

LEMMA StepOfOne ==
  ASSUME TypeOK, CalmInv, Calm, NEW r \in Request, InUse(r),
         \A s \in Request \ {r} : req'[s] = req[s],
         RequestInv(r)', ImageInv', Runnable'
  PROVE  CalmInv'
<1>1. \A s \in Request \ {r} : ~InUse(s)' /\ req'[s].fd = "none"
  BY Alone DEF InUse
<1>2. \A s \in Request \ {r} : RequestInv(s)'
  BY <1>1, BusyStages DEF InUse, RequestInv, Shape, Progress, NativeArchive, Extracted, Between
<1>3. Single'
  BY <1>1 DEF Single
<1> QED
  BY <1>2, <1>3 DEF CalmInv

LEMMA Answered ==
  ASSUME NEW r \in Request, NEW answer \in {"idle", "ok", "failed"}, req'[r] = Unused(answer)
  PROVE  RequestInv(r)'
<1>1. req'[r].at = answer /\ req'[r].fd = "none"
  BY DEF Unused
<1> QED
  BY <1>1, BusyStages DEF RequestInv, Shape, Progress, NativeArchive, Extracted, Between, InUse

LEMMA RunnableKept ==
  ASSUME TypeOK, CalmInv, Calm, NEW r \in Request, InUse(r), req[r].at \notin Between,
         file'["exe"] = file["exe"], file'["old"] = file["old"], windows' = windows, spoilt \subseteq spoilt'
  PROVE  Runnable'
<1>1. \A s \in Request : req[s].at \notin Between
  BY Alone, BusyStages DEF InUse
<1>2. \A f : Runs(f)' <=> Runs(f)
  BY DEF Runs, Native, Platform
<1> QED
  BY <1>1, <1>2 DEF CalmInv, Runnable

LEMMA NextCalm == ASSUME TypeOK, OpenInv, CalmInv, [Next]_vars PROVE CalmInv'
<1> SUFFICES ASSUME Calm' PROVE CalmInv'
  BY DEF CalmInv
<1>0. Calm
  BY SpoiltGrows DEF Calm
<1>1. ASSUME NEW r \in Request, NEW a \in Archive, Ask(r, a)
      PROVE  CalmInv'
  <2>1. \A s \in Request : ~InUse(s)
    BY <1>1, <1>0 DEF Ask, Calm, InUse
  <2>2. /\ req'[r] = [Unused("fetch") EXCEPT !.archive = a, !.before = file["exe"]]
        /\ \A s \in Request \ {r} : req'[s] = req[s]
    BY <1>1, <1>0, TypeParts DEF Ask
  <2>3. req'[r].at = "fetch" /\ req'[r].fd = "none" /\ req'[r].before = file["exe"]
    BY <2>2 DEF Unused
  <2>4. \A s \in Request : RequestInv(s)
    BY <1>0, <2>1, <2>2, <2>3 DEF CalmInv
  <2>5. RequestInv(r)'
    BY <1>1, <1>0, <2>3, BusyStages DEF Ask, RequestInv, Shape, Progress, NativeArchive, Extracted, Between, InUse
  <2>6. Single'
    BY <2>1, <2>2 DEF Single, InUse
  <2>7. \A s \in Request \ {r} : RequestInv(s)'
    BY <1>1, <1>0, <2>1, <2>2, <2>4, BusyStages DEF Ask, RequestInv, Shape, Progress, NativeArchive, Extracted, Between, InUse
  <2>8. ImageInv'
    BY <1>1, <1>0 DEF Ask, CalmInv, ImageInv
  <2>9. \A f : Runs(f)' <=> Runs(f)
    BY <1>1, <1>0 DEF Ask, Native, Platform, Runs
  <2>10. Runnable'
    BY <1>1, <1>0, <2>1, <2>9, BusyStages DEF Ask, CalmInv, Runnable, InUse
  <2> QED
    BY <2>5, <2>6, <2>7, <2>8, <2>10 DEF CalmInv
<1>2. ASSUME NEW r \in Request, Fetch(r)
      PROVE  CalmInv'
  <2>1. req[r].at = "fetch" /\ InUse(r) /\ req[r].at \notin Between /\ req[r] \in RequestType
    BY <1>2, <1>0, BusyStages, TypeParts DEF Fetch, At, InUse, Between
  <2>2. RequestInv(r)
    BY <1>0, <2>1 DEF CalmInv
  <2>3. req'[r] = [req[r] EXCEPT !.at = "open"] /\ \A s \in Request \ {r} : req'[s] = req[s]
    BY <1>2, <1>0, TypeParts DEF Fetch, Goes
  <2>4. /\ req'[r].at = "open" /\ req'[r].fd = req[r].fd /\ req'[r].before = req[r].before
        /\ req'[r].archive = req[r].archive
    BY <1>0, <2>1, <2>2, <2>3 DEF RequestType
  <2>5. spoilt \subseteq spoilt' /\ ("foreign" \notin spoilt' => req[r].archive \in Native)
    BY <1>2, <1>0 DEF Fetch
  <2>6. Native' = Native
    BY <1>2, <1>0 DEF Fetch, Native, Platform
  <2>7. RequestInv(r)'
    BY <1>2, <1>0, <2>1, <2>2, <2>3, <2>4, <2>5, <2>6, BusyStages DEF Fetch, RequestInv, Shape, Progress, NativeArchive, Extracted, Between, InUse
  <2>8. ImageInv'
    BY <1>2, <1>0, <2>1, <2>2, <2>3, <2>4, <2>5, <2>6, <2>7, TypeParts DEF Fetch, CalmInv, ImageInv, Name
  <2>9. Runnable'
    BY <1>2, <1>0, <2>1, <2>2, <2>3, <2>4, <2>5, <2>6, <2>7, <2>8, RunnableKept DEF Fetch, Name
  <2> QED
    BY <1>2, <1>0, <2>1, <2>2, <2>3, <2>4, <2>5, <2>6, <2>7, <2>8, <2>9, StepOfOne
<1>3. ASSUME NEW r \in Request, Refuse(r)
      PROVE  CalmInv'
  <2>1. InUse(r) /\ req[r].at \notin Between
    BY <1>3, <1>0, BusyStages DEF Refuse, At, InUse, Between
  <2>2. req'[r] = Unused("failed") /\ \A s \in Request \ {r} : req'[s] = req[s]
    BY <1>3, <1>0, TypeParts DEF Refuse, Answers
  <2>3. RequestInv(r)'
    BY <1>0, <2>1, <2>2, Answered
  <2>4. ImageInv'
    BY <1>3, <1>0, <2>1, <2>2, <2>3, TypeParts DEF Refuse, CalmInv, ImageInv, Name
  <2>5. Runnable'
    BY <1>3, <1>0, <2>1, <2>2, <2>3, <2>4, RunnableKept DEF Refuse, Name
  <2> QED
    BY <1>3, <1>0, <2>1, <2>2, <2>3, <2>4, <2>5, StepOfOne
<1>4. ASSUME NEW r \in Request, CreateNew(r)
      PROVE  CalmInv'
  <2>1. req[r].at = "open" /\ InUse(r) /\ req[r].at \notin Between /\ req[r] \in RequestType
    BY <1>4, <1>0, BusyStages, TypeParts DEF CreateNew, At, InUse, Between
  <2>2. RequestInv(r)
    BY <1>0, <2>1 DEF CalmInv
  <2>3. req'[r] = [req[r] EXCEPT !.at = "exe", !.fd = "new", !.piece = 1] /\ \A s \in Request \ {r} : req'[s] = req[s]
    BY <1>4, <1>0, TypeParts DEF CreateNew
  <2>4. /\ req'[r].at = "exe" /\ req'[r].fd = "new" /\ req'[r].piece = 1
        /\ req'[r].before = req[r].before /\ req'[r].archive = req[r].archive
    BY <1>0, <2>1, <2>2, <2>3 DEF RequestType
  <2>5. file'["exe"] = file["exe"] /\ file'["old"] = file["old"]
    BY <1>4, <1>0, TypeParts DEF CreateNew, Name
  <2>6. Native' = Native
    BY <1>4, <1>0 DEF CreateNew, Native, Platform
  <2>7. RequestInv(r)'
    BY <1>4, <1>0, <2>1, <2>2, <2>3, <2>4, <2>5, <2>6, BusyStages DEF CreateNew, RequestInv, Shape, Progress, NativeArchive, Extracted, Between, InUse
  <2>8. ImageInv'
    BY <1>4, <1>0, <2>1, <2>2, <2>3, <2>4, <2>5, <2>6, <2>7, TypeParts DEF CreateNew, CalmInv, ImageInv, Name
  <2>9. Runnable'
    BY <1>4, <1>0, <2>1, <2>2, <2>3, <2>4, <2>5, <2>6, <2>7, <2>8, RunnableKept DEF CreateNew, Name
  <2> QED
    BY <1>4, <1>0, <2>1, <2>2, <2>3, <2>4, <2>5, <2>6, <2>7, <2>8, <2>9, StepOfOne
<1>5. ASSUME NEW r \in Request, CreateFails(r)
      PROVE  CalmInv'
  <2>1. InUse(r) /\ req[r].at \notin Between
    BY <1>5, <1>0, BusyStages DEF CreateFails, At, InUse, Between
  <2>2. req'[r] = Unused("failed") /\ \A s \in Request \ {r} : req'[s] = req[s]
    BY <1>5, <1>0, TypeParts DEF CreateFails, Answers
  <2>3. RequestInv(r)'
    BY <1>0, <2>1, <2>2, Answered
  <2>4. ImageInv'
    BY <1>5, <1>0, <2>1, <2>2, <2>3, TypeParts DEF CreateFails, CalmInv, ImageInv, Name
  <2>5. Runnable'
    BY <1>5, <1>0, <2>1, <2>2, <2>3, <2>4, RunnableKept DEF CreateFails, Name
  <2> QED
    BY <1>5, <1>0, <2>1, <2>2, <2>3, <2>4, <2>5, StepOfOne
<1>6. ASSUME NEW r \in Request, WriteExe(r)
      PROVE  CalmInv'
  <2>1. req[r].at = "exe" /\ InUse(r) /\ req[r].at \notin Between /\ req[r] \in RequestType
    BY <1>6, <1>0, BusyStages, TypeParts DEF WriteExe, At, InUse, Between
  <2>2. RequestInv(r)
    BY <1>0, <2>1 DEF CalmInv
  <2>3. req[r].fd = "new"
    BY <1>0, <2>1, <2>2 DEF RequestInv, Shape
  <2>4. file'["exe"] = file["exe"] /\ file'["old"] = file["old"]
    BY <1>6, <1>0, <2>1, <2>2, <2>3, TypeParts DEF WriteExe, Put, Name
  <2>5. file'["new"] = IF req[r].piece = 1 THEN Pieces(req[r].archive, file["new"][2]) ELSE Pieces(file["new"][1], req[r].archive)
    BY <1>6, <1>0, <2>1, <2>2, <2>3, <2>4, TypeParts DEF WriteExe, Put, Name
  <2>6. req[r].piece = 1 \/ req[r].piece = 2
    BY <1>0, <2>1, <2>2, <2>3, <2>4, <2>5 DEF RequestType
  <2>7. \A s \in Request \ {r} : req'[s] = req[s]
    BY <1>6, <1>0, TypeParts DEF WriteExe, Advance
  <2>8. Native' = Native
    BY <1>6, <1>0 DEF WriteExe, Native, Platform
  <2>9. ImageInv'
    BY <1>6, <1>0, <2>1, <2>2, <2>3, <2>4, <2>5, <2>6, <2>7, <2>8, TypeParts DEF WriteExe, CalmInv, ImageInv, Name
  <2>10. Runnable'
    BY <1>6, <1>0, <2>1, <2>2, <2>3, <2>4, <2>5, <2>6, <2>7, <2>8, <2>9, RunnableKept DEF WriteExe, Name
  <2>11. CASE req[r].piece = 1
    <3>1. req'[r] = [req[r] EXCEPT !.piece = 2]
      BY <1>6, <1>0, <2>11, TypeParts DEF WriteExe, Advance
    <3>2. /\ req'[r].at = "exe" /\ req'[r].piece = 2 /\ req'[r].fd = req[r].fd /\ req'[r].whole = req[r].whole
          /\ req'[r].before = req[r].before /\ req'[r].archive = req[r].archive
      BY <3>1, <2>1 DEF RequestType
    <3>3. file'["new"][1] = req[r].archive
      BY <2>11, <2>5, AllPieces
    <3>4. RequestInv(r)'
      BY <1>6, <1>0, <2>1, <2>2, <2>3, <2>4, <2>5, <2>6, <2>7, <2>8, <2>9, <2>10, <2>11, <3>2, <3>3, BusyStages DEF WriteExe, RequestInv, Shape, Progress, NativeArchive, Extracted, Between, InUse
    <3> QED
      BY <1>6, <1>0, <2>1, <2>2, <2>3, <2>4, <2>5, <2>6, <2>7, <2>8, <2>9, <2>10, <3>4, StepOfOne
  <2>12. CASE req[r].piece = 2
    <3>1. req'[r] = [req[r] EXCEPT !.at = "libs", !.fd = "none", !.piece = 1]
      BY <1>6, <1>0, <2>12, TypeParts DEF WriteExe, Advance
    <3>2. /\ req'[r].at = "libs" /\ req'[r].fd = "none" /\ req'[r].whole = req[r].whole
          /\ req'[r].before = req[r].before /\ req'[r].archive = req[r].archive
      BY <3>1, <2>1 DEF RequestType
    <3>3. file["new"][1] = req[r].archive
      BY <2>12, <2>1, <2>2 DEF RequestInv, Progress
    <3>4. file'["new"] = All(req[r].archive)
      BY <2>12, <2>5, <3>3, AllPieces DEF All
    <3>5. RequestInv(r)'
      BY <1>6, <1>0, <2>1, <2>2, <2>3, <2>4, <2>5, <2>6, <2>7, <2>8, <2>9, <2>10, <2>12, <3>2, <3>4, BusyStages DEF WriteExe, RequestInv, Shape, Progress, NativeArchive, Extracted, Between, InUse
    <3> QED
      BY <1>6, <1>0, <2>1, <2>2, <2>3, <2>4, <2>5, <2>6, <2>7, <2>8, <2>9, <2>10, <3>5, StepOfOne
  <2> QED
    BY <2>6, <2>11, <2>12
<1>7. ASSUME NEW r \in Request, WriteExeFails(r)
      PROVE  CalmInv'
  <2>1. InUse(r) /\ req[r].at \notin Between /\ "new" \in Name
    BY <1>7, <1>0, BusyStages DEF WriteExeFails, At, InUse, Between, Name
  <2>2. req'[r] = Unused("failed") /\ \A s \in Request \ {r} : req'[s] = req[s]
    BY <1>7, <1>0, <2>1, ThenRemovedAlone DEF WriteExeFails
  <2>3. file'["exe"] = file["exe"] /\ file'["old"] = file["old"]
    BY <1>7, <1>0, TypeParts DEF WriteExeFails, Remove, Name
  <2>4. RequestInv(r)'
    BY <1>0, <2>1, <2>2, <2>3, Answered
  <2>5. ImageInv'
    BY <1>7, <1>0, <2>1, <2>2, <2>3, <2>4, TypeParts DEF WriteExeFails, CalmInv, ImageInv, Name
  <2>6. Runnable'
    BY <1>7, <1>0, <2>1, <2>2, <2>3, <2>4, <2>5, RunnableKept DEF WriteExeFails, Name
  <2> QED
    BY <1>7, <1>0, <2>1, <2>2, <2>3, <2>4, <2>5, <2>6, StepOfOne
<1>8. ASSUME NEW r \in Request, OpenLib(r)
      PROVE  CalmInv'
  <2>1. req[r].at = "libs" /\ InUse(r) /\ req[r].at \notin Between /\ req[r] \in RequestType
    BY <1>8, <1>0, BusyStages, TypeParts DEF OpenLib, At, InUse, Between
  <2>2. RequestInv(r)
    BY <1>0, <2>1 DEF CalmInv
  <2>3. LibPath(req[r].archive) \in {"lib", "stray"}
    BY  DEF LibPath
  <2>4. req'[r] = [req[r] EXCEPT !.at = "lib", !.fd = LibPath(req[r].archive), !.piece = 1, !.whole = LibPath(req[r].archive) = "lib"]
        /\ \A s \in Request \ {r} : req'[s] = req[s]
    BY <1>8, <1>0, TypeParts DEF OpenLib
  <2>5. /\ req'[r].at = "lib" /\ req'[r].fd = LibPath(req[r].archive) /\ req'[r].piece = 1
        /\ req'[r].before = req[r].before /\ req'[r].archive = req[r].archive
        /\ req'[r].whole <=> LibPath(req[r].archive) = "lib"
    BY <1>0, <2>1, <2>2, <2>3, <2>4 DEF RequestType
  <2>6. file'["exe"] = file["exe"] /\ file'["old"] = file["old"] /\ file'["new"] = file["new"]
    BY <1>8, <1>0, <2>3, TypeParts DEF OpenLib, Name
  <2>7. Native' = Native
    BY <1>8, <1>0 DEF OpenLib, Native, Platform
  <2>8. RequestInv(r)'
    BY <1>8, <1>0, <2>1, <2>2, <2>3, <2>4, <2>5, <2>6, <2>7, BusyStages DEF OpenLib, RequestInv, Shape, Progress, NativeArchive, Extracted, Between, InUse
  <2>9. ImageInv'
    BY <1>8, <1>0, <2>1, <2>2, <2>3, <2>4, <2>5, <2>6, <2>7, <2>8, TypeParts DEF OpenLib, CalmInv, ImageInv, Name
  <2>10. Runnable'
    BY <1>8, <1>0, <2>1, <2>2, <2>3, <2>4, <2>5, <2>6, <2>7, <2>8, <2>9, RunnableKept DEF OpenLib, Name
  <2> QED
    BY <1>8, <1>0, <2>1, <2>2, <2>3, <2>4, <2>5, <2>6, <2>7, <2>8, <2>9, <2>10, StepOfOne
<1>9. ASSUME NEW r \in Request, WriteLib(r)
      PROVE  CalmInv'
  <2>1. req[r].at = "lib" /\ InUse(r) /\ req[r].at \notin Between /\ req[r] \in RequestType
    BY <1>9, <1>0, BusyStages, TypeParts DEF WriteLib, At, InUse, Between
  <2>2. RequestInv(r)
    BY <1>0, <2>1 DEF CalmInv
  <2>3. req[r].fd \in {"lib", "stray"} /\ (req[r].whole => req[r].fd = "lib")
    BY <1>0, <2>1, <2>2 DEF RequestInv, Shape
  <2>4. file'["exe"] = file["exe"] /\ file'["old"] = file["old"] /\ file'["new"] = file["new"]
    BY <1>9, <1>0, <2>1, <2>2, <2>3, TypeParts DEF WriteLib, Put, Name
  <2>5. req[r].whole => file'["lib"] = IF req[r].piece = 1 THEN Pieces(req[r].archive, file["lib"][2]) ELSE Pieces(file["lib"][1], req[r].archive)
    BY <1>9, <1>0, <2>1, <2>2, <2>3, <2>4, TypeParts DEF WriteLib, Put, Name
  <2>6. req[r].piece = 1 \/ req[r].piece = 2
    BY <1>0, <2>1, <2>2, <2>3, <2>4, <2>5 DEF RequestType
  <2>7. \A s \in Request \ {r} : req'[s] = req[s]
    BY <1>9, <1>0, TypeParts DEF WriteLib, Advance
  <2>8. Native' = Native
    BY <1>9, <1>0 DEF WriteLib, Native, Platform
  <2>9. ImageInv'
    BY <1>9, <1>0, <2>1, <2>2, <2>3, <2>4, <2>5, <2>6, <2>7, <2>8, TypeParts DEF WriteLib, CalmInv, ImageInv, Name
  <2>10. Runnable'
    BY <1>9, <1>0, <2>1, <2>2, <2>3, <2>4, <2>5, <2>6, <2>7, <2>8, <2>9, RunnableKept DEF WriteLib, Name
  <2>11. CASE req[r].piece = 1
    <3>1. req'[r] = [req[r] EXCEPT !.piece = 2]
      BY <1>9, <1>0, <2>11, TypeParts DEF WriteLib, Advance
    <3>2. /\ req'[r].at = "lib" /\ req'[r].piece = 2 /\ req'[r].fd = req[r].fd /\ req'[r].whole = req[r].whole
          /\ req'[r].before = req[r].before /\ req'[r].archive = req[r].archive
      BY <3>1, <2>1 DEF RequestType
    <3>3. req[r].whole => file'["lib"][1] = req[r].archive
      BY <2>11, <2>5, AllPieces
    <3>4. RequestInv(r)'
      BY <1>9, <1>0, <2>1, <2>2, <2>3, <2>4, <2>5, <2>6, <2>7, <2>8, <2>9, <2>10, <2>11, <3>2, <3>3, BusyStages DEF WriteLib, RequestInv, Shape, Progress, NativeArchive, Extracted, Between, InUse
    <3> QED
      BY <1>9, <1>0, <2>1, <2>2, <2>3, <2>4, <2>5, <2>6, <2>7, <2>8, <2>9, <2>10, <3>4, StepOfOne
  <2>12. CASE req[r].piece = 2
    <3>1. req'[r] = [req[r] EXCEPT !.at = "retire", !.fd = "none", !.piece = 1]
      BY <1>9, <1>0, <2>12, TypeParts DEF WriteLib, Advance
    <3>2. /\ req'[r].at = "retire" /\ req'[r].fd = "none" /\ req'[r].whole = req[r].whole
          /\ req'[r].before = req[r].before /\ req'[r].archive = req[r].archive
      BY <3>1, <2>1 DEF RequestType
    <3>3. req[r].whole => file["lib"][1] = req[r].archive
      BY <2>12, <2>1, <2>2 DEF RequestInv, Progress
    <3>4. req[r].whole => file'["lib"] = All(req[r].archive)
      BY <2>12, <2>5, <3>3, AllPieces DEF All
    <3>5. RequestInv(r)'
      BY <1>9, <1>0, <2>1, <2>2, <2>3, <2>4, <2>5, <2>6, <2>7, <2>8, <2>9, <2>10, <2>12, <3>2, <3>4, BusyStages DEF WriteLib, RequestInv, Shape, Progress, NativeArchive, Extracted, Between, InUse
    <3> QED
      BY <1>9, <1>0, <2>1, <2>2, <2>3, <2>4, <2>5, <2>6, <2>7, <2>8, <2>9, <2>10, <3>5, StepOfOne
  <2> QED
    BY <2>6, <2>11, <2>12
<1>10. ASSUME NEW r \in Request, LibFails(r)
      PROVE  CalmInv'
  <2>1. req[r].at \in {"libs", "lib"} /\ InUse(r) /\ req[r].at \notin Between /\ req[r] \in RequestType
    BY <1>10, <1>0, BusyStages, TypeParts DEF LibFails, At, InUse, Between
  <2>2. RequestInv(r)
    BY <1>0, <2>1 DEF CalmInv
  <2>3. req'[r] = [req[r] EXCEPT !.at = "retire", !.fd = "none", !.piece = 1, !.whole = FALSE] /\ \A s \in Request \ {r} : req'[s] = req[s]
    BY <1>10, <1>0, TypeParts DEF LibFails
  <2>4. /\ req'[r].at = "retire" /\ req'[r].fd = "none" /\ ~req'[r].whole
        /\ req'[r].before = req[r].before /\ req'[r].archive = req[r].archive
    BY <1>0, <2>1, <2>2, <2>3 DEF RequestType
  <2>5. Native' = Native
    BY <1>10, <1>0 DEF LibFails, Native, Platform
  <2>6. RequestInv(r)'
    BY <1>10, <1>0, <2>1, <2>2, <2>3, <2>4, <2>5, BusyStages DEF LibFails, RequestInv, Shape, Progress, NativeArchive, Extracted, Between, InUse
  <2>7. ImageInv'
    BY <1>10, <1>0, <2>1, <2>2, <2>3, <2>4, <2>5, <2>6, TypeParts DEF LibFails, CalmInv, ImageInv, Name
  <2>8. Runnable'
    BY <1>10, <1>0, <2>1, <2>2, <2>3, <2>4, <2>5, <2>6, <2>7, RunnableKept DEF LibFails, Name
  <2> QED
    BY <1>10, <1>0, <2>1, <2>2, <2>3, <2>4, <2>5, <2>6, <2>7, <2>8, StepOfOne
<1>11. ASSUME NEW r \in Request, Retire(r)
      PROVE  CalmInv'
  <2>1. req[r].at = "retire" /\ InUse(r) /\ req[r].at \notin Between /\ req[r] \in RequestType
    BY <1>11, <1>0, BusyStages, TypeParts DEF Retire, At, InUse, Between
  <2>2. RequestInv(r)
    BY <1>0, <2>1 DEF CalmInv
  <2>3. \/ /\ Remove(r, "old") /\ ThenRemoved(r, [req[r] EXCEPT !.at = "move"], "old")
        \/ Goes(r, "move") /\ UNCHANGED file
    BY <1>11, <1>0 DEF Retire
  <2>4. req'[r] = [req[r] EXCEPT !.at = "move"] /\ \A s \in Request \ {r} : req'[s] = req[s]
    BY <1>0, <2>1, <2>2, <2>3, ThenRemovedAlone, TypeParts DEF Goes, Name
  <2>5. /\ req'[r].at = "move" /\ req'[r].fd = req[r].fd /\ req'[r].whole = req[r].whole
        /\ req'[r].before = req[r].before /\ req'[r].archive = req[r].archive
    BY <2>1, <2>4 DEF RequestType
  <2>6. \A n \in Name \ {"old"} : file'[n] = file[n]
    BY <2>3, TypeParts DEF Remove
  <2>7. file'["exe"] = file["exe"] /\ file'["new"] = file["new"] /\ file'["lib"] = file["lib"]
    BY <2>6 DEF Name
  <2>8. Native' = Native /\ \A f : Runs(f)' <=> Runs(f)
    BY <1>11, <1>0 DEF Retire, Native, Platform, Runs
  <2>9. RequestInv(r)'
    BY <1>11, <1>0, <2>1, <2>2, <2>5, <2>7, <2>8, BusyStages DEF Retire, RequestInv, Shape, Progress, NativeArchive, Extracted, Between, InUse
  <2>10. ImageInv'
    BY <1>11, <1>0, <2>7 DEF Retire, CalmInv, ImageInv
  <2>11. file'["old"] = file["old"] \/ Runs(file["exe"]) \/ "foreign" \in spoilt
    <3>1. SUFFICES ASSUME "foreign" \notin spoilt, ~Runs(file["exe"]) PROVE file'["old"] = file["old"]
      OBVIOUS
    <3>2. windows /\ file["exe"] = Absent
      BY <1>0, <3>1 DEF CalmInv, Runnable
    <3>3. image = "old"
      BY <1>0, <3>2, <2>1, <2>2 DEF CalmInv, ImageInv, RequestInv, Shape
    <3>4. ~CanRemove(r, "old")
      BY <3>2, <3>3 DEF CanRemove
    <3> QED
      BY <3>4, <2>3 DEF Remove
  <2>12. Runnable'
    <3>1. CASE file'["old"] = file["old"]
      BY <1>11, <1>0, <3>1, <2>1, <2>7, RunnableKept DEF Retire
    <3>2. CASE Runs(file["exe"])
      BY <3>2, <2>7, <2>8 DEF Runnable
    <3>3. CASE "foreign" \in spoilt
      BY <1>11, <1>0, <3>3 DEF Retire, Runnable
    <3> QED
      BY <2>11, <3>1, <3>2, <3>3
  <2> QED
    BY <2>1, <2>4, <2>9, <2>10, <2>12, StepOfOne, <1>0
<1>12. ASSUME NEW r \in Request, Replace(r)
      PROVE  CalmInv'
  <2>1. req[r].at = "move" /\ InUse(r) /\ "new" \in Name /\ "exe" \in Name
    BY <1>12, <1>0, BusyStages DEF Replace, At, InUse, Name
  <2>2. RequestInv(r)
    BY <1>0, <2>1 DEF CalmInv
  <2>3. req'[r] = Unused("ok") /\ \A s \in Request \ {r} : req'[s] = req[s]
    BY <1>12, <1>0, <2>1, <2>2, ThenAlone DEF Replace
  <2>4. RequestInv(r)'
    BY <1>0, <2>1, <2>2, <2>3, Answered
  <2>5. file'["exe"] = All(req[r].archive)
    BY <1>12, <1>0, <2>1, <2>2, <2>3, <2>4, TypeParts DEF Replace, Rename, RequestInv, Progress, Extracted, Name
  <2>6. ImageInv'
    BY <1>12, <1>0, <2>1, <2>2, <2>3, <2>4, <2>5, AllPieces DEF Replace, CalmInv, ImageInv
  <2>7. Runnable'
    BY <1>12, <1>0, <2>1, <2>2, <2>3, <2>4, <2>5, <2>6, BusyStages DEF Replace, RequestInv, NativeArchive, Runnable, Runs, Native, Platform
  <2> QED
    BY <1>12, <1>0, <2>1, <2>2, <2>3, <2>4, <2>5, <2>6, <2>7, StepOfOne
<1>13. ASSUME NEW r \in Request, ReplaceFails(r)
      PROVE  CalmInv'
  <2>1. InUse(r) /\ req[r].at \notin Between
    BY <1>13, <1>0, BusyStages DEF ReplaceFails, At, InUse, Between
  <2>2. req'[r] = Unused("failed") /\ \A s \in Request \ {r} : req'[s] = req[s]
    BY <1>13, <1>0, TypeParts DEF ReplaceFails, Answers
  <2>3. RequestInv(r)'
    BY <1>0, <2>1, <2>2, Answered
  <2>4. ImageInv'
    BY <1>13, <1>0, <2>1, <2>2, <2>3, TypeParts DEF ReplaceFails, CalmInv, ImageInv, Name
  <2>5. Runnable'
    BY <1>13, <1>0, <2>1, <2>2, <2>3, <2>4, RunnableKept DEF ReplaceFails, Name
  <2> QED
    BY <1>13, <1>0, <2>1, <2>2, <2>3, <2>4, <2>5, StepOfOne
<1>14. ASSUME NEW r \in Request, MoveAway(r)
      PROVE  CalmInv'
  <2>1. req[r].at = "move" /\ InUse(r) /\ req[r].at \notin Between /\ req[r] \in RequestType
    BY <1>14, <1>0, BusyStages, TypeParts DEF MoveAway, At, InUse, Between
  <2>2. RequestInv(r)
    BY <1>0, <2>1 DEF CalmInv
  <2>3. "exe" \in Name /\ "old" \in Name
    BY  DEF Name
  <2>4. req'[r] = [req[r] EXCEPT !.at = "install"] /\ \A s \in Request \ {r} : req'[s] = req[s]
    BY <1>14, <1>0, <2>1, <2>2, <2>3, ThenAlone DEF MoveAway
  <2>5. /\ req'[r].at = "install" /\ req'[r].fd = req[r].fd /\ req'[r].whole = req[r].whole
        /\ req'[r].before = req[r].before /\ req'[r].archive = req[r].archive
    BY <2>1, <2>4 DEF RequestType
  <2>6. /\ file'["exe"] = Absent /\ file'["old"] = file["exe"] /\ file["exe"] # Absent
        /\ file'["new"] = file["new"] /\ file'["lib"] = file["lib"]
    BY <1>14, <1>0, TypeParts DEF MoveAway, Rename, CanRename, Name
  <2>7. image = "exe" /\ image' = "old"
    BY <1>14, <1>0, <2>1, <2>2 DEF MoveAway, Rename, CanRename, Moved, CalmInv, ImageInv, RequestInv, Shape
  <2>8. Native' = Native /\ (\A f : Runs(f)' <=> Runs(f)) /\ spoilt' = spoilt /\ windows /\ windows'
    BY <1>14, <1>0 DEF MoveAway, Native, Platform, Runs
  <2>9. RequestInv(r)'
    BY <2>1, <2>2, <2>5, <2>6, <2>7, <2>8, BusyStages DEF RequestInv, Shape, Progress, NativeArchive, Extracted, Between, InUse
  <2>10. ImageInv'
    BY <2>7 DEF ImageInv
  <2>11. Runnable'
    BY <1>0, <2>1, <2>5, <2>6, <2>8 DEF CalmInv, Runnable, Between
  <2> QED
    BY <2>1, <2>4, <2>9, <2>10, <2>11, StepOfOne, <1>0
<1>15. ASSUME NEW r \in Request, MoveAwayFails(r)
      PROVE  CalmInv'
  <2>1. InUse(r) /\ req[r].at \notin Between /\ "new" \in Name
    BY <1>15, <1>0, BusyStages DEF MoveAwayFails, At, InUse, Between, Name
  <2>2. req'[r] = Unused("failed") /\ \A s \in Request \ {r} : req'[s] = req[s]
    BY <1>15, <1>0, <2>1, ThenRemovedAlone DEF MoveAwayFails
  <2>3. file'["exe"] = file["exe"] /\ file'["old"] = file["old"]
    BY <1>15, <1>0, TypeParts DEF MoveAwayFails, Remove, Name
  <2>4. RequestInv(r)'
    BY <1>0, <2>1, <2>2, <2>3, Answered
  <2>5. ImageInv'
    BY <1>15, <1>0, <2>1, <2>2, <2>3, <2>4, TypeParts DEF MoveAwayFails, CalmInv, ImageInv, Name
  <2>6. Runnable'
    BY <1>15, <1>0, <2>1, <2>2, <2>3, <2>4, <2>5, RunnableKept DEF MoveAwayFails, Name
  <2> QED
    BY <1>15, <1>0, <2>1, <2>2, <2>3, <2>4, <2>5, <2>6, StepOfOne
<1>16. ASSUME NEW r \in Request, Install(r)
      PROVE  CalmInv'
  <2>1. req[r].at = "install" /\ InUse(r) /\ "new" \in Name /\ "exe" \in Name
    BY <1>16, <1>0, BusyStages DEF Install, At, InUse, Name
  <2>2. RequestInv(r)
    BY <1>0, <2>1 DEF CalmInv
  <2>3. req'[r] = Unused("ok") /\ \A s \in Request \ {r} : req'[s] = req[s]
    BY <1>16, <1>0, <2>1, <2>2, ThenAlone DEF Install
  <2>4. RequestInv(r)'
    BY <1>0, <2>1, <2>2, <2>3, Answered
  <2>5. file'["exe"] = All(req[r].archive)
    BY <1>16, <1>0, <2>1, <2>2, <2>3, <2>4, TypeParts DEF Install, Rename, RequestInv, Progress, Extracted, Name
  <2>6. ImageInv'
    BY <1>16, <1>0, <2>1, <2>2, <2>3, <2>4, <2>5, AllPieces DEF Install, Rename, CanRename, Moved, CalmInv, ImageInv
  <2>7. Runnable'
    BY <1>16, <1>0, <2>1, <2>2, <2>3, <2>4, <2>5, <2>6, BusyStages DEF Install, RequestInv, NativeArchive, Runnable, Runs, Native, Platform
  <2> QED
    BY <1>16, <1>0, <2>1, <2>2, <2>3, <2>4, <2>5, <2>6, <2>7, StepOfOne
<1>17. ASSUME NEW r \in Request, InstallFails(r)
      PROVE  CalmInv'
  <2>1. req[r].at = "install" /\ InUse(r) /\ req[r] \in RequestType
    BY <1>17, <1>0, BusyStages, TypeParts DEF InstallFails, At, InUse
  <2>2. RequestInv(r)
    BY <1>0, <2>1 DEF CalmInv
  <2>3. req'[r] = [req[r] EXCEPT !.at = "rollback"] /\ \A s \in Request \ {r} : req'[s] = req[s]
    BY <1>17, <1>0, TypeParts DEF InstallFails, Goes
  <2>4. /\ req'[r].at = "rollback" /\ req'[r].fd = req[r].fd /\ req'[r].whole = req[r].whole
        /\ req'[r].before = req[r].before /\ req'[r].archive = req[r].archive
    BY <1>0, <2>1, <2>2, <2>3 DEF RequestType
  <2>5. Native' = Native /\ (\A f : Runs(f)' <=> Runs(f)) /\ UNCHANGED <<windows, file, image, spoilt>>
    BY <1>17, <1>0 DEF InstallFails, Native, Platform, Runs
  <2>6. RequestInv(r)'
    BY <1>0, <2>1, <2>2, <2>3, <2>4, <2>5, BusyStages DEF RequestInv, Shape, Progress, NativeArchive, Extracted, Between, InUse
  <2>7. ImageInv' /\ Runnable'
    BY <1>0, <2>1, <2>2, <2>3, <2>4, <2>5, <2>6 DEF CalmInv, ImageInv, Runnable, Between
  <2> QED
    BY <1>17, <1>0, <2>1, <2>2, <2>3, <2>4, <2>5, <2>6, <2>7, StepOfOne
<1>18. ASSUME NEW r \in Request, Rollback(r)
      PROVE  CalmInv'
  <2>1. req[r].at = "rollback" /\ InUse(r) /\ "old" \in Name /\ "exe" \in Name
    BY <1>18, <1>0, BusyStages DEF Rollback, At, InUse, Name
  <2>2. RequestInv(r)
    BY <1>0, <2>1 DEF CalmInv
  <2>3. req'[r] = Unused("failed") /\ \A s \in Request \ {r} : req'[s] = req[s]
    BY <1>18, <1>0, <2>1, <2>2, ThenAlone DEF Rollback
  <2>4. RequestInv(r)'
    BY <1>0, <2>1, <2>2, <2>3, Answered
  <2>5. file'["exe"] = file["old"] /\ file["exe"] = Absent /\ file["old"] # Absent
    BY <1>18, <1>0, <2>1, <2>2, TypeParts DEF Rollback, Rename, CanRename, RequestInv, Progress, Between, Name
  <2>6. \A f : Runs(f)' <=> Runs(f)
    BY <1>18, <1>0 DEF Rollback, Native, Platform, Runs
  <2>7. ImageInv'
    BY <1>18, <1>0, <2>1, <2>2, <2>3, <2>4, <2>5, <2>6 DEF Rollback, Rename, Moved, CalmInv, ImageInv
  <2>8. Runnable'
    BY <1>18, <1>0, <2>5, <2>6, RunsFile DEF Rollback, CalmInv, Runnable
  <2> QED
    BY <1>18, <1>0, <2>1, <2>2, <2>3, <2>4, <2>5, <2>6, <2>7, <2>8, StepOfOne
<1>19. ASSUME NEW r \in Request, RollbackFails(r)
      PROVE  CalmInv'
  <2>1. req[r].at = "rollback" /\ InUse(r)
    BY <1>19, <1>0, BusyStages DEF RollbackFails, At, InUse
  <2>2. req'[r] = Unused("failed") /\ \A s \in Request \ {r} : req'[s] = req[s]
    BY <1>19, <1>0, TypeParts DEF RollbackFails, Answers
  <2>3. RequestInv(r)'
    BY <1>0, <2>1, <2>2, Answered
  <2>4. \A f : Runs(f)' <=> Runs(f)
    BY <1>19, <1>0 DEF RollbackFails, Native, Platform, Runs
  <2>5. ImageInv'
    BY <1>19, <1>0 DEF RollbackFails, CalmInv, ImageInv
  <2>6. Runnable'
    BY <1>19, <1>0, <2>4 DEF RollbackFails, CalmInv, Runnable
  <2> QED
    BY <1>19, <1>0, <2>1, <2>2, <2>3, <2>4, <2>5, <2>6, StepOfOne
<1>20. ASSUME Die
      PROVE  CalmInv'
  <2>1. \A s \in Request : req'[s] = Unused("idle")
    BY <1>20, <1>0 DEF Die
  <2>2. \A s \in Request : RequestInv(s)'
    BY <2>1, Answered
  <2>3. \A s \in Request : ~InUse(s)'
    BY <2>1, BusyStages DEF InUse, Unused
  <2>4. Single' /\ ImageInv'
    BY <1>20, <1>0, <2>3 DEF Die, Single, CalmInv, ImageInv
  <2>5. \A f : Runs(f)' <=> Runs(f)
    BY <1>20, <1>0 DEF Die, Native, Platform, Runs
  <2>6. Runnable'
    BY <1>20, <1>0, <2>5 DEF Die, CalmInv, Runnable, Between
  <2> QED
    BY <2>2, <2>4, <2>6 DEF CalmInv
<1>21. ASSUME Launch
      PROVE  CalmInv'
  <2>1. \A s \in Request : ~InUse(s)
    BY <1>21, <1>0 DEF Launch, CalmInv, RequestInv, Shape
  <2>2. \A s \in Request : RequestInv(s)'
    BY <1>21, <1>0, <2>1 DEF Launch, CalmInv, RequestInv, Shape, Progress, NativeArchive, Extracted, Between, InUse, Native, Platform
  <2>3. \A f : Runs(f)' <=> Runs(f)
    BY <1>21, <1>0 DEF Launch, Native, Platform, Runs
  <2>4. ImageInv'
    BY <1>21, <1>0, RunsFile DEF Launch, ImageInv
  <2>5. Single' /\ Runnable'
    BY <1>21, <1>0, <2>3 DEF Launch, CalmInv, Single, InUse, Runnable
  <2> QED
    BY <2>2, <2>4, <2>5 DEF CalmInv
<1>22. CASE UNCHANGED vars
  BY <1>0, <1>22 DEF vars, CalmInv, Single, ImageInv, Runnable, Runs, Native, Platform, RequestInv, Shape, Progress, NativeArchive, Extracted, Between, InUse
<1> QED
  BY <1>1, <1>2, <1>3, <1>4, <1>5, <1>6, <1>7, <1>8, <1>9, <1>10, <1>11, <1>12, <1>13, <1>14, <1>15, <1>16, <1>17, <1>18, <1>19, <1>20, <1>21, <1>22 DEF Next, RequestStep
-----------------------------------------------------------------------------
LEMMA NextAnswer ==
  ASSUME TypeOK, CalmInv, [Next]_vars, NEW q \in Request
  PROVE  Truthful(q)
<1> SUFFICES ASSUME InUse(q), Calm PROVE Truthful(q)
  BY DEF Truthful, InUse, Calm
<1>0. RequestInv(q) /\ req[q].at \in Busy
  BY DEF CalmInv, InUse
<1>1. ASSUME NEW r \in Request, NEW a \in Archive, Ask(r, a)
      PROVE  Truthful(q)
  <2>1. req \in [Request -> RequestType]
    BY TypeParts
  <2>2. CASE q # r
    <3>1. req'[q].at = req[q].at
      BY <1>1, <2>1, <2>2 DEF Ask, Then, ThenRemoved, Goes, Answers, Advance, RequestType
    <3> QED
      BY <3>1, <1>0, BusyStages DEF Truthful
  <2>3. q # r
    BY <1>1, <1>0 DEF Ask
  <2> QED
    BY <2>2, <2>3
<1>2. ASSUME NEW r \in Request, Fetch(r)
      PROVE  Truthful(q)
  <2>1. req \in [Request -> RequestType]
    BY TypeParts
  <2>2. CASE q # r
    <3>1. req'[q].at = req[q].at
      BY <1>2, <2>1, <2>2 DEF Fetch, Then, ThenRemoved, Goes, Answers, Advance, RequestType
    <3> QED
      BY <3>1, <1>0, BusyStages DEF Truthful
  <2>3. CASE q = r
    <3>1. req'[r].at \in Busy
      BY <1>2, <2>1, BusyStages DEF Fetch, Goes, Advance, At, ThenRemoved, Then, RequestType
    <3> QED
      BY <2>3, <3>1, BusyStages DEF Truthful
  <2> QED
    BY <2>2, <2>3
<1>3. ASSUME NEW r \in Request, Refuse(r)
      PROVE  Truthful(q)
  <2>1. req \in [Request -> RequestType]
    BY TypeParts
  <2>2. CASE q # r
    <3>1. req'[q].at = req[q].at
      BY <1>3, <2>1, <2>2 DEF Refuse, Then, ThenRemoved, Goes, Answers, Advance, RequestType
    <3> QED
      BY <3>1, <1>0, BusyStages DEF Truthful
  <2>3. CASE q = r
    <3>1. req[r].at = "fetch" /\ req'[r] = Unused("failed") /\ req'[r].at = "failed"
      BY <1>3, <2>1 DEF Refuse, At, ThenRemoved, Answers, Unused
    <3>2. file'["exe"] = file["exe"]
      BY <1>3, TypeParts DEF Refuse, Remove, Name
    <3> QED
      BY <1>0, <2>3, <3>1, <3>2, BusyStages DEF RequestInv, Progress, Between, Truthful
  <2> QED
    BY <2>2, <2>3
<1>4. ASSUME NEW r \in Request, CreateNew(r)
      PROVE  Truthful(q)
  <2>1. req \in [Request -> RequestType]
    BY TypeParts
  <2>2. CASE q # r
    <3>1. req'[q].at = req[q].at
      BY <1>4, <2>1, <2>2 DEF CreateNew, Then, ThenRemoved, Goes, Answers, Advance, RequestType
    <3> QED
      BY <3>1, <1>0, BusyStages DEF Truthful
  <2>3. CASE q = r
    <3>1. req'[r].at \in Busy
      BY <1>4, <2>1, BusyStages DEF CreateNew, Goes, Advance, At, ThenRemoved, Then, RequestType
    <3> QED
      BY <2>3, <3>1, BusyStages DEF Truthful
  <2> QED
    BY <2>2, <2>3
<1>5. ASSUME NEW r \in Request, CreateFails(r)
      PROVE  Truthful(q)
  <2>1. req \in [Request -> RequestType]
    BY TypeParts
  <2>2. CASE q # r
    <3>1. req'[q].at = req[q].at
      BY <1>5, <2>1, <2>2 DEF CreateFails, Then, ThenRemoved, Goes, Answers, Advance, RequestType
    <3> QED
      BY <3>1, <1>0, BusyStages DEF Truthful
  <2>3. CASE q = r
    <3>1. req[r].at = "open" /\ req'[r] = Unused("failed") /\ req'[r].at = "failed"
      BY <1>5, <2>1 DEF CreateFails, At, ThenRemoved, Answers, Unused
    <3>2. file'["exe"] = file["exe"]
      BY <1>5, TypeParts DEF CreateFails, Remove, Name
    <3> QED
      BY <1>0, <2>3, <3>1, <3>2, BusyStages DEF RequestInv, Progress, Between, Truthful
  <2> QED
    BY <2>2, <2>3
<1>6. ASSUME NEW r \in Request, WriteExe(r)
      PROVE  Truthful(q)
  <2>1. req \in [Request -> RequestType]
    BY TypeParts
  <2>2. CASE q # r
    <3>1. req'[q].at = req[q].at
      BY <1>6, <2>1, <2>2 DEF WriteExe, Then, ThenRemoved, Goes, Answers, Advance, RequestType
    <3> QED
      BY <3>1, <1>0, BusyStages DEF Truthful
  <2>3. CASE q = r
    <3>1. req'[r].at \in Busy
      BY <1>6, <2>1, BusyStages DEF WriteExe, Goes, Advance, At, ThenRemoved, Then, RequestType
    <3> QED
      BY <2>3, <3>1, BusyStages DEF Truthful
  <2> QED
    BY <2>2, <2>3
<1>7. ASSUME NEW r \in Request, WriteExeFails(r)
      PROVE  Truthful(q)
  <2>1. req \in [Request -> RequestType]
    BY TypeParts
  <2>2. CASE q # r
    <3>1. req'[q].at = req[q].at
      BY <1>7, <2>1, <2>2 DEF WriteExeFails, Then, ThenRemoved, Goes, Answers, Advance, RequestType
    <3> QED
      BY <3>1, <1>0, BusyStages DEF Truthful
  <2>3. CASE q = r
    <3>1. req[r].at = "exe" /\ req'[r] = Unused("failed") /\ req'[r].at = "failed"
      BY <1>7, <2>1 DEF WriteExeFails, At, ThenRemoved, Answers, Unused
    <3>2. file'["exe"] = file["exe"]
      BY <1>7, TypeParts DEF WriteExeFails, Remove, Name
    <3> QED
      BY <1>0, <2>3, <3>1, <3>2, BusyStages DEF RequestInv, Progress, Between, Truthful
  <2> QED
    BY <2>2, <2>3
<1>8. ASSUME NEW r \in Request, OpenLib(r)
      PROVE  Truthful(q)
  <2>1. req \in [Request -> RequestType]
    BY TypeParts
  <2>2. CASE q # r
    <3>1. req'[q].at = req[q].at
      BY <1>8, <2>1, <2>2 DEF OpenLib, Then, ThenRemoved, Goes, Answers, Advance, RequestType
    <3> QED
      BY <3>1, <1>0, BusyStages DEF Truthful
  <2>3. CASE q = r
    <3>1. req'[r].at \in Busy
      BY <1>8, <2>1, BusyStages DEF OpenLib, Goes, Advance, At, ThenRemoved, Then, RequestType
    <3> QED
      BY <2>3, <3>1, BusyStages DEF Truthful
  <2> QED
    BY <2>2, <2>3
<1>9. ASSUME NEW r \in Request, WriteLib(r)
      PROVE  Truthful(q)
  <2>1. req \in [Request -> RequestType]
    BY TypeParts
  <2>2. CASE q # r
    <3>1. req'[q].at = req[q].at
      BY <1>9, <2>1, <2>2 DEF WriteLib, Then, ThenRemoved, Goes, Answers, Advance, RequestType
    <3> QED
      BY <3>1, <1>0, BusyStages DEF Truthful
  <2>3. CASE q = r
    <3>1. req'[r].at \in Busy
      BY <1>9, <2>1, BusyStages DEF WriteLib, Goes, Advance, At, ThenRemoved, Then, RequestType
    <3> QED
      BY <2>3, <3>1, BusyStages DEF Truthful
  <2> QED
    BY <2>2, <2>3
<1>10. ASSUME NEW r \in Request, LibFails(r)
      PROVE  Truthful(q)
  <2>1. req \in [Request -> RequestType]
    BY TypeParts
  <2>2. CASE q # r
    <3>1. req'[q].at = req[q].at
      BY <1>10, <2>1, <2>2 DEF LibFails, Then, ThenRemoved, Goes, Answers, Advance, RequestType
    <3> QED
      BY <3>1, <1>0, BusyStages DEF Truthful
  <2>3. CASE q = r
    <3>1. req'[r].at \in Busy
      BY <1>10, <2>1, BusyStages DEF LibFails, Goes, Advance, At, ThenRemoved, Then, RequestType
    <3> QED
      BY <2>3, <3>1, BusyStages DEF Truthful
  <2> QED
    BY <2>2, <2>3
<1>11. ASSUME NEW r \in Request, Retire(r)
      PROVE  Truthful(q)
  <2>1. req \in [Request -> RequestType]
    BY TypeParts
  <2>2. CASE q # r
    <3>1. req'[q].at = req[q].at
      BY <1>11, <2>1, <2>2 DEF Retire, Then, ThenRemoved, Goes, Answers, Advance, RequestType
    <3> QED
      BY <3>1, <1>0, BusyStages DEF Truthful
  <2>3. CASE q = r
    <3>1. req'[r].at \in Busy
      BY <1>11, <2>1, BusyStages DEF Retire, Goes, Advance, At, ThenRemoved, Then, RequestType
    <3> QED
      BY <2>3, <3>1, BusyStages DEF Truthful
  <2> QED
    BY <2>2, <2>3
<1>12. ASSUME NEW r \in Request, Replace(r)
      PROVE  Truthful(q)
  <2>1. req \in [Request -> RequestType]
    BY TypeParts
  <2>2. CASE q # r
    <3>1. req'[q].at = req[q].at
      BY <1>12, <2>1, <2>2 DEF Replace, Then, ThenRemoved, Goes, Answers, Advance, RequestType
    <3> QED
      BY <3>1, <1>0, BusyStages DEF Truthful
  <2>3. CASE q = r
    <3>1. req[r].at = "move" /\ req'[r] = Unused("ok") /\ req'[r].at = "ok"
      BY <1>12, <2>1 DEF Replace, At, Then, Unused
    <3>2. file'["exe"] = file["new"] /\ file'["lib"] = file["lib"]
      BY <1>12, TypeParts DEF Replace, Rename, Name
    <3> QED
      BY <1>0, <2>3, <3>1, <3>2 DEF RequestInv, Progress, Extracted, Truthful
  <2> QED
    BY <2>2, <2>3
<1>13. ASSUME NEW r \in Request, ReplaceFails(r)
      PROVE  Truthful(q)
  <2>1. req \in [Request -> RequestType]
    BY TypeParts
  <2>2. CASE q # r
    <3>1. req'[q].at = req[q].at
      BY <1>13, <2>1, <2>2 DEF ReplaceFails, Then, ThenRemoved, Goes, Answers, Advance, RequestType
    <3> QED
      BY <3>1, <1>0, BusyStages DEF Truthful
  <2>3. CASE q = r
    <3>1. req[r].at = "move" /\ req'[r] = Unused("failed") /\ req'[r].at = "failed"
      BY <1>13, <2>1 DEF ReplaceFails, At, ThenRemoved, Answers, Unused
    <3>2. file'["exe"] = file["exe"]
      BY <1>13, TypeParts DEF ReplaceFails, Remove, Name
    <3> QED
      BY <1>0, <2>3, <3>1, <3>2, BusyStages DEF RequestInv, Progress, Between, Truthful
  <2> QED
    BY <2>2, <2>3
<1>14. ASSUME NEW r \in Request, MoveAway(r)
      PROVE  Truthful(q)
  <2>1. req \in [Request -> RequestType]
    BY TypeParts
  <2>2. CASE q # r
    <3>1. req'[q].at = req[q].at
      BY <1>14, <2>1, <2>2 DEF MoveAway, Then, ThenRemoved, Goes, Answers, Advance, RequestType
    <3> QED
      BY <3>1, <1>0, BusyStages DEF Truthful
  <2>3. CASE q = r
    <3>1. req'[r].at \in Busy
      BY <1>14, <2>1, BusyStages DEF MoveAway, Goes, Advance, At, ThenRemoved, Then, RequestType
    <3> QED
      BY <2>3, <3>1, BusyStages DEF Truthful
  <2> QED
    BY <2>2, <2>3
<1>15. ASSUME NEW r \in Request, MoveAwayFails(r)
      PROVE  Truthful(q)
  <2>1. req \in [Request -> RequestType]
    BY TypeParts
  <2>2. CASE q # r
    <3>1. req'[q].at = req[q].at
      BY <1>15, <2>1, <2>2 DEF MoveAwayFails, Then, ThenRemoved, Goes, Answers, Advance, RequestType
    <3> QED
      BY <3>1, <1>0, BusyStages DEF Truthful
  <2>3. CASE q = r
    <3>1. req[r].at = "move" /\ req'[r] = Unused("failed") /\ req'[r].at = "failed"
      BY <1>15, <2>1 DEF MoveAwayFails, At, ThenRemoved, Answers, Unused
    <3>2. file'["exe"] = file["exe"]
      BY <1>15, TypeParts DEF MoveAwayFails, Remove, Name
    <3> QED
      BY <1>0, <2>3, <3>1, <3>2, BusyStages DEF RequestInv, Progress, Between, Truthful
  <2> QED
    BY <2>2, <2>3
<1>16. ASSUME NEW r \in Request, Install(r)
      PROVE  Truthful(q)
  <2>1. req \in [Request -> RequestType]
    BY TypeParts
  <2>2. CASE q # r
    <3>1. req'[q].at = req[q].at
      BY <1>16, <2>1, <2>2 DEF Install, Then, ThenRemoved, Goes, Answers, Advance, RequestType
    <3> QED
      BY <3>1, <1>0, BusyStages DEF Truthful
  <2>3. CASE q = r
    <3>1. req[r].at = "install" /\ req'[r] = Unused("ok") /\ req'[r].at = "ok"
      BY <1>16, <2>1 DEF Install, At, Then, Unused
    <3>2. file'["exe"] = file["new"] /\ file'["lib"] = file["lib"]
      BY <1>16, TypeParts DEF Install, Rename, Name
    <3> QED
      BY <1>0, <2>3, <3>1, <3>2 DEF RequestInv, Progress, Extracted, Truthful
  <2> QED
    BY <2>2, <2>3
<1>17. ASSUME NEW r \in Request, InstallFails(r)
      PROVE  Truthful(q)
  <2>1. req \in [Request -> RequestType]
    BY TypeParts
  <2>2. CASE q # r
    <3>1. req'[q].at = req[q].at
      BY <1>17, <2>1, <2>2 DEF InstallFails, Then, ThenRemoved, Goes, Answers, Advance, RequestType
    <3> QED
      BY <3>1, <1>0, BusyStages DEF Truthful
  <2>3. CASE q = r
    <3>1. req'[r].at \in Busy
      BY <1>17, <2>1, BusyStages DEF InstallFails, Goes, Advance, At, ThenRemoved, Then, RequestType
    <3> QED
      BY <2>3, <3>1, BusyStages DEF Truthful
  <2> QED
    BY <2>2, <2>3
<1>18. ASSUME NEW r \in Request, Rollback(r)
      PROVE  Truthful(q)
  <2>1. req \in [Request -> RequestType]
    BY TypeParts
  <2>2. CASE q # r
    <3>1. req'[q].at = req[q].at
      BY <1>18, <2>1, <2>2 DEF Rollback, Then, ThenRemoved, Goes, Answers, Advance, RequestType
    <3> QED
      BY <3>1, <1>0, BusyStages DEF Truthful
  <2>3. CASE q = r
    <3>1. req[r].at = "rollback" /\ req'[r] = Unused("failed") /\ req'[r].at = "failed"
      BY <1>18, <2>1 DEF Rollback, At, Then, Unused
    <3>2. file'["exe"] = file["old"]
      BY <1>18, TypeParts DEF Rollback, Rename, Name
    <3> QED
      BY <1>0, <2>3, <3>1, <3>2 DEF RequestInv, Progress, Between, Truthful
  <2> QED
    BY <2>2, <2>3
<1>19. ASSUME NEW r \in Request, RollbackFails(r)
      PROVE  Truthful(q)
  <2>1. req \in [Request -> RequestType]
    BY TypeParts
  <2>2. CASE q # r
    <3>1. req'[q].at = req[q].at
      BY <1>19, <2>1, <2>2 DEF RollbackFails, Then, ThenRemoved, Goes, Answers, Advance, RequestType
    <3> QED
      BY <3>1, <1>0, BusyStages DEF Truthful
  <2>3. CASE q = r
    <3>1. req[r].at = "rollback" /\ req'[r] = Unused("failed") /\ req'[r].at = "failed"
      BY <1>19, <2>1 DEF RollbackFails, At, Answers, Unused
    <3>2. file' = file /\ "rollback" \in spoilt'
      BY <1>19 DEF RollbackFails
    <3> QED
      BY <1>0, <2>3, <3>1, <3>2 DEF RequestInv, Progress, Between, Truthful
  <2> QED
    BY <2>2, <2>3
<1>20. ASSUME Die
      PROVE  Truthful(q)
  BY <1>20 DEF Die, Truthful, Unused
<1>21. ASSUME Launch
      PROVE  Truthful(q)
  BY <1>21, <1>0, BusyStages DEF Launch, Truthful
<1>22. CASE UNCHANGED vars
  BY <1>0, <1>22, BusyStages DEF vars, Truthful
<1> QED
  BY <1>1, <1>2, <1>3, <1>4, <1>5, <1>6, <1>7, <1>8, <1>9, <1>10, <1>11, <1>12, <1>13, <1>14, <1>15, <1>16, <1>17, <1>18, <1>19, <1>20, <1>21, <1>22 DEF Next, RequestStep
-----------------------------------------------------------------------------
LEMMA InitCalm == Init => CalmInv
<1> SUFFICES ASSUME Init PROVE CalmInv
  OBVIOUS
<1>1. \A r \in Request : req[r].at = "idle" /\ req[r].fd = "none"
  BY DEF Init, Unused
<1>2. file["exe"] = All(Installed) /\ image = "exe"
  BY DEF Init, Name
<1>3. Runs(file["exe"]) /\ file["exe"] # Absent
  BY <1>2, AllPieces DEF Runs, Native
<1>4. \A r \in Request : RequestInv(r)
  BY <1>1, BusyStages DEF RequestInv, Shape, Progress, NativeArchive, Extracted, Between, InUse
<1>5. Single /\ ImageInv /\ Runnable
  BY <1>1, <1>2, <1>3, BusyStages DEF Single, InUse, ImageInv, Runnable
<1> QED
  BY <1>4, <1>5 DEF CalmInv

LEMMA InvariantHolds == Spec => [](TypeOK /\ OpenInv /\ CalmInv)
<1>1. Init => TypeOK /\ OpenInv /\ CalmInv
  BY InitType, InitCalm
<1>2. TypeOK /\ OpenInv /\ CalmInv /\ [Next]_vars => (TypeOK /\ OpenInv /\ CalmInv)'
  BY NextType, NextCalm
<1> QED
  BY <1>1, <1>2, PTL DEF Spec

(* Unless requests overlap, or a Windows archive is applied elsewhere,      *)
(* there is always an executable that runs, whatever fails and wherever the *)
(* program dies.                                                            *)
THEOREM AlwaysRunnable == Spec => []StaysRunnable
<1>1. CalmInv => StaysRunnable
  BY DEF CalmInv, Calm, Runnable, StaysRunnable, Between
<1> QED
  BY <1>1, InvariantHolds, PTL

(* Unless requests overlap, the answer to each tells what it did.           *)
THEOREM AnswersAreTrue == Spec => AnswerIsTrue
<1>1. TypeOK /\ OpenInv /\ CalmInv /\ [Next]_vars => [\A r \in Request : Truthful(r)]_vars
  BY NextAnswer
<1> QED
  BY <1>1, InvariantHolds, PTL DEF Spec, AnswerIsTrue
=============================================================================
