---------------------------- MODULE AthleteProfile ----------------------------
(***************************************************************************)
(* An athlete's profile, which everybody saves whole, and the avatar that  *)
(* it names in the object storage.                                         *)
(*                                                                         *)
(* The athlete edits the club and uploads or deletes the avatar; an        *)
(* administrator replaces the profile, marks the athlete as a top athlete, *)
(* deletes the athlete, uploads and deletes files.  Every handler reads    *)
(* the row, changes its own columns and writes all of them; the storage    *)
(* and the row are changed in two steps with nothing to undo the first.    *)
(***************************************************************************)
CONSTANTS
    Requests,       \* handler executions, each used once
    Files,          \* objects in the bucket that this athlete's uploads may have, each for
                    \* all URLs that extract_object_path takes to it
    Foreign,        \* URLs elsewhere
    Clubs,
    None

Avatars == Files \cup Foreign \cup {None}

Fields == {"club", "top", "avatar"}

Profile == [club : Clubs \cup {None}, top : BOOLEAN, avatar : Avatars]

VARIABLES
    profile,        \* the row, None once the athlete is deleted
    files,          \* objects in the bucket
    pc, op,
    seen,           \* the row as a request read it
    want,           \* the values it is to write in its own columns
    removed,        \* history: files deleted since the request read the row
    doubtful,       \* history: the avatar was last written by a request overtaken
    dropped         \* history: files that an administrator has deleted

local   == <<op, seen, want>>
history == <<removed, doubtful, dropped>>
vars == <<profile, files, pc, local, history>>

Handlers == {"club", "top", "replace", "upload", "delete", "file", "athlete"}

TypeOK ==
    /\ profile \in Profile \cup {None}
    /\ files \subseteq Files
    /\ pc \in [Requests -> {"idle", "limit", "put", "late", "remove", "save",
                            "done", "refused", "failed"}]
    /\ op \in [Requests -> Handlers \cup {None}]
    /\ seen \in [Requests -> Profile \cup {None}]
    /\ want \in [Requests -> Profile \cup {None}]
    /\ removed \in [Requests -> SUBSET Files]
    /\ doubtful \in BOOLEAN
    /\ dropped \subseteq Files

Init ==
    /\ profile = [club |-> None, top |-> FALSE, avatar |-> None]
    /\ files = {}
    /\ pc = [r \in Requests |-> "idle"]
    /\ op = [r \in Requests |-> None]
    /\ seen = [r \in Requests |-> None]
    /\ want = [r \in Requests |-> None]
    /\ removed = [r \in Requests |-> {}]
    /\ doubtful = FALSE
    /\ dropped = {}

-----------------------------------------------------------------------------

Goto(r, label) == pc' = [pc EXCEPT ![r] = label]

\* The handler reads the row and goes on at label.
Read(r, handler, label) ==
    /\ pc[r] = "idle"
    /\ op' = [op EXCEPT ![r] = handler]
    /\ IF profile = None
       THEN Goto(r, "refused") /\ UNCHANGED <<seen, removed>>
       ELSE /\ seen' = [seen EXCEPT ![r] = profile]
            /\ removed' = [removed EXCEPT ![r] = {}]
            /\ Goto(r, label)
    /\ UNCHANGED <<profile, files, doubtful, dropped>>

\* What it writes besides, with the row it has just read for the rest.
Wants(r, values) ==
    want' = [want EXCEPT ![r] = IF profile = None THEN None
                                ELSE [f \in Fields |-> IF f \in DOMAIN values THEN values[f]
                                                       ELSE profile[f]]]

EditClub(r) == Read(r, "club", "save") /\ \E c \in Clubs \cup {None} : Wants(r, [club |-> c])

MarkTop(r) == Read(r, "top", "save") /\ \E t \in BOOLEAN : Wants(r, [top |-> t])

\* Every column is in the request: one that is left out is written as its default.
Replace(r) == Read(r, "replace", "save") /\ \E p \in Profile : Wants(r, p)

StartUpload(r) == Read(r, "upload", "limit") /\ \E f \in Files : Wants(r, [avatar |-> f])

\* The hour between uploads, then the size of the file.
CheckUpload(r) ==
    /\ pc[r] = "limit"
    /\ Goto(r, "put") \/ Goto(r, "refused")
    /\ UNCHANGED <<profile, files, local, history>>

\* Mutated: the row is written before the file.
PutLater(r) ==
    /\ pc[r] = "put"
    /\ Goto(r, "save")
    /\ UNCHANGED <<profile, files, local, history>>

Put(r) ==
    /\ pc[r] = "put"
    /\ files' = files \cup {want[r].avatar}
    /\ Goto(r, "save")
    /\ UNCHANGED <<profile, local, history>>

\* The handler has failed on the prefetch; gather leaves the upload running.
LatePut(r) ==
    /\ pc[r] = "late"
    /\ files' = files \cup {want[r].avatar}
    /\ Goto(r, "failed")
    /\ UNCHANGED <<profile, local, history>>

DeleteAvatar(r) ==
    /\ Read(r, "delete", IF profile.avatar = None THEN "done" ELSE "remove")
    /\ Wants(r, [avatar |-> None])

\* The object that a URL names goes; one that is not the bucket's names none.
Removes(f) ==
    /\ files' = files \ {f}
    /\ removed' = [q \in Requests |-> removed[q] \cup (Files \cap {f})]

Remove(r) ==
    /\ pc[r] = "remove"
    /\ Removes(seen[r].avatar)
    /\ Goto(r, "save")
    /\ UNCHANGED <<profile, local, doubtful, dropped>>

\* The columns a handler is there to change.
Own(r) == CASE op[r] = "club" -> {"club"}
            [] op[r] = "top" -> {"top"}
            [] op[r] \in {"upload", "delete"} -> {"avatar"}
            [] OTHER -> Fields

\* A missing avatar has an excuse: it was deleted since the request read the row, or the
\* row has another by now, or it came from outside, or the row had it with an excuse.
Excused(r, f) ==
    \/ f \in removed[r]
    \/ "avatar" \notin Own(r) /\ (seen[r].avatar # profile.avatar \/ doubtful)
    \/ op[r] = "replace"

\* Mutated: the row is built from the request, as if it gave every column.
SaveDefaults(r) ==
    /\ pc[r] = "save"
    /\ profile' = IF profile = None THEN None
                  ELSE [f \in Fields |-> IF f \in Own(r) THEN want[r][f]
                                         ELSE IF f = "top" THEN FALSE ELSE None]
    /\ Goto(r, "done")
    /\ UNCHANGED <<files, local, history>>

\* All columns as they were read, but for its own; a row that is gone stays gone.
Save(r) ==
    /\ pc[r] = "save"
    /\ IF profile = None
       THEN UNCHANGED <<profile, doubtful>>
       ELSE /\ profile' = want[r]
            /\ doubtful' = (want[r].avatar \in Files \ files /\ Excused(r, want[r].avatar))
    /\ Goto(r, "done")
    /\ UNCHANGED <<files, local, removed, dropped>>

\* An administrator uploads under any name, deletes by any URL, deletes the athlete.
UploadFile(r) ==
    /\ pc[r] = "idle"
    /\ \E f \in Files : files' = files \cup {f}
    /\ op' = [op EXCEPT ![r] = "file"]
    /\ Goto(r, "done")
    /\ UNCHANGED <<profile, seen, want, history>>

DeleteFile(r) ==
    /\ pc[r] = "idle"
    /\ \E f \in Files : Removes(f) /\ dropped' = dropped \cup {f}
    /\ op' = [op EXCEPT ![r] = "file"]
    /\ Goto(r, "done")
    /\ UNCHANGED <<profile, seen, want, doubtful>>

DeleteAthlete(r) ==
    /\ pc[r] = "idle" /\ profile # None
    /\ profile' = None
    /\ op' = [op EXCEPT ![r] = "athlete"]
    /\ Goto(r, "done")
    /\ UNCHANGED <<files, seen, want, history>>

\* A call fails, or the process dies; an upload may still arrive.
Fail(r) ==
    /\ pc[r] \in {"limit", "put", "remove", "save"}
    /\ Goto(r, "failed") \/ (pc[r] = "put" /\ Goto(r, "late"))
    /\ UNCHANGED <<profile, files, local, history>>

Next == \E r \in Requests :
    \/ EditClub(r) \/ MarkTop(r) \/ Replace(r)
    \/ StartUpload(r) \/ CheckUpload(r) \/ Put(r) \/ LatePut(r)
    \/ DeleteAvatar(r) \/ Remove(r) \/ Save(r)
    \/ UploadFile(r) \/ DeleteFile(r) \/ DeleteAthlete(r) \/ Fail(r)

Spec == Init /\ [][Next]_vars

-----------------------------------------------------------------------------
(* Properties.                                                             *)

\* The avatar of the profile is in the bucket, unless an administrator took the file
\* away, a deletion of the avatar has yet to write the row or died before it did, or the
\* row was last written by a request that something overtook (upload_avatar puts the
\* file first and the row second, delete_avatar the other way round).
AvatarThere ==
    profile # None /\ profile.avatar \in Files \ files =>
        \/ doubtful
        \/ profile.avatar \in dropped
        \/ \E r \in Requests : /\ op[r] = "delete" /\ pc[r] \in {"save", "failed"}
                               /\ seen[r].avatar = profile.avatar
                               /\ profile.avatar \in removed[r]

\* A column changes by a handler that is there to change it, or because a whole-row save
\* brings back what a request read before somebody else changed it.
ColumnsKept ==
    [][profile # None /\ profile' # None =>
          \A f \in Fields : profile'[f] # profile[f] =>
             \E r \in Requests : /\ pc[r] = "save" /\ pc'[r] = "done"
                                 /\ f \in Own(r) \/ seen[r][f] # profile[f]]_vars
=============================================================================
