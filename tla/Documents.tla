------------------------------ MODULE Documents ------------------------------
(***************************************************************************)
(* Files of users, their objects in Cloudinary, and the CVs that refer to  *)
(* them: FileManagementService and CVService.  Everything is of one user.  *)
(* updateCV and publishCV change neither the file nor whether it is there. *)
(***************************************************************************)
EXTENDS Server

VARIABLES
    files,          \* the files table
    cloud,          \* the files with an object in Cloudinary
    cvs,            \* the cvs table
    written         \* the files with a row that a client wrote as it liked

dvars == <<files, cloud, cvs, written>>

\* Images and videos, which Cloudinary calls so too, and the rest, which it does not;
\* a PDF that a client uploads is an image to Cloudinary, and may be a CV.
FileTypes == {"image", "document"}
SentTypes == FileTypes \cup {"pdf"}

FileStatuses == {"uploading", "uploaded", "ready", "failed", "deleted"}

\* What the row knows of its object: nothing, its bare name without the folder, its name,
\* or a name that no object has.
FileRow(id, type, publicId) ==
    [id |-> id, type |-> type, status |-> "uploading", publicId |-> publicId, isDeleted |-> FALSE]

DocumentsInit == files = {} /\ cloud = {} /\ cvs = {} /\ written = {}

File(id) == CHOOSE f \in files : f.id = id
WithFile(f) == {g \in files : g.id # f.id} \cup {f}

-----------------------------------------------------------------------------
(* uploadFile and uploadFromUrl; Arg is the type of the file *)

InsertFile(h) ==
    /\ At(h, "uploadFile", "start")
    /\ files' = files \cup {FileRow(h, Arg(h), "none")}
    /\ Goto(h, "upload")
    /\ UNCHANGED <<cloud, cvs, written>>

Upload(h) ==
    /\ At(h, "uploadFile", "upload")
    /\ cloud' = cloud \cup {h}
    /\ Goto(h, "uploaded")
    /\ UNCHANGED <<files, cvs, written>>

UploadFails(h) ==
    /\ At(h, "uploadFile", "upload")
    /\ Goto(h, "failed")
    /\ UNCHANGED dvars

MarkUploaded(h) ==
    /\ At(h, "uploadFile", "uploaded")
    /\ files' = WithFile([File(h) EXCEPT !.status = "uploaded", !.publicId = "name"])
    /\ End(h)
    /\ UNCHANGED <<cloud, cvs, written>>

MarkFailed(h) ==
    /\ At(h, "uploadFile", "failed")
    /\ files' = WithFile([File(h) EXCEPT !.status = "failed"])
    /\ End(h)
    /\ UNCHANGED <<cloud, cvs, written>>

-----------------------------------------------------------------------------
(* generateSignedUploadUrl and updateFile *)

\* The row gets the name without the folder that Cloudinary puts in front of it.
InsertPending(h) ==
    /\ At(h, "generateSignedUploadUrl", "start")
    /\ files' = files \cup {FileRow(h, "document", "bare")}
    /\ End(h)
    /\ UNCHANGED <<cloud, cvs, written>>

Pending(f) == f.publicId = "bare"

\* The client uploads its file to Cloudinary by the signed URL.
ClientUploads(f) ==
    /\ Pending(f)
    /\ cloud' = cloud \cup {f.id}
    /\ UNCHANGED <<svars, files, cvs, written>>

\* What the body of updateFile changes of a row: what Cloudinary answers, when it has a
\* public_id, and else columns as the client names them, which here are one at a time.
Answers == [status: {"ready"}, publicId: {"name", "other"}, type: SentTypes, isDeleted: {"same"}]

NoColumn == [status |-> "same", publicId |-> "same", type |-> "same", isDeleted |-> "same"]

Columns ==
    {[NoColumn EXCEPT !.status = s] : s \in FileStatuses}
      \cup {[NoColumn EXCEPT !.publicId = p] : p \in {"name", "other"}}
      \cup {[NoColumn EXCEPT !.type = t] : t \in SentTypes}
      \cup {[NoColumn EXCEPT !.isDeleted = d] : d \in {"yes", "no"}}

\* NoColumn compares what a client sends with what there is in the cloud.
FromCloudinary(f, c) == c \in Answers /\ c.publicId = "name" /\ f.id \in cloud

Column(old, new) == IF new = "same" THEN old ELSE new

Updated(f, c) ==
    [f EXCEPT !.status = Column(@, c.status), !.publicId = Column(@, c.publicId),
              !.type = Column(@, c.type),
              !.isDeleted = IF c.isDeleted = "same" THEN @ ELSE c.isDeleted = "yes"]

ReadUpdated(h) ==
    /\ At(h, "updateFile", "start")
    /\ Goto(h, "write")
    /\ UNCHANGED dvars

WriteUpdated(h) ==
    /\ At(h, "updateFile", "write")
    /\ files' = WithFile(Updated(File(Arg(h).id), Arg(h).change))
    /\ written' = IF Arg(h).answered THEN written ELSE written \cup {Arg(h).id}
    /\ End(h)
    /\ UNCHANGED <<cloud, cvs>>

-----------------------------------------------------------------------------
(* deleteFile and deleteCV; a file that was deleted is read like any other *)

ReadDeleted(h) ==
    /\ At(h, "deleteFile", "start")
    /\ Keep(h, "mark", File(Arg(h)))
    /\ UNCHANGED dvars

DeletedFile_StatusOnly(id) == [File(id) EXCEPT !.status = "deleted"]

DeletedFile(id) == [File(id) EXCEPT !.status = "deleted", !.isDeleted = TRUE]

MarkDeleted(h) ==
    /\ handler[h].op \in {"deleteFile", "deleteCV"} /\ handler[h].step = "mark"
    /\ files' = WithFile(DeletedFile(Mem(h).id))
    /\ Goto(h, "destroy")
    /\ UNCHANGED <<cloud, cvs, written>>

\* The object goes when the row that was read has its name and a type that Cloudinary
\* knows; what Cloudinary rejects is logged.
Destroyable(f) == f.publicId = "name" /\ f.type \in {"image", "pdf"}
Destroyed(f) == IF Destroyable(f) THEN {f.id} ELSE {}

Destroy(h) ==
    /\ handler[h].op \in {"deleteFile", "deleteCV"} /\ handler[h].step = "destroy"
    /\ cloud' \in {cloud \ Destroyed(Mem(h)), cloud}
    /\ faults' = IF cloud' = cloud /\ Destroyed(Mem(h)) \cap cloud # {} THEN faults + 1 ELSE faults
    /\ faults' <= MaxFaults
    /\ handler' = [handler EXCEPT ![h] = Answered(h)]
    /\ UNCHANGED <<files, cvs, written>>

\* An image is no CV.
CheckFile(h) ==
    /\ At(h, "uploadCV", "start")
    /\ Check(h, File(Arg(h)).type # "image", "insert")
    /\ UNCHANGED dvars

InsertCV(h) ==
    /\ At(h, "uploadCV", "insert")
    /\ cvs' = cvs \cup {[id |-> h, file |-> Arg(h), isDeleted |-> FALSE]}
    /\ End(h)
    /\ UNCHANGED <<files, cloud, written>>

ReadCV(h) ==
    /\ At(h, "deleteCV", "start")
    /\ \/ \E c \in cvs : c.id = Arg(h) /\ ~c.isDeleted /\ Keep(h, "softDelete", c)
       \/ (\A c \in cvs : c.id = Arg(h) => c.isDeleted) /\ End(h)
    /\ UNCHANGED dvars

SoftDeleteCV(h) ==
    /\ At(h, "deleteCV", "softDelete")
    /\ cvs' = {c \in cvs : c.id # Mem(h).id} \cup {[Mem(h) EXCEPT !.isDeleted = TRUE]}
    /\ Goto(h, "file")
    /\ UNCHANGED <<files, cloud, written>>

ReadFileOfCV(h) ==
    /\ At(h, "deleteCV", "file")
    /\ Keep(h, "mark", File(Mem(h).file))
    /\ UNCHANGED dvars

-----------------------------------------------------------------------------
\* An upload whose row cannot be updated is marked as failed.
DocumentsFault(h) ==
    /\ handler[h].step \notin {"upload", "destroy"}
    /\ IF At(h, "uploadFile", "uploaded")
       THEN faults < MaxFaults /\ faults' = faults + 1 /\ handler' = [handler EXCEPT ![h].step = "failed"]
       ELSE Fault(h)
    /\ UNCHANGED dvars

DocumentsRequest(h) ==
    /\ \/ \E t \in FileTypes : Ask(h, "uploadFile", t)
       \/ Ask(h, "generateSignedUploadUrl", "none")
       \/ \E f \in files, c \in Answers \cup Columns :
              Ask(h, "updateFile", [id |-> f.id, change |-> c, answered |-> FromCloudinary(f, c)])
       \/ \E f \in files : Ask(h, "deleteFile", f.id) \/ Ask(h, "uploadCV", f.id)
       \/ \E c \in cvs : Ask(h, "deleteCV", c.id)
    /\ UNCHANGED dvars

DocumentsStep(h) ==
    \/ InsertFile(h) \/ Upload(h) \/ UploadFails(h) \/ MarkUploaded(h) \/ MarkFailed(h)
    \/ InsertPending(h) \/ ReadUpdated(h) \/ WriteUpdated(h)
    \/ ReadDeleted(h) \/ MarkDeleted(h) \/ Destroy(h)
    \/ CheckFile(h) \/ InsertCV(h) \/ ReadCV(h) \/ SoftDeleteCV(h) \/ ReadFileOfCV(h)

DocumentsNext ==
    \/ \E h \in Requests : DocumentsRequest(h) \/ DocumentsStep(h) \/ DocumentsFault(h)
    \/ \E f \in files : ClientUploads(f)

DocumentsSpec == SInit /\ DocumentsInit /\ [][DocumentsNext]_<<svars, dvars>>

-----------------------------------------------------------------------------
(* Properties *)

\* Whatever overlaps or fails: a file that is uploaded or ready, and not deleted, has its
\* object in the cloud, unless its client wrote what Cloudinary had not answered
\* (uploadFile, updateFile, deleteFile).
ShownIsStored ==
    \A f \in files :
        f.status \in {"uploaded", "ready"} /\ ~f.isDeleted => f.id \in cloud \cup written

\* A file whose status says so is deleted; one that is deleted says so, unless its
\* client completed its upload afterwards, which updateFile accepts, or wrote it so.
DeletedAgrees ==
    \A f \in files :
        /\ f.status = "deleted" => f.isDeleted \/ f.id \in written
        /\ f.isDeleted => f.status \in {"deleted", "ready"} \/ f.id \in written

\* The file of a deleted CV is deleted, unless its client wrote that it is not.
CVGoesWithFile == \A c \in cvs : c.isDeleted => File(c.file).isDeleted \/ c.file \in written

\* A deleted image of which the server knew the name is gone from the cloud.
ImagesGo ==
    \A f \in files :
        f.status = "deleted" /\ Destroyable(f) => f.id \notin cloud \/ f.id \in written
=============================================================================
