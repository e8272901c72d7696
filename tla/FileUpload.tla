----------------------------- MODULE FileUpload -----------------------------
(***************************************************************************)
(* A resumable upload (domains/files): parts go to the object store one by *)
(* one, the session row in SQL records their ETags, and completing the     *)
(* session composes the parts, verifies the digest and adds a File row.    *)
(* Every request has an SQL session of its own, which keeps the row as the *)
(* request read it: the second SELECT of upload_part returns the same      *)
(* object, and a commit writes the columns that differ from it.            *)
(***************************************************************************)
EXTENDS Naturals, FiniteSets, Sequences

CONSTANTS
  Parts,      \* the parts of the upload
  Bytes,      \* what a part may contain; its ETag is determined by it
  Sent,       \* the parts clients may send, each with what it contains
  Declared,   \* the parts whose digest the session declares
  Calls,      \* requests under way at a time (bound)
  MaxFiles,   \* File rows (bound)
  Nothing     \* no object, no ETag

ASSUME UploadAssumption ==
  /\ Parts # {} /\ Nothing \notin Bytes
  /\ Sent \subseteq Parts \X Bytes
  /\ Declared \in [Parts -> Bytes]
  /\ MaxFiles \in Nat

VARIABLES
  upload,     \* the row of the session
  objects,    \* the objects of the parts in the store
  whole,      \* the composed object
  files,      \* the File rows, all of them naming that object
  calls,      \* the requests
  stored      \* every ETag the store has answered (history)

uploadVars == <<upload, objects, whole, files, calls, stored>>

Etags == [Parts -> Bytes \cup {Nothing}]
UploadStatus ==
  {"created", "uploading", "verifying", "completed", "cancelled", "failed"}
UploadSession == [status : UploadStatus, parts : Etags, expired : BOOLEAN]

(* Whether the row was deleted; all the rows name the composed object.     *)
FileRow == [live : BOOLEAN]

(* A request: what it does next, the row as it read it, and its argument.  *)
Call == [next : {"idle", "store", "record", "mark", "compose", "verify",
                 "discard", "fail", "finish", "cancel", "cleanup", "remove"},
         status : UploadStatus, parts : Etags,
         part : Parts, bytes : Bytes]

NoBytes == [p \in Parts |-> Nothing]
Idle == [next |-> "idle", status |-> "created", parts |-> NoBytes,
         part |-> CHOOSE p \in Parts : TRUE, bytes |-> CHOOSE b \in Bytes : TRUE]

UploadTypeOK ==
  /\ upload \in UploadSession
  /\ objects \in Etags
  /\ whole \in [Parts -> Bytes] \cup {NoBytes}
  /\ files \in Seq(FileRow) /\ Len(files) <= MaxFiles
  /\ calls \in [Calls -> Call]
  /\ stored \subseteq Parts \X Bytes

(* create_upload_session; the size gives the number of parts. *)
UploadInit ==
  /\ upload = [status |-> "created", parts |-> NoBytes, expired |-> FALSE]
  /\ objects = NoBytes /\ whole = NoBytes /\ files = <<>>
  /\ calls = [c \in Calls |-> Idle] /\ stored = {}

-----------------------------------------------------------------------------
(* Steps of a request                                                      *)

Goes(c, next) == calls' = [calls EXCEPT ![c].next = next]
Ends(c) == calls' = [calls EXCEPT ![c] = Idle]

(* What is left to do needs nothing of what was read. *)
Leaves(c, next) == calls' = [calls EXCEPT ![c] = [Idle EXCEPT !.next = next]]

(* The request has read the row. *)
Reads(c, next) ==
  /\ calls[c].next = "idle"
  /\ calls' = [calls EXCEPT ![c].next = next, ![c].status = upload.status,
                            ![c].parts = upload.parts]

(* A request dies between two steps: its client went away, or the process. *)
Abandon(c) ==
  /\ calls[c].next # "idle"
  /\ Ends(c)
  /\ UNCHANGED <<upload, objects, whole, files, stored>>

(* 24 hours have passed. *)
Expire ==
  /\ ~upload.expired
  /\ upload' = [upload EXCEPT !.expired = TRUE]
  /\ UNCHANGED <<objects, whole, files, calls, stored>>

(* get_upload_session finds the session expired. *)
NoticeExpiry(c) ==
  /\ upload.expired
  /\ calls[c].next = "idle"
  /\ Leaves(c, "cleanup")
  /\ upload' = [upload EXCEPT !.status = "cancelled"]
  /\ UNCHANGED <<objects, whole, files, stored>>

-----------------------------------------------------------------------------
(* upload_part                                                             *)

BeginPart(c, p, b) ==
  /\ ~upload.expired
  /\ upload.status \in {"created", "uploading"}
  /\ calls[c].next = "idle"
  /\ calls' = [calls EXCEPT ![c] = [next |-> "store", status |-> upload.status,
                                    parts |-> upload.parts,
                                    part |-> p, bytes |-> b]]
  /\ UNCHANGED <<upload, objects, whole, files, stored>>

(* Mutant of StorePart: the ETag is known before the store has the part. *)
StorePartLater(c) ==
  /\ calls[c].next = "store"
  /\ Goes(c, "record")
  /\ UNCHANGED <<upload, objects, whole, files, stored>>

StorePart(c) ==
  /\ calls[c].next = "store"
  /\ objects' = [objects EXCEPT ![calls[c].part] = calls[c].bytes]
  /\ stored' = stored \cup {<<calls[c].part, calls[c].bytes>>}
  /\ Goes(c, "record")
  /\ UNCHANGED <<upload, whole, files>>

(* record_uploaded_part: its checks see the row upload_part has read, and   *)
(* so do the columns it assigns.                                            *)
RecordPart(c) ==
  LET mine == [calls[c].parts EXCEPT ![calls[c].part] = calls[c].bytes]
  IN /\ calls[c].next = "record"
     /\ upload' = [upload EXCEPT
          !.parts = IF mine = calls[c].parts THEN @ ELSE mine,
          !.status = IF calls[c].status = "created" THEN "uploading" ELSE @]
     /\ Ends(c)
     /\ UNCHANGED <<objects, whole, files, stored>>

-----------------------------------------------------------------------------
(* complete_upload                                                         *)

(* The submitted ETags must be the recorded ones, and all of them there.   *)
BeginComplete(c) ==
  /\ ~upload.expired
  /\ upload.status \in {"created", "uploading", "verifying"}
  /\ \A p \in Parts : upload.parts[p] # Nothing
  /\ Reads(c, "mark")
  /\ UNCHANGED <<upload, objects, whole, files, stored>>

MarkVerifying(c) ==
  /\ calls[c].next = "mark"
  /\ upload' = [upload EXCEPT
       !.status = IF calls[c].status = "verifying" THEN @ ELSE "verifying"]
  /\ calls' = [calls EXCEPT ![c].next = "compose", ![c].status = "created"]
  /\ UNCHANGED <<objects, whole, files, stored>>

(* compose_object compares every ETag with the part it finds; it fails also *)
(* when the store cannot be reached.                                        *)
Compose(c) ==
  /\ calls[c].next = "compose"
  /\ \/ objects = calls[c].parts /\ whole' = objects /\ Leaves(c, "verify")
     \/ UNCHANGED whole /\ Leaves(c, "fail")
  /\ UNCHANGED <<upload, objects, files, stored>>

(* The digest is that of the object as it is now, whoever composed it; there *)
(* is none of an object that is gone or cannot be read.                     *)
Verify(c) ==
  /\ calls[c].next = "verify"
  /\ \/ whole = Declared /\ Goes(c, "finish")
     \/ whole \notin {Declared, NoBytes} /\ Goes(c, "discard")
     \/ Goes(c, "fail")
  /\ UNCHANGED <<upload, objects, whole, files, stored>>

(* _remove_object after a wrong digest: it may fail, and nobody is told.    *)
Discard(c) ==
  /\ calls[c].next = "discard"
  /\ whole' \in {NoBytes, whole}
  /\ Goes(c, "fail")
  /\ UNCHANGED <<upload, objects, files, stored>>

(* FileRejectedError: the session fails, and the error is raised again.     *)
Fail(c) ==
  /\ calls[c].next = "fail"
  /\ upload' = [upload EXCEPT !.status = "failed"]
  /\ Ends(c)
  /\ UNCHANGED <<objects, whole, files, stored>>

Finish(c) ==
  /\ calls[c].next = "finish"
  /\ Len(files) < MaxFiles
  /\ files' = Append(files, [live |-> TRUE])
  /\ upload' = [upload EXCEPT !.status = "completed"]
  /\ Leaves(c, "cleanup")
  /\ UNCHANGED <<objects, whole, stored>>

-----------------------------------------------------------------------------
(* cancel_upload_session, and what follows completion and cancellation     *)

BeginCancel(c) ==
  /\ upload.status # "completed"
  /\ calls[c].next = "idle"
  /\ calls' = [calls EXCEPT ![c] = [Idle EXCEPT !.next = "cancel",
                                               !.status = upload.status]]
  /\ UNCHANGED <<upload, objects, whole, files, stored>>

EndCancel(c) ==
  /\ calls[c].next = "cancel"
  /\ upload' = [upload EXCEPT
       !.status = IF calls[c].status = "cancelled" THEN @ ELSE "cancelled"]
  /\ Leaves(c, "cleanup")
  /\ UNCHANGED <<objects, whole, files, stored>>

(* _cleanup_parts does its best: any of the parts may stay. *)
Cleanup(c) ==
  /\ calls[c].next = "cleanup"
  /\ \E left \in SUBSET Parts :
       objects' = [p \in Parts |-> IF p \in left THEN objects[p] ELSE Nothing]
  /\ Ends(c)
  /\ UNCHANGED <<upload, whole, files, stored>>

(* delete_file marks the row, and then tries to remove the object it names. *)
DeleteFile(c, i) ==
  /\ files[i].live
  /\ calls[c].next = "idle"
  /\ files' = [files EXCEPT ![i].live = FALSE]
  /\ Leaves(c, "remove")
  /\ UNCHANGED <<upload, objects, whole, stored>>

RemoveObject(c) ==
  /\ calls[c].next = "remove"
  /\ whole' \in {NoBytes, whole}
  /\ Ends(c)
  /\ UNCHANGED <<upload, objects, files, stored>>

UploadNext ==
  \/ Expire
  \/ \E c \in Calls :
       \/ \E sent \in Sent : BeginPart(c, sent[1], sent[2])
       \/ StorePart(c) \/ RecordPart(c) \/ NoticeExpiry(c) \/ Abandon(c)
       \/ BeginComplete(c) \/ MarkVerifying(c) \/ Compose(c) \/ Verify(c)
       \/ Discard(c) \/ Fail(c) \/ Finish(c)
       \/ BeginCancel(c) \/ EndCancel(c) \/ Cleanup(c)
       \/ \E i \in DOMAIN files : DeleteFile(c, i)
       \/ RemoveObject(c)

UploadSpec == UploadInit /\ [][UploadNext]_uploadVars

-----------------------------------------------------------------------------
(* Properties                                                              *)

(* "An ETag can never be recorded before storage" (record_uploaded_part,   *)
(* its docstring), in whatever order the requests go on.                   *)
RecordedWasStored ==
  \A p \in Parts :
    upload.parts[p] # Nothing => <<p, upload.parts[p]>> \in stored

(* complete_upload is to "compose all uploaded parts, verify SHA-256, and  *)
(* create file metadata": the object of a file that was not deleted has the *)
(* declared digest, whatever other completions and deletions go on.        *)
LiveFileHasBytes ==
  (\E i \in DOMAIN files : files[i].live) => whole = Declared

=============================================================================
