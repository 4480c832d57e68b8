------------------------------ MODULE FileStore -------------------------------
(***************************************************************************)
(* Uploaded files: FileService (files/service.py) keeps the content on     *)
(* disk under a fresh name and a row per file in the database.  The two    *)
(* are written one after the other with awaits between them, so requests   *)
(* interleave, and a process that dies leaves the one without the other.   *)
(*                                                                         *)
(* One user's files: get_by_id and get_by_hash ask for rows of the caller. *)
(* Left out: names, sizes, types (an unsupported file is refused before    *)
(* anything is done) and downloads, which change nothing.                  *)
(***************************************************************************)
EXTENDS FiniteSets

CONSTANTS
  FileIds,       \* the uuid names an upload may draw
  Contents,      \* what may be uploaded; equal contents have equal hashes
  FileRequests   \* concurrent requests

VARIABLES
  disk,     \* files in STORAGE_DIR
  rows,     \* the File rows: the content_hash of each file that has one
  drawn,    \* names drawn so far
  owner,    \* is the user's row there?
  freq,     \* of each request: its step, and the file and content it is about
  cut,      \* history: files whose delete died between disk and database
  orphaned  \* history: files on disk whose upload failed or whose user went

fileVars == <<disk, rows, drawn, owner, freq, cut, orphaned>>

NoFile == "none"
Idle   == [step |-> "idle", file |-> NoFile, content |-> NoFile]
FileSteps == {"idle", "hash", "write", "user", "insert", "find", "unlink", "erase"}

FilesTypeOK ==
  /\ disk \subseteq drawn /\ drawn \subseteq FileIds
  /\ DOMAIN rows \subseteq drawn /\ \A f \in DOMAIN rows : rows[f] \in Contents
  /\ owner \in BOOLEAN
  /\ freq \in [FileRequests -> [step : FileSteps, file : FileIds \cup {NoFile},
                                content : Contents \cup {NoFile}]]
  /\ cut \subseteq drawn /\ orphaned \subseteq drawn

FilesInit ==
  /\ disk = {} /\ rows = [f \in {} |-> NoFile] /\ drawn = {} /\ owner = TRUE
  /\ freq = [r \in FileRequests |-> Idle]
  /\ cut = {} /\ orphaned = {}

At(r, step) == freq[r].step = step
Goto(r, step) == freq' = [freq EXCEPT ![r].step = step]
Done(r) == freq' = [freq EXCEPT ![r] = Idle]

-----------------------------------------------------------------------------
(* save_file *)

Upload(r, c) ==
  /\ At(r, "idle") /\ owner
  /\ freq' = [freq EXCEPT ![r] = [step |-> "hash", file |-> NoFile, content |-> c]]
  /\ UNCHANGED <<disk, rows, drawn, owner, cut, orphaned>>

\* get_by_hash: a file with this content is returned as it is.
FindDuplicate(r) ==
  /\ At(r, "hash")
  /\ IF \E f \in DOMAIN rows : rows[f] = freq[r].content THEN Done(r) ELSE Goto(r, "write")
  /\ UNCHANGED <<disk, rows, drawn, owner, cut, orphaned>>

WriteToDisk(r) ==
  /\ At(r, "write")
  /\ \E f \in FileIds \ drawn :
       /\ drawn' = drawn \cup {f} /\ disk' = disk \cup {f}
       /\ freq' = [freq EXCEPT ![r].step = "user", ![r].file = f]
  /\ UNCHANGED <<rows, owner, cut, orphaned>>

\* The user is looked up only now; without one the file stays behind.
LoadOwner(r) ==
  /\ At(r, "user")
  /\ IF owner
     THEN Goto(r, "insert") /\ UNCHANGED orphaned
     ELSE Done(r) /\ orphaned' = orphaned \cup {freq[r].file}
  /\ UNCHANGED <<disk, rows, drawn, owner, cut>>

\* FileRepository.create; the foreign key refuses a user that has gone.
InsertRow(r) ==
  /\ At(r, "insert")
  /\ IF owner
     THEN /\ rows' = [f \in DOMAIN rows \cup {freq[r].file} |->
                        IF f = freq[r].file THEN freq[r].content ELSE rows[f]]
          /\ UNCHANGED orphaned
     ELSE orphaned' = orphaned \cup {freq[r].file} /\ UNCHANGED rows
  /\ Done(r)
  /\ UNCHANGED <<disk, drawn, owner, cut>>

-----------------------------------------------------------------------------
(* delete_file *)

Delete(r, f) ==
  /\ At(r, "idle") /\ owner
  /\ freq' = [freq EXCEPT ![r] = [step |-> "find", file |-> f, content |-> NoFile]]
  /\ UNCHANGED <<disk, rows, drawn, owner, cut, orphaned>>

FindRow(r) ==
  /\ At(r, "find")
  /\ IF freq[r].file \in DOMAIN rows THEN Goto(r, "unlink") ELSE Done(r)
  /\ UNCHANGED <<disk, rows, drawn, owner, cut, orphaned>>

\* Mutant: only the file is deleted.
UnlinkOnly(r) ==
  /\ At(r, "unlink")
  /\ disk' = disk \ {freq[r].file}
  /\ Done(r)
  /\ UNCHANGED <<rows, drawn, owner, cut, orphaned>>

\* Mutant: only the row is deleted.
UnlinkNothing(r) ==
  /\ At(r, "unlink")
  /\ Goto(r, "erase")
  /\ UNCHANGED <<disk, rows, drawn, owner, cut, orphaned>>

\* exists() and unlink(), without an await between them.
Unlink(r) ==
  /\ At(r, "unlink")
  /\ disk' = disk \ {freq[r].file}
  /\ Goto(r, "erase")
  /\ UNCHANGED <<rows, drawn, owner, cut, orphaned>>

\* FileRepository.delete looks the row up once more.
EraseRow(r) ==
  /\ At(r, "erase")
  /\ rows' = [f \in DOMAIN rows \ {freq[r].file} |-> rows[f]]
  /\ Done(r)
  /\ UNCHANGED <<disk, drawn, owner, cut, orphaned>>

-----------------------------------------------------------------------------
(* What happens to a request from outside *)

\* UserRepository.delete; the files' rows go with the user's (ON DELETE
\* CASCADE), what they have on disk stays.
DeleteOwner ==
  /\ owner
  /\ owner' = FALSE
  /\ rows' = [f \in {} |-> NoFile]
  /\ orphaned' = orphaned \cup (DOMAIN rows \cap disk)
  /\ UNCHANGED <<disk, drawn, freq, cut>>

\* The process dies, or the step raises.
Abort(r) ==
  /\ ~At(r, "idle")
  /\ cut' = IF At(r, "erase") THEN cut \cup {freq[r].file} ELSE cut
  /\ orphaned' = IF At(r, "user") \/ At(r, "insert")
                 THEN orphaned \cup {freq[r].file} ELSE orphaned
  /\ Done(r)
  /\ UNCHANGED <<disk, rows, drawn, owner>>

FileStep(r) ==
  \/ FindDuplicate(r) \/ WriteToDisk(r) \/ LoadOwner(r) \/ InsertRow(r)
  \/ FindRow(r) \/ Unlink(r) \/ EraseRow(r)

FilesNext ==
  \/ \E r \in FileRequests : FileStep(r) \/ Abort(r)
  \/ \E r \in FileRequests, c \in Contents : Upload(r, c)
  \/ \E r \in FileRequests, f \in drawn : Delete(r, f)
  \/ DeleteOwner

FilesSpec == FilesInit /\ [][FilesNext]_fileVars

-----------------------------------------------------------------------------
(* Properties *)

Deleting(f)  == \E r \in FileRequests : At(r, "erase") /\ freq[r].file = f
Uploading(f) == \E r \in FileRequests :
                  (At(r, "user") \/ At(r, "insert")) /\ freq[r].file = f

\* Every listed file can be downloaded, but for one that is just being deleted
\* or whose delete died half-way (files/service.py:75-78).
RowsHaveFiles == \A f \in DOMAIN rows : f \in disk \/ Deleting(f) \/ f \in cut

\* Nothing is left on disk without a row but what an upload under way, a failed
\* upload or the deletion of its user accounts for (files/service.py:45-62).
DiskIsAccountedFor ==
  \A f \in disk \ DOMAIN rows : Uploading(f) \/ f \in orphaned

=============================================================================
