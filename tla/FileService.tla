---------------------------- MODULE FileService ----------------------------
(***************************************************************************)
(* Uploading, reading and deleting files: lib/services/file-service.js     *)
(* over its file system back end lib/services/files/file-plugin.js.        *)
(*                                                                         *)
(* A file lives in two places, an entry of the files collection and a file *)
(* on disk, and an upload goes through a temporary file named after the    *)
(* file ("unresolved_<filename>"), not after the upload.  One action is    *)
(* one awaited database or file system call.                               *)
(***************************************************************************)
EXTENDS Naturals, FiniteSets

CONSTANTS
    Name,           \* file names (basename and filename coincide)
    Upload, Delete, Get,    \* requests
    Target,         \* [requests -> Name]
    Chunks,         \* how many writes an upload's data needs
    None,           \* no file, no content
    MaxInFlight,    \* how many requests are served at the same time
    Faults          \* store: a call to the collection fails; disk: one to the file system;
                    \* stream: a write stream; abort: a client goes away

ASSUME FileAssumption ==
    /\ Upload \cap Delete = {} /\ Upload \cap Get = {} /\ Delete \cap Get = {}
    /\ Target \in [Upload \cup Delete \cup Get -> Name]
    /\ Chunks \in Nat \ {0}
    /\ MaxInFlight \in Nat \ {0}
    /\ None \notin Upload

VARIABLES
    temp,       \* [Name -> the file stored as unresolved_<name>]
    final,      \* [Name -> the file stored as <name>]
    content,    \* [file -> chunk number -> the upload that wrote it]
    entries,    \* the files collection: [row -> entry]
    upload,     \* [Upload -> progress of putFile]
    file,       \* [Upload -> the file its write stream has opened]
    flushed,    \* [Upload -> chunks that have reached the disk]
    known,      \* [Upload -> uuid of the entry found, or None]
    broken,     \* the uploads whose write stream has failed
    deleting,   \* [Delete -> progress of deleteFile]
    reading     \* [Get -> progress of getFile]

vars == <<temp, final, content, entries, upload, file, flushed, known, broken, deleting, reading>>
disk == <<temp, final, content>>
uploads == <<upload, file, flushed, known, broken>>

\* A file and a row are identified by the upload that made them; so is a uuid.
Entry == [name : Name, uuid : Upload, hash : Upload]
Rows(n) == {w \in DOMAIN entries : entries[w].name = n}

Streaming(u) == upload[u] \notin {"idle", "aborted"} /\ u \notin broken /\ flushed[u] < Chunks
Over == {"idle", "ok", "failed", "aborted", "littered"}
InFlight ==
    {u \in Upload : upload[u] \notin Over \/ Streaming(u)}
    \cup {d \in Delete : deleting[d] \notin {"idle", "ok", "failed"}}
    \cup {g \in Get : reading[g] \notin {"idle", "ok", "failed"}}
Quiet == InFlight = {}
Admitted == Cardinality(InFlight) < MaxInFlight

Init ==
    /\ temp = [n \in Name |-> None]
    /\ final = [n \in Name |-> None]
    /\ content = [u \in Upload |-> [i \in 1 .. Chunks |-> None]]
    /\ entries = [w \in {} |-> None]
    /\ upload = [u \in Upload |-> "idle"]
    /\ file = [u \in Upload |-> None]
    /\ flushed = [u \in Upload |-> 0]
    /\ known = [u \in Upload |-> None]
    /\ broken = {}
    /\ deleting = [d \in Delete |-> "idle"]
    /\ reading = [g \in Get |-> "idle"]

-----------------------------------------------------------------------------
(* putFile, put and _onMetadata                                            *)

Goes(u, from, to) == upload[u] = from /\ upload' = [upload EXCEPT ![u] = to]

\* A step that fails rejects the promise: what is left to do is to clean up.
Fails(u, from, fault) ==
    /\ fault \in Faults
    /\ Goes(u, from, "cleanup")
    /\ UNCHANGED <<disk, entries, file, flushed, known, broken, deleting, reading>>

\* createWriteStream truncates the temporary file, or makes a new one.
Put(u) ==
    /\ Admitted
    /\ Goes(u, "idle", "streaming")
    /\ LET n == Target[u]
           f == IF temp[n] = None THEN u ELSE temp[n]
       IN  /\ file' = [file EXCEPT ![u] = f]
           /\ temp' = [temp EXCEPT ![n] = f]
           /\ content' = [content EXCEPT ![f] = [i \in 1 .. Chunks |-> None]]
    /\ UNCHANGED <<final, entries, flushed, known, broken, deleting, reading>>

\* The temporary file cannot be opened: the stream's 'error' is the answer.
OpenFails(u) ==
    /\ "stream" \in Faults
    /\ Admitted
    /\ Goes(u, "idle", "failed")
    /\ broken' = broken \cup {u}
    /\ UNCHANGED <<disk, entries, file, flushed, known, deleting, reading>>

\* The write stream writes at its own offset of the file it has opened, under
\* whatever name that file is known by now.
FlushChunk(u) ==
    /\ Streaming(u)
    /\ flushed' = [flushed EXCEPT ![u] = @ + 1]
    /\ content' = [content EXCEPT ![file[u]][flushed[u] + 1] = u]
    /\ UNCHANGED <<temp, final, entries, upload, file, known, broken, deleting, reading>>

\* The write stream fails and 'error' answers the request.  Data that had not all
\* come is read no further, so nothing emits 'metadata' and nobody unlinks the
\* temporary file; data that had goes on to its entry and its name, short.
StreamFails(u) ==
    /\ "stream" \in Faults
    /\ Streaming(u)
    /\ broken' = broken \cup {u}
    /\ upload' = IF upload[u] = "streaming" THEN [upload EXCEPT ![u] = "littered"] ELSE upload
    /\ UNCHANGED <<disk, entries, file, flushed, known, deleting, reading>>

\* The client goes away before the end of its data: no stream ends or fails.
Abort(u) ==
    /\ "abort" \in Faults
    /\ Goes(u, "streaming", "aborted")
    /\ UNCHANGED <<disk, entries, file, flushed, known, broken, deleting, reading>>

\* The hash stream has passed everything on ('end'), which emits 'metadata';
\* the write stream may still have data to write.
EndOfData(u) ==
    /\ Goes(u, "streaming", "find")
    /\ UNCHANGED <<disk, entries, file, flushed, known, broken, deleting, reading>>

\* Mutations: the entry is stored without hashes, or always under a new uuid.
EntryWithoutHash(u, id) == [name |-> Target[u], uuid |-> id, hash |-> None]
EntryWithNewUuid(u, id) == [name |-> Target[u], uuid |-> u, hash |-> u]

\* The fileObj of an upload: its names, a uuid, the hashes of its data.
EntryOf(u, id) == [name |-> Target[u], uuid |-> id, hash |-> u]

\* createOrUpdateEntry looks for an entry of that name; an entry keeps its uuid.
FindEntry(u) ==
    \/ /\ \/ /\ Rows(Target[u]) = {}
             /\ Goes(u, "find", "create")
             /\ UNCHANGED known
          \/ /\ Goes(u, "find", "update")
             /\ \E w \in Rows(Target[u]) : known' = [known EXCEPT ![u] = entries[w].uuid]
       /\ UNCHANGED <<disk, entries, file, flushed, broken, deleting, reading>>
    \/ Fails(u, "find", "store")

\* waterline.files.update({basename}, fileObj) resolves to a list, on which
\* exists() fails: the old file is left to the rename.
UpdateEntry(u) ==
    \/ /\ Goes(u, "update", "rename")
       /\ entries' = [w \in DOMAIN entries |->
                        IF w \in Rows(Target[u]) THEN EntryOf(u, known[u]) ELSE entries[w]]
       /\ UNCHANGED <<disk, file, flushed, known, broken, deleting, reading>>
    \/ Fails(u, "update", "store")

CreateEntry(u) ==
    \/ /\ Goes(u, "create", "exists")
       /\ entries' = [w \in DOMAIN entries \cup {u} |->
                        IF w = u THEN EntryOf(u, u) ELSE entries[w]]
       /\ UNCHANGED <<disk, file, flushed, known, broken, deleting, reading>>
    \/ Fails(u, "create", "store")

\* A file of that name that had no entry is unlinked first; errors are ignored.
FileExists(u) ==
    /\ upload[u] = "exists"
    /\ upload' = [upload EXCEPT ![u] = IF final[Target[u]] = None THEN "rename" ELSE "unlink"]
    /\ UNCHANGED <<disk, entries, file, flushed, known, broken, deleting, reading>>

UnlinkOld(u) ==
    /\ Goes(u, "unlink", "rename")
    /\ \/ final' = [final EXCEPT ![Target[u]] = None]
       \/ "disk" \in Faults /\ UNCHANGED final
    /\ UNCHANGED <<temp, content, entries, file, flushed, known, broken, deleting, reading>>

\* Mutation: the temporary file is linked, not renamed.
RenameLinks(u) ==
    /\ temp[Target[u]] # None
    /\ Goes(u, "rename", "ready")
    /\ final' = [final EXCEPT ![Target[u]] = temp[Target[u]]]
    /\ UNCHANGED <<temp, content, entries, file, flushed, known, broken, deleting, reading>>

\* Mutation: a failing rename is not reported.
RenameUnreported(u) ==
    /\ temp[Target[u]] # None
    /\ Goes(u, "rename", "ready")
    /\ final' = [final EXCEPT ![Target[u]] = temp[Target[u]]]
    /\ temp' = [temp EXCEPT ![Target[u]] = None]
    /\ UNCHANGED <<content, entries, file, flushed, known, broken, deleting, reading>>

\* unresolved_<name> becomes <name>; without it, or when the disk refuses, the
\* upload fails although its entry is stored.
Rename(u) ==
    /\ LET n == Target[u] IN
       \/ /\ temp[n] # None
          /\ Goes(u, "rename", "ready")
          /\ final' = [final EXCEPT ![n] = temp[n]]
          /\ temp' = [temp EXCEPT ![n] = None]
       \/ /\ temp[n] = None \/ "disk" \in Faults
          /\ Goes(u, "rename", "cleanup")
          /\ UNCHANGED <<temp, final>>
    /\ UNCHANGED <<content, entries, file, flushed, known, broken, deleting, reading>>

\* Mutation: the temporary file stays.
CleanupForgotten(u) ==
    /\ Goes(u, "cleanup", "failed")
    /\ UNCHANGED <<disk, entries, file, flushed, known, broken, deleting, reading>>

\* 'error' rejects the request; the temporary file of that name is unlinked, and
\* nobody hears of an unlink that fails.
Cleanup(u) ==
    /\ \/ /\ Goes(u, "cleanup", "failed")
          /\ temp' = [temp EXCEPT ![Target[u]] = None]
       \/ /\ "disk" \in Faults
          /\ Goes(u, "cleanup", "littered")
          /\ UNCHANGED temp
    /\ UNCHANGED <<final, content, entries, file, flushed, known, broken, deleting, reading>>

\* 'ready': the response is the last entry of that name, if there is one and it
\* can be read, unless the stream's error has answered before.
Respond(u) ==
    /\ \/ Rows(Target[u]) # {} /\ u \notin broken /\ Goes(u, "ready", "ok")
       \/ /\ Rows(Target[u]) = {} \/ u \in broken \/ "store" \in Faults
          /\ Goes(u, "ready", "failed")
    /\ UNCHANGED <<disk, entries, file, flushed, known, broken, deleting, reading>>

-----------------------------------------------------------------------------
(* deleteFile: the client names an entry by its uuid.                      *)

Steps(d, from, ok, to) ==
    /\ deleting[d] = from
    /\ deleting' = [deleting EXCEPT ![d] = IF ok THEN to ELSE "failed"]

\* A call of it fails.
DeleteFails(d, from, fault) ==
    /\ fault \in Faults
    /\ Steps(d, from, FALSE, "ok")
    /\ UNCHANGED <<disk, entries, uploads, reading>>

DeleteFind(d) ==
    /\ Admitted
    /\ \/ /\ Steps(d, "idle", Rows(Target[d]) # {}, "exists")
          /\ UNCHANGED <<disk, entries, uploads, reading>>
       \/ DeleteFails(d, "idle", "store")

DeleteExists(d) ==
    /\ Steps(d, "exists", final[Target[d]] # None, "unlink")
    /\ UNCHANGED <<disk, entries, uploads, reading>>

DeleteUnlink(d) ==
    \/ /\ Steps(d, "unlink", final[Target[d]] # None, "destroy")
       /\ final' = [final EXCEPT ![Target[d]] = None]
       /\ UNCHANGED <<temp, content, entries, uploads, reading>>
    \/ DeleteFails(d, "unlink", "disk")

\* Mutation: the file is gone, the request succeeds and the entry stays.
DeleteEntryKept(d) ==
    /\ Steps(d, "destroy", TRUE, "ok")
    /\ UNCHANGED <<disk, entries, uploads, reading>>

\* destroyEntry({filename}): every entry of that name.  When it is refused the
\* file is gone already.
DeleteEntry(d) ==
    \/ /\ Steps(d, "destroy", TRUE, "ok")
       /\ entries' = [w \in DOMAIN entries \ Rows(Target[d]) |-> entries[w]]
       /\ UNCHANGED <<disk, uploads, reading>>
    \/ DeleteFails(d, "destroy", "store")

-----------------------------------------------------------------------------
(* getFile                                                                 *)

Reads(g, from, ok, to, fault) ==
    /\ reading[g] = from
    /\ \/ reading' = [reading EXCEPT ![g] = IF ok THEN to ELSE "failed"]
       \/ fault \in Faults /\ reading' = [reading EXCEPT ![g] = "failed"]
    /\ UNCHANGED <<disk, entries, uploads, deleting>>

\* verify() turns a name into the uuid of its last entry; get() looks the entry
\* up, checks the file and opens it.
GetLookup(g) == Admitted /\ Reads(g, "idle", Rows(Target[g]) # {}, "find", "store")
GetFind(g) == Reads(g, "find", Rows(Target[g]) # {}, "exists", "store")
GetExists(g) == Reads(g, "exists", final[Target[g]] # None, "open", "disk")
GetOpen(g) == Reads(g, "open", final[Target[g]] # None, "ok", "disk")

-----------------------------------------------------------------------------
ServeUpload(u) ==
    \/ FlushChunk(u) \/ EndOfData(u) \/ FindEntry(u) \/ UpdateEntry(u) \/ CreateEntry(u)
    \/ FileExists(u) \/ UnlinkOld(u) \/ Rename(u) \/ Cleanup(u) \/ Respond(u)

Serve ==
    \/ \E u \in Upload : ServeUpload(u)
    \/ \E d \in Delete : DeleteExists(d) \/ DeleteUnlink(d) \/ DeleteEntry(d)
    \/ \E g \in Get : GetFind(g) \/ GetExists(g) \/ GetOpen(g)

Next ==
    \/ Serve
    \/ \E u \in Upload : Put(u) \/ OpenFails(u) \/ StreamFails(u) \/ Abort(u)
    \/ \E d \in Delete : DeleteFind(d)
    \/ \E g \in Get : GetLookup(g)

Spec == Init /\ [][Next]_vars

\* Database and file system calls return; clients that do not abort send all
\* their data.
FairSpec == Spec /\ WF_vars(Serve)

-----------------------------------------------------------------------------
(* Properties                                                              *)

UploadState == {"idle", "streaming", "aborted", "find", "create", "update", "exists",
                "unlink", "rename", "ready", "cleanup", "ok", "failed", "littered"}

\* Type correctness of the disk, the collection and the requests.
TypeOK ==
    /\ temp \in [Name -> Upload \cup {None}]
    /\ final \in [Name -> Upload \cup {None}]
    /\ content \in [Upload -> [1 .. Chunks -> Upload \cup {None}]]
    /\ DOMAIN entries \subseteq Upload
    /\ \A w \in DOMAIN entries : entries[w] \in Entry
    /\ upload \in [Upload -> UploadState]
    /\ file \in [Upload -> Upload \cup {None}]
    /\ flushed \in [Upload -> 0 .. Chunks]
    /\ known \in [Upload -> Upload \cup {None}]
    /\ broken \subseteq Upload
    /\ deleting \in [Delete -> {"idle", "exists", "unlink", "destroy", "ok", "failed"}]
    /\ reading \in [Get -> {"idle", "find", "exists", "open", "ok", "failed"}]

\* The data of upload u, complete and unmixed.
DataOf(u) == [i \in 1 .. Chunks |-> u]

\* Collection and disk agree about a name: its entry has its file, and the file is
\* what the entry's hashes were computed from.
EntryMatchesFile(n) ==
    \A w \in Rows(n) : final[n] # None /\ content[final[n]] = DataOf(entries[w].hash)

\* A file that is replaced keeps its uuid.
KeepsUuid ==
    \A n \in Name : \A w \in Rows(n) : \A v \in Rows(n)' : entries'[v].uuid = entries[w].uuid

\* When nothing is under way, a temporary file that is still there is that of an
\* upload whose client went away, whose stream failed before the end of its data
\* or whose own clean-up failed: overlapping uploads of its name that end, well or
\* badly, leave none.
NoTempFileLeft ==
    Quiet => \A n \in Name :
        temp[n] # None => /\ Target[temp[n]] = n
                          /\ upload[temp[n]] \in {"aborted", "littered"}

\* The temporary and the final name never refer to the same file, so that no
\* later upload truncates a file that is being served.
NamesAreDistinct == \A n, m \in Name : temp[n] # None => temp[n] # final[m]

\* Every upload whose client stays is answered.
UploadsAnswered ==
    \A u \in Upload : upload[u] = "streaming" ~> upload[u] \in Over \ {"idle"}

=============================================================================
