------------------------- MODULE FileServiceProofs -------------------------
(***************************************************************************)
(* Proofs about the file service, for every set of names and requests and  *)
(* any number of them in flight, whatever calls fail: a file that is being *)
(* served is never the temporary file of an upload, and a temporary file   *)
(* that stays behind is accounted for; and as long as requests come one    *)
(* after the other, the collection and the disk agree about every name     *)
(* that no failure has torn.                                               *)
(***************************************************************************)
EXTENDS ObservedFiles, FiniteSetTheorems, TLAPS

-----------------------------------------------------------------------------
(* Type correctness                                                        *)

\* An upload's steps change one stage each.
LEMMA GoesType ==
    ASSUME TypeOK, NEW u \in Upload, NEW from, NEW to \in UploadState, Goes(u, from, to)
    PROVE  upload' \in [Upload -> UploadState]
BY DEF TypeOK, Goes

\* An upload that updates an entry has found one: TypeOK alone is not inductive,
\* since the entry gets the uuid that was found.
KnownInv == \A u \in Upload : upload[u] = "update" => known[u] \in Upload

\* Every step keeps the disk, the collection and the requests well-formed.
THEOREM TypeCorrect == Spec => []TypeOK
<1>1. Init => TypeOK /\ KnownInv
  BY FileAssumption DEF Init, TypeOK, KnownInv, UploadState
<1>2. TypeOK /\ KnownInv /\ [Next]_vars => TypeOK'
  <2> SUFFICES ASSUME TypeOK, KnownInv, [Next]_vars PROVE TypeOK'
    OBVIOUS
  <2>1. ASSUME NEW u \in Upload, Put(u) PROVE TypeOK'
    <3> DEFINE n == Target[u]
               f == IF temp[n] = None THEN u ELSE temp[n]
    <3>1. n \in Name /\ f \in Upload
      BY FileAssumption DEF TypeOK
    <3>2. /\ file' = [file EXCEPT ![u] = f]
          /\ temp' = [temp EXCEPT ![n] = f]
          /\ content' = [content EXCEPT ![f] = [i \in 1 .. Chunks |-> None]]
          /\ UNCHANGED <<final, entries, flushed, known, broken, deleting, reading>>
          /\ Goes(u, "idle", "streaming")
      BY <2>1 DEF Put
    <3> HIDE DEF n, f
    <3>3. upload' \in [Upload -> UploadState]
      BY <3>2, GoesType DEF UploadState
    <3> QED
      BY <3>1, <3>2, <3>3 DEF TypeOK
  <2>2. ASSUME NEW u \in Upload, FlushChunk(u) PROVE TypeOK'
    <3>1. flushed[u] \in 0 .. Chunks /\ flushed[u] < Chunks /\ Chunks \in Nat
      BY <2>2, FileAssumption DEF TypeOK, FlushChunk, Streaming
    <3>2. flushed[u] + 1 \in 0 .. Chunks
      BY <3>1
    <3>3. flushed' \in [Upload -> 0 .. Chunks]
      BY <2>2, <3>2 DEF FlushChunk, TypeOK
    <3>4. content' \in [Upload -> [1 .. Chunks -> Upload \cup {None}]]
      BY <2>2 DEF FlushChunk, TypeOK
    <3> QED
      BY <2>2, <3>3, <3>4 DEF FlushChunk, TypeOK
  <2>3. ASSUME NEW u \in Upload, Abort(u) \/ EndOfData(u) PROVE TypeOK'
    BY <2>3, GoesType DEF Abort, EndOfData, TypeOK, UploadState, disk
  <2>12. ASSUME NEW u \in Upload, OpenFails(u) \/ StreamFails(u) PROVE TypeOK'
    BY <2>12 DEF OpenFails, StreamFails, Goes, TypeOK, UploadState, disk
  <2>13. ASSUME NEW u \in Upload, NEW from, NEW fault, Fails(u, from, fault) PROVE TypeOK'
    BY <2>13 DEF Fails, Goes, TypeOK, UploadState, disk
  <2>4. ASSUME NEW u \in Upload, FindEntry(u) PROVE TypeOK'
    BY <2>4, <2>13 DEF FindEntry, Goes, TypeOK, UploadState, disk, Rows, Entry
  <2>5. ASSUME NEW u \in Upload, UpdateEntry(u) PROVE TypeOK'
    <3> SUFFICES ASSUME ~Fails(u, "update", "store") PROVE TypeOK'
      BY <2>13
    <3>1. EntryOf(u, known[u]) \in Entry
      BY <2>5, FileAssumption DEF UpdateEntry, Goes, KnownInv, EntryOf, Entry
    <3>2. DOMAIN entries' \subseteq Upload /\ \A w \in DOMAIN entries' : entries'[w] \in Entry
      BY <2>5, <3>1 DEF UpdateEntry, TypeOK
    <3>3. upload' \in [Upload -> UploadState]
      BY <2>5, GoesType DEF UpdateEntry, UploadState
    <3> QED
      BY <2>5, <3>2, <3>3 DEF UpdateEntry, TypeOK, disk
  <2>11. ASSUME NEW u \in Upload, CreateEntry(u) PROVE TypeOK'
    <3> SUFFICES ASSUME ~Fails(u, "create", "store") PROVE TypeOK'
      BY <2>13
    <3>1. EntryOf(u, u) \in Entry
      BY FileAssumption DEF EntryOf, Entry
    <3>2. DOMAIN entries' \subseteq Upload /\ \A w \in DOMAIN entries' : entries'[w] \in Entry
      BY <2>11, <3>1 DEF CreateEntry, TypeOK
    <3>3. upload' \in [Upload -> UploadState]
      BY <2>11, GoesType DEF CreateEntry, UploadState
    <3> QED
      BY <2>11, <3>2, <3>3 DEF CreateEntry, TypeOK, disk
  <2>6. ASSUME NEW u \in Upload, FileExists(u) \/ UnlinkOld(u) PROVE TypeOK'
    <3>1. upload' \in [Upload -> UploadState]
      BY <2>6 DEF FileExists, UnlinkOld, TypeOK, UploadState, Goes
    <3>2. final' \in [Name -> Upload \cup {None}]
      BY <2>6, FileAssumption DEF FileExists, UnlinkOld, TypeOK, disk
    <3> QED
      BY <2>6, <3>1, <3>2 DEF FileExists, UnlinkOld, TypeOK, disk
  <2>7. ASSUME NEW u \in Upload, Rename(u) \/ Cleanup(u) \/ Respond(u) PROVE TypeOK'
    <3>1. upload' \in [Upload -> UploadState]
      BY <2>7, GoesType DEF Rename, Cleanup, Respond, UploadState
    <3>2. /\ temp' \in [Name -> Upload \cup {None}]
          /\ final' \in [Name -> Upload \cup {None}]
      BY <2>7, FileAssumption DEF Rename, Cleanup, Respond, TypeOK, disk
    <3> QED
      BY <2>7, <3>1, <3>2 DEF Rename, Cleanup, Respond, TypeOK, disk
  <2>8. ASSUME NEW d \in Delete,
               DeleteFind(d) \/ DeleteExists(d) \/ DeleteUnlink(d) \/ DeleteEntry(d)
        PROVE  TypeOK'
    BY <2>8, FileAssumption DEF DeleteFind, DeleteExists, DeleteUnlink, DeleteEntry, DeleteFails,
                Steps, TypeOK, disk, uploads
  <2>9. ASSUME NEW g \in Get, GetLookup(g) \/ GetFind(g) \/ GetExists(g) \/ GetOpen(g)
        PROVE  TypeOK'
    BY <2>9 DEF GetLookup, GetFind, GetExists, GetOpen, Reads, TypeOK, disk, uploads
  <2>10. CASE UNCHANGED vars
    BY <2>10 DEF vars, TypeOK
  <2> QED
    BY <2>1, <2>2, <2>3, <2>4, <2>5, <2>6, <2>7, <2>8, <2>9, <2>10, <2>11, <2>12
       DEF Next, Serve, ServeUpload
<1>3. TypeOK /\ KnownInv /\ [Next]_vars => KnownInv'
  <2> SUFFICES ASSUME TypeOK, KnownInv, [Next]_vars PROVE KnownInv'
    OBVIOUS
  <2>1. ASSUME NEW u \in Upload, FindEntry(u) PROVE KnownInv'
    BY <2>1 DEF FindEntry, Fails, Goes, TypeOK, KnownInv, Rows, Entry
  <2>2. ASSUME UNCHANGED known,
               \A u \in Upload : upload'[u] = "update" => upload[u] = "update"
        PROVE  KnownInv'
    BY <2>2 DEF KnownInv
  <2>3. ASSUME NEW u \in Upload, ~FindEntry(u),
               ServeUpload(u) \/ Put(u) \/ Abort(u) \/ OpenFails(u) \/ StreamFails(u)
        PROVE  KnownInv'
    BY <2>2, <2>3 DEF ServeUpload, Put, Abort, OpenFails, StreamFails, FlushChunk, EndOfData,
                      UpdateEntry, CreateEntry, FileExists, UnlinkOld, Rename, Cleanup, Respond,
                      Fails, Goes, TypeOK
  <2>4. ASSUME NEW d \in Delete,
               DeleteFind(d) \/ DeleteExists(d) \/ DeleteUnlink(d) \/ DeleteEntry(d)
        PROVE  KnownInv'
    BY <2>2, <2>4 DEF DeleteFind, DeleteExists, DeleteUnlink, DeleteEntry, DeleteFails, uploads
  <2>5. ASSUME NEW g \in Get, GetLookup(g) \/ GetFind(g) \/ GetExists(g) \/ GetOpen(g)
        PROVE  KnownInv'
    BY <2>2, <2>5 DEF GetLookup, GetFind, GetExists, GetOpen, Reads, uploads
  <2>6. CASE UNCHANGED vars
    BY <2>2, <2>6 DEF vars
  <2> QED
    BY <2>1, <2>3, <2>4, <2>5, <2>6 DEF Next, Serve
<1> QED
  BY <1>1, <1>2, <1>3, PTL DEF Spec

-----------------------------------------------------------------------------
(* Files and their names                                                   *)

\* A file has one temporary name at most, no final name at the same time, and
\* none at all before its upload begins.
NamesInv ==
    /\ NamesAreDistinct
    /\ \A n, m \in Name : temp[n] # None /\ temp[n] = temp[m] => n = m
    /\ \A n \in Name, u \in Upload : temp[n] = u \/ final[n] = u => upload[u] # "idle"

\* The steps that leave both names alone.
LEMMA NamesFrame ==
    ASSUME NamesInv, UNCHANGED <<temp, final>>,
           \A u \in Upload : upload[u] # "idle" => upload'[u] # "idle"
    PROVE  NamesInv'
BY DEF NamesInv, NamesAreDistinct

\* A name that is given up disturbs nothing.
LEMMA NamesFreed ==
    ASSUME NamesInv,
           \A n \in Name : temp'[n] \in {temp[n], None} /\ final'[n] \in {final[n], None},
           \A u \in Upload : upload[u] # "idle" => upload'[u] # "idle",
           None \notin Upload
    PROVE  NamesInv'
BY DEF NamesInv, NamesAreDistinct

\* NamesInv is kept by every step.
LEMMA NamesAlways == Spec => []NamesInv
<1>1. Init => NamesInv
  BY FileAssumption DEF Init, NamesInv, NamesAreDistinct
<1>2. TypeOK /\ NamesInv /\ [Next]_vars => NamesInv'
  <2> SUFFICES ASSUME TypeOK, NamesInv, [Next]_vars PROVE NamesInv'
    OBVIOUS
  <2>0. None \notin Upload
    BY FileAssumption
  <2>1. ASSUME NEW u \in Upload, Put(u) PROVE NamesInv'
    <3> DEFINE n == Target[u]
    <3>1. n \in Name /\ upload[u] = "idle"
      BY <2>1, FileAssumption DEF Put, Goes
    <3>2. /\ temp' = [temp EXCEPT ![n] = IF temp[n] = None THEN u ELSE temp[n]]
          /\ upload' = [upload EXCEPT ![u] = "streaming"]
          /\ UNCHANGED final
      BY <2>1 DEF Put, Goes
    <3> HIDE DEF n
    <3>3. \A m \in Name : temp[m] # u /\ final[m] # u
      BY <3>1 DEF NamesInv
    <3>4. /\ \A m \in Name : m # n => temp'[m] = temp[m]
          /\ temp'[n] = IF temp[n] = None THEN u ELSE temp[n]
      BY <3>1, <3>2 DEF TypeOK
    <3>5. NamesAreDistinct'
      BY <3>2, <3>3, <3>4 DEF NamesInv, NamesAreDistinct
    <3>6. \A m, k \in Name : temp'[m] # None /\ temp'[m] = temp'[k] => m = k
      BY <3>3, <3>4 DEF NamesInv
    <3>7. \A m \in Name, v \in Upload : temp'[m] = v \/ final'[m] = v => upload'[v] # "idle"
      BY <3>2, <3>4 DEF NamesInv, TypeOK
    <3> QED
      BY <3>5, <3>6, <3>7 DEF NamesInv
  <2>2. ASSUME NEW u \in Upload, FlushChunk(u) PROVE NamesInv'
    BY <2>2, NamesFrame DEF FlushChunk
  <2>3. ASSUME NEW u \in Upload,
               Abort(u) \/ EndOfData(u) \/ UpdateEntry(u) \/ CreateEntry(u)
        PROVE  NamesInv'
    BY <2>3, NamesFrame DEF Abort, EndOfData, UpdateEntry, CreateEntry, Fails, Goes, TypeOK, disk
  <2>11. ASSUME NEW u \in Upload, OpenFails(u) \/ StreamFails(u) PROVE NamesInv'
    BY <2>11, NamesFrame DEF OpenFails, StreamFails, Goes, TypeOK, disk
  <2>4. ASSUME NEW u \in Upload, FindEntry(u) \/ FileExists(u) \/ Respond(u) PROVE NamesInv'
    BY <2>4, NamesFrame DEF FindEntry, FileExists, Respond, Fails, Goes, TypeOK, disk
  <2>5. ASSUME NEW u \in Upload, UnlinkOld(u) \/ Cleanup(u) PROVE NamesInv'
    BY <2>0, <2>5, NamesFreed DEF UnlinkOld, Cleanup, Goes, TypeOK
  <2>6. ASSUME NEW u \in Upload, Rename(u) PROVE NamesInv'
    <3> DEFINE n == Target[u]
    <3>1. n \in Name
      BY FileAssumption
    <3>2. \A v \in Upload : upload[v] # "idle" => upload'[v] # "idle"
      BY <2>6 DEF Rename, Goes, TypeOK
    <3>3. CASE UNCHANGED <<temp, final>>
      BY <3>2, <3>3, NamesFrame
    <3>4. CASE temp[n] # None /\ ~UNCHANGED <<temp, final>>
      <4>1. final' = [final EXCEPT ![n] = temp[n]] /\ temp' = [temp EXCEPT ![n] = None]
        BY <2>6, <3>4 DEF Rename
      <4> HIDE DEF n
      <4>2. /\ \A m \in Name : m # n => temp'[m] = temp[m] /\ final'[m] = final[m]
            /\ temp'[n] = None /\ final'[n] = temp[n]
        BY <3>1, <4>1 DEF TypeOK
      <4>3. NamesAreDistinct'
        BY <3>1, <4>2 DEF NamesInv, NamesAreDistinct
      <4>4. \A m, k \in Name : temp'[m] # None /\ temp'[m] = temp'[k] => m = k
        BY <4>2 DEF NamesInv
      <4>5. \A m \in Name, v \in Upload : temp'[m] = v \/ final'[m] = v => upload'[v] # "idle"
        BY <2>0, <3>1, <3>2, <4>2 DEF NamesInv
      <4> QED
        BY <4>3, <4>4, <4>5 DEF NamesInv
    <3> QED
      BY <2>6, <3>3, <3>4 DEF Rename
  <2>7. ASSUME NEW d \in Delete, DeleteFind(d) \/ DeleteExists(d) \/ DeleteEntry(d)
        PROVE  NamesInv'
    BY <2>7, NamesFrame DEF DeleteFind, DeleteExists, DeleteEntry, DeleteFails, disk, uploads
  <2>8. ASSUME NEW d \in Delete, DeleteUnlink(d) PROVE NamesInv'
    BY <2>0, <2>8, NamesFreed DEF DeleteUnlink, DeleteFails, TypeOK, disk, uploads
  <2>9. ASSUME NEW g \in Get, GetLookup(g) \/ GetFind(g) \/ GetExists(g) \/ GetOpen(g)
        PROVE  NamesInv'
    BY <2>9, NamesFrame DEF GetLookup, GetFind, GetExists, GetOpen, Reads, disk, uploads
  <2>10. CASE UNCHANGED vars
    BY <2>10, NamesFrame DEF vars
  <2> QED
    BY <2>1, <2>2, <2>3, <2>4, <2>5, <2>6, <2>7, <2>8, <2>9, <2>10, <2>11
       DEF Next, Serve, ServeUpload
<1> QED
  BY <1>1, <1>2, TypeCorrect, PTL DEF Spec

\* A file that is served under its final name is not the file of an upload in
\* progress, whatever uploads of whatever names overlap (put, _onMetadata).
THEOREM NamesAreDistinctAlways == Spec => []NamesAreDistinct
<1>1. NamesInv => NamesAreDistinct
  BY DEF NamesInv
<1> QED
  BY <1>1, NamesAlways, PTL

-----------------------------------------------------------------------------
(* Temporary files                                                         *)

\* The stages of an upload between the first byte and the end of its temporary
\* file.
Unresolved == {"streaming", "aborted", "find", "create", "update", "exists", "unlink",
               "rename", "cleanup", "littered"}

\* The upload that made a temporary file has not got rid of it yet: the first of
\* the uploads of a name to end renames or unlinks it, whichever made it.
TempInv ==
    \A n \in Name : temp[n] # None => Target[temp[n]] = n /\ upload[temp[n]] \in Unresolved

\* However many uploads of one name overlap and whatever calls fail, a temporary
\* file that stays is that of an upload whose client went away, whose stream failed
\* before the end of its data or whose own clean-up failed (_onMetadata: rename, and
\* unlink on errors).
THEOREM NoTempFileLeftAlways == Spec => []NoTempFileLeft
<1>1. Init => TempInv
  BY DEF Init, TempInv
<1>2. TypeOK /\ TempInv /\ [Next]_vars => TempInv'
  <2> SUFFICES ASSUME TypeOK, TempInv, [Next]_vars PROVE TempInv'
    OBVIOUS
  <2>0. \A n \in Name : temp[n] # None => temp[n] \in Upload
    BY DEF TypeOK
  <2>1. ASSUME UNCHANGED temp,
               \A u \in Upload : upload[u] \in Unresolved => upload'[u] \in Unresolved
        PROVE  TempInv'
    BY <2>0, <2>1 DEF TempInv
  <2>3. ASSUME NEW u \in Upload, Put(u) PROVE TempInv'
    <3> DEFINE m == Target[u]
    <3>1. /\ upload[u] = "idle" /\ upload' = [upload EXCEPT ![u] = "streaming"]
          /\ temp' = [temp EXCEPT ![m] = IF temp[m] = None THEN u ELSE temp[m]]
      BY <2>3 DEF Put, Goes
    <3>2. m \in Name /\ upload'[u] = "streaming" /\ None \notin Upload
      BY <3>1, FileAssumption DEF TypeOK
    <3> HIDE DEF m
    <3>3. \A v \in Upload : upload[v] \in Unresolved => upload'[v] \in Unresolved
      BY <3>1 DEF TypeOK, Unresolved
    <3>4. temp[m] = None => temp'[m] = u
      BY <3>1, <3>2 DEF TypeOK
    <3>5. \A n \in Name : temp'[n] = temp[n] \/ (n = m /\ temp'[n] = u)
      BY <3>1, <3>2 DEF TypeOK
    <3> QED
      BY <2>0, <3>2, <3>3, <3>5 DEF TempInv, Unresolved, m
  <2>4. ASSUME NEW u \in Upload, FlushChunk(u) PROVE TempInv'
    BY <2>1, <2>4 DEF FlushChunk
  <2>5. ASSUME NEW u \in Upload,
               \/ Abort(u) \/ OpenFails(u) \/ StreamFails(u) \/ EndOfData(u) \/ FindEntry(u)
               \/ UpdateEntry(u) \/ CreateEntry(u) \/ FileExists(u) \/ UnlinkOld(u)
        PROVE  TempInv'
    BY <2>1, <2>5 DEF Abort, OpenFails, StreamFails, EndOfData, FindEntry, UpdateEntry, CreateEntry,
                      FileExists, UnlinkOld, Fails, Goes, TypeOK, Unresolved, disk
  <2>6. ASSUME NEW u \in Upload, Rename(u) \/ Cleanup(u) PROVE TempInv'
    <3>1. \A v \in Upload : v # u => upload'[v] = upload[v]
      BY <2>6 DEF Rename, Cleanup, Goes, TypeOK
    <3>2. CASE temp' = temp /\ upload'[u] \in Unresolved
      BY <2>1, <3>1, <3>2
    <3>3. CASE temp' = [temp EXCEPT ![Target[u]] = None]
      <4>1. \A n \in Name : temp'[n] # None => n # Target[u] /\ temp'[n] = temp[n]
        BY <3>3, FileAssumption DEF TypeOK
      <4>2. \A n \in Name : temp'[n] # None => temp'[n] # u
        BY <2>0, <4>1 DEF TempInv
      <4> QED
        BY <2>0, <3>1, <4>1, <4>2 DEF TempInv
    <3> QED
      BY <2>6, <3>2, <3>3 DEF Rename, Cleanup, Goes, TypeOK, Unresolved
  <2>7. ASSUME NEW u \in Upload, Respond(u) PROVE TempInv'
    BY <2>1, <2>7 DEF Respond, Goes, TypeOK, Unresolved, disk
  <2>8. ASSUME NEW d \in Delete,
               DeleteFind(d) \/ DeleteExists(d) \/ DeleteUnlink(d) \/ DeleteEntry(d)
        PROVE  TempInv'
    BY <2>1, <2>8 DEF DeleteFind, DeleteExists, DeleteUnlink, DeleteEntry, DeleteFails, disk, uploads
  <2>9. ASSUME NEW g \in Get, GetLookup(g) \/ GetFind(g) \/ GetExists(g) \/ GetOpen(g)
        PROVE  TempInv'
    BY <2>1, <2>9 DEF GetLookup, GetFind, GetExists, GetOpen, Reads, disk, uploads
  <2>10. CASE UNCHANGED vars
    BY <2>1, <2>10 DEF vars
  <2> QED
    BY <2>3, <2>4, <2>5, <2>6, <2>7, <2>8, <2>9, <2>10 DEF Next, Serve, ServeUpload
<1>3. TypeOK /\ TempInv => NoTempFileLeft
  <2> SUFFICES ASSUME TypeOK, TempInv, Quiet, NEW n \in Name, temp[n] # None
               PROVE  Target[temp[n]] = n /\ upload[temp[n]] \in {"aborted", "littered"}
    BY DEF NoTempFileLeft
  <2>1. Target[temp[n]] = n /\ upload[temp[n]] \in Unresolved /\ temp[n] \in Upload
    BY DEF TempInv, TypeOK
  <2>2. upload[temp[n]] \in Over
    BY <2>1 DEF Quiet, InFlight
  <2> QED
    BY <2>1, <2>2 DEF Unresolved, Over
<1> QED
  BY <1>1, <1>2, <1>3, TypeCorrect, PTL DEF Spec

-----------------------------------------------------------------------------
(* Requests that come one after the other                                  *)

ServingUpload(u) == upload[u] \notin Over \/ Streaming(u)

\* No two names are of one file, and a row is named as its upload.
FilesInv ==
    /\ \A n, m \in Name : final[n] # None /\ final[n] = final[m] => n = m
    /\ \A w \in DOMAIN entries : entries[w].name = Target[w]
    /\ \A u \in Upload : upload[u] = "idle" => flushed[u] = 0

OneRow(n) == \A v, w \in Rows(n) : v = w

\* A file has an entry; the entry matches it.
HasRow(n) == final[n] # None => Rows(n) # {}
Settled(n) == EntryMatchesFile(n)

\* The requests that are between the collection and the disk.
Storing(u) ==
    \/ upload[u] \in {"exists", "rename", "ready"}
    \/ upload[u] \in {"ok", "failed"} /\ Streaming(u) /\ final[Target[u]] = file[u]
Between(n) ==
    \/ \E u \in Upload : Target[u] = n /\ Storing(u)
    \/ \E d \in Delete : Target[d] = n /\ deleting[d] = "destroy"

\* What the only request under way has done so far.
UploadInv(u) ==
    LET n == Target[u] IN
    /\ upload[u] # "unlink" /\ file[u] \in Upload
    /\ \A i \in 1 .. Chunks : i <= flushed[u] => content[file[u]][i] = u
    /\ upload[u] \in Unresolved => temp[n] = file[u]
    /\ upload[u] = "create" => Rows(n) = {}
    /\ upload[u] = "update" => Rows(n) # {} /\ \A w \in Rows(n) : entries[w].uuid = known[u]
    /\ upload[u] = "exists" => final[n] = None
    /\ Storing(u) => Rows(n) # {} /\ \A w \in Rows(n) : entries[w].hash = u
    /\ upload[u] \in {"ready", "ok"} => final[n] = file[u]
    /\ upload[u] = "failed" => final[n] = file[u] \/ \A m \in Name : final[m] # file[u]
    /\ upload[u] = "ready" /\ u \in broken => n \in torn

SerialInv ==
    /\ Alone
    /\ \A u \in Upload : ServingUpload(u) => UploadInv(u)
    /\ \A d \in Delete : deleting[d] = "destroy" => final[Target[d]] = None
    /\ \A n \in Name : OneRow(n) /\ HasRow(n) /\ (Settled(n) \/ n \in torn \/ Between(n))

SInv ==
    /\ FilesInv
    /\ ~overlapped => SerialInv

\* The other requests have nothing under way.
Rests(u) ==
    /\ \A v \in Upload : v # u => ~ServingUpload(v)
    /\ \A d \in Delete : deleting[d] # "destroy"

LEMMA OnlyOne ==
    ASSUME SerialInv, NEW u \in Upload, ServingUpload(u)
    PROVE  Rests(u)
  <1>1. u \in InFlight /\ \A v \in Upload : ServingUpload(v) => v \in InFlight
    BY DEF InFlight, ServingUpload
  <1>2. \A d \in Delete : deleting[d] = "destroy" => d \in InFlight
    BY DEF InFlight
  <1> QED BY <1>1, <1>2, FileAssumption DEF Rests, SerialInv, Alone

\* A name that nobody changes stays settled.
Untouched(n) ==
    /\ Rows(n)' = Rows(n) /\ final'[n] = final[n]
    /\ \A w \in Rows(n) : entries'[w].hash = entries[w].hash
    /\ final[n] # None => content'[final[n]] = content[final[n]]

LEMMA SettledKept ==
    ASSUME NEW n \in Name, OneRow(n), HasRow(n), Untouched(n)
    PROVE  OneRow(n)' /\ HasRow(n)' /\ (Settled(n) => Settled(n)')
BY DEF OneRow, HasRow, Settled, EntryMatchesFile, DataOf, Untouched

\* A torn name stays torn until a request of that name mends it.
LEMMA StillTorn ==
    ASSUME Observe, NEW n \in Name, n \in torn, ~Heals(n)
    PROVE  n \in torn'
BY DEF Observe

\* An upload mends its own name only, by its rename.
LEMMA UploadHeals ==
    ASSUME Observe, NEW u \in Upload, deleting' = deleting,
           \A v \in Upload : v # u => upload'[v] = upload[v],
           NEW n \in Name, n \in torn, n # Target[u] \/ upload'[u] # "ready" \/ upload[u] # "rename"
    PROVE  n \in torn'
  <1>1. ~Heals(n)
    BY DEF Heals
  <1> QED BY <1>1, StillTorn

\* What remains to be shown of a step of an upload.
LEMMA UploadStep ==
    ASSUME TypeOK, SerialInv, Observe, NEW u \in Upload, Rests(u), Alone',
           deleting' = deleting,
           \A v \in Upload : v # u => upload'[v] = upload[v] /\ flushed'[v] = flushed[v],
           broken' \ {u} = broken \ {u},
           ServingUpload(u)' => UploadInv(u)',
           OneRow(Target[u])' /\ HasRow(Target[u])',
           Settled(Target[u])' \/ Target[u] \in torn' \/ Storing(u)',
           \A n \in Name : n # Target[u] => Untouched(n)
    PROVE  SerialInv'
  <1>1. \A v \in Upload : v # u => ~ServingUpload(v)'
    BY DEF Rests, ServingUpload, Streaming
  <1>2. \A d \in Delete : deleting'[d] # "destroy"
    BY DEF Rests
  <1>3. ASSUME NEW n \in Name, n # Target[u]
        PROVE  OneRow(n)' /\ HasRow(n)' /\ (Settled(n)' \/ n \in torn')
    <2>1. ~Between(n)
      BY <1>3 DEF Between, Storing, Rests, ServingUpload, Over
    <2>2. OneRow(n) /\ HasRow(n) /\ (Settled(n) \/ n \in torn)
      BY <2>1 DEF SerialInv
    <2>3. n \in torn => n \in torn'
      BY <1>3, UploadHeals
    <2> QED BY <1>3, <2>2, <2>3, SettledKept
  <1>4. \A n \in Name : OneRow(n)' /\ HasRow(n)' /\ (Settled(n)' \/ n \in torn' \/ Between(n)')
    BY <1>3 DEF Between
  <1> QED BY <1>1, <1>2, <1>4 DEF SerialInv

Context == TypeOK /\ NamesInv /\ FilesInv /\ SerialInv /\ Alone' /\ Observe

\* What the file of an upload under way has to do with the names.
LEMMA FileOf ==
    ASSUME Context, NEW u \in Upload, ServingUpload(u)
    PROVE  /\ Target[u] \in Name /\ Rests(u) /\ UploadInv(u)
           /\ OneRow(Target[u]) /\ HasRow(Target[u])
           /\ file[u] \in Upload /\ upload[u] # "idle"
           /\ \A n \in Name : final[n] = file[u] =>
                 n = Target[u] /\ upload[u] \in {"ready", "ok", "failed"}
           /\ ~Storing(u) => Settled(Target[u]) \/ Target[u] \in torn
  <1>1. Rests(u) /\ UploadInv(u) /\ Target[u] \in Name /\ upload[u] # "idle" /\ file[u] \in Upload
    BY OnlyOne, FileAssumption DEF Context, SerialInv, ServingUpload, Streaming, UploadInv, Over
  <1>2. ASSUME NEW n \in Name, final[n] = file[u]
        PROVE  n = Target[u] /\ upload[u] \in {"ready", "ok", "failed"}
    <2>1. temp[Target[u]] # file[u]
      BY <1>1, <1>2, FileAssumption DEF Context, NamesInv, NamesAreDistinct
    <2>2. upload[u] \notin Unresolved
      BY <1>1, <1>2, <2>1 DEF UploadInv
    <2>3. upload[u] \in {"ready", "ok", "failed"}
      BY <1>1, <2>2 DEF Context, TypeOK, UploadState, Unresolved
    <2>4. final[Target[u]] = file[u]
      BY <1>1, <1>2, <2>3 DEF UploadInv
    <2> QED BY <1>1, <1>2, <2>3, <2>4, FileAssumption DEF Context, FilesInv
  <1>3. ~Storing(u) => ~Between(Target[u])
    BY <1>1 DEF Between, Rests, ServingUpload, Storing, Over
  <1> QED BY <1>1, <1>2, <1>3 DEF Context, SerialInv

LEMMA PutSerial ==
    ASSUME Context, NEW u \in Upload, Put(u)
    PROVE  SerialInv'
  <1> DEFINE n == Target[u]
             f == IF temp[n] = None THEN u ELSE temp[n]
             empty == [i \in 1 .. Chunks |-> None]
  <1>1. /\ n \in Name /\ f \in Upload /\ upload[u] = "idle" /\ flushed[u] = 0
        /\ file' = [file EXCEPT ![u] = f] /\ temp' = [temp EXCEPT ![n] = f]
        /\ content' = [content EXCEPT ![f] = empty]
        /\ upload' = [upload EXCEPT ![u] = "streaming"]
        /\ UNCHANGED <<final, entries, flushed, known, broken, deleting, reading>>
    <2>1. n \in Name /\ f \in Upload
      BY FileAssumption DEF Context, TypeOK
    <2>2. upload[u] = "idle" /\ upload' = [upload EXCEPT ![u] = "streaming"] /\ flushed[u] = 0
      BY DEF Put, Goes, Context, FilesInv
    <2> QED BY <2>1, <2>2 DEF Put
  <1> HIDE DEF n, f, empty
  <1>2. Rests(u) /\ \A v \in Upload : ~ServingUpload(v)
    <2>1. u \in InFlight'
      BY <1>1 DEF InFlight, Context, TypeOK, Over
    <2>2. \A v \in Upload : v # u => ~ServingUpload(v)
      <3> SUFFICES ASSUME NEW v \in Upload, v # u, ServingUpload(v) PROVE FALSE
        OBVIOUS
      <3>1. v \in InFlight'
        BY <1>1 DEF InFlight, ServingUpload, Streaming, Context, TypeOK
      <3> QED BY <2>1, <3>1 DEF Context, Alone
    <2>3. \A d \in Delete : deleting[d] # "destroy"
      <3> SUFFICES ASSUME NEW d \in Delete, deleting[d] = "destroy" PROVE FALSE
        OBVIOUS
      <3>1. d \in InFlight'
        BY <1>1 DEF InFlight
      <3> QED BY <2>1, <3>1, FileAssumption DEF Context, Alone
    <2> QED BY <1>1, <2>2, <2>3 DEF Rests, ServingUpload, Streaming, Over
  <1>3. \A m \in Name : final[m] # f
    BY <1>1, FileAssumption DEF f, Context, NamesInv, NamesAreDistinct
  <1>4. \A m \in Name : OneRow(m) /\ HasRow(m) /\ (Settled(m) \/ m \in torn)
    BY <1>2 DEF Context, SerialInv, Between, Rests, Storing, ServingUpload, Over
  <1>5. \A m \in Name : Untouched(m)
    BY <1>1, <1>3 DEF Untouched, Rows, Context, TypeOK
  <1>6. /\ OneRow(Target[u])' /\ HasRow(Target[u])'
        /\ Settled(Target[u])' \/ Target[u] \in torn'
    <2>1. Target[u] \in Name /\ OneRow(Target[u]) /\ HasRow(Target[u])
      BY <1>1, <1>4 DEF n
    <2>2. /\ \A v \in Upload : v # u => upload'[v] = upload[v]
          /\ upload[u] # "rename" /\ deleting' = deleting /\ Observe
      BY <1>1 DEF Context, TypeOK
    <2> QED BY <1>4, <1>5, <2>1, <2>2, SettledKept, UploadHeals
  <1>7. UploadInv(u)'
    <2>1. file'[u] = f /\ upload'[u] = "streaming" /\ flushed'[u] = 0 /\ temp'[n] = f
      BY <1>1 DEF Context, TypeOK
    <2>2. ~Storing(u)'
      BY <2>1 DEF Storing
    <2>3. Chunks \in Nat
      BY FileAssumption
    <2> QED BY <1>1, <2>1, <2>2, <2>3 DEF UploadInv, n
  <1>8. \A v \in Upload : v # u => upload'[v] = upload[v] /\ flushed'[v] = flushed[v]
    BY <1>1 DEF Context, TypeOK
  <1>9. n = Target[u] /\ deleting' = deleting /\ TypeOK /\ SerialInv /\ Alone' /\ Observe
        /\ broken' = broken
    BY <1>1 DEF Context, n
  <1> QED BY <1>1, <1>2, <1>5, <1>6, <1>7, <1>8, <1>9, UploadStep

LEMMA FlushSerial ==
    ASSUME Context, NEW u \in Upload, FlushChunk(u)
    PROVE  SerialInv'
  <1> DEFINE n == Target[u]
             f == file[u]
             k == flushed[u] + 1
  <1>1. /\ Streaming(u) /\ ServingUpload(u) /\ k \in 1 .. Chunks /\ flushed[u] \in Nat /\ Chunks \in Nat
        /\ flushed' = [flushed EXCEPT ![u] = k]
        /\ content' = [content EXCEPT ![f][k] = u]
        /\ UNCHANGED <<temp, final, entries, upload, file, known, broken, deleting, reading>>
    BY FileAssumption DEF FlushChunk, ServingUpload, Streaming, Context, TypeOK
  <1>2. /\ n \in Name /\ Rests(u) /\ UploadInv(u) /\ OneRow(n) /\ HasRow(n) /\ f \in Upload
        /\ \A m \in Name : final[m] = f => m = n /\ upload[u] \in {"ready", "ok", "failed"}
        /\ ~Storing(u) => Settled(n) \/ n \in torn
    BY <1>1, FileOf
  <1>3. flushed'[u] = k /\ content'[f] = [content[f] EXCEPT ![k] = u]
    BY <1>1, <1>2 DEF Context, TypeOK
  <1>4. \A i \in 1 .. Chunks : i <= k => content'[f][i] = u
    <2> TAKE i \in 1 .. Chunks
    <2>1. content[f] \in [1 .. Chunks -> Upload \cup {None}]
      BY <1>2 DEF Context, TypeOK
    <2>2. i <= flushed[u] => content[f][i] = u
      BY <1>2 DEF UploadInv
    <2> HIDE DEF f
    <2> QED BY <1>1, <1>3, <2>1, <2>2
  <1> HIDE DEF n, k
  <1>5. Rows(n)' = Rows(n)
    BY <1>1 DEF Rows
  <1>6. \A m \in Name : final[m] # f => Untouched(m)
    BY <1>1, <1>2 DEF Untouched, Rows, Context, TypeOK
  <1>12. \A m \in Name : m \in torn => m \in torn'
    BY <1>1, UploadHeals DEF Context
  <1>7. ServingUpload(u)' => UploadInv(u)'
    <2>1. Storing(u)' => Storing(u)
      BY <1>1 DEF Storing, Streaming
    <2>2. \A w : entries'[w] = entries[w]
      BY <1>1
    <2> QED BY <1>1, <1>2, <1>3, <1>4, <1>5, <1>12, <2>1, <2>2 DEF UploadInv, n, k
  <1>8. /\ OneRow(n)' /\ HasRow(n)'
        /\ Settled(n)' \/ n \in torn' \/ Storing(u)'
    <2>1. OneRow(n)' /\ HasRow(n)'
      BY <1>1, <1>2, <1>5 DEF OneRow, HasRow
    <2>2. CASE ~Storing(u)
      <3>1. final[n] # f
        BY <1>1, <1>2, <2>2 DEF Storing, n
      <3> QED BY <1>2, <1>6, <1>12, <2>1, <2>2, <3>1, SettledKept
    <2>3. CASE Storing(u) /\ ~Storing(u)'
      <3>1. upload[u] \in {"ok", "failed"} /\ k >= Chunks /\ final[n] = f
        BY <1>1, <1>3, <2>3 DEF Storing, Streaming, k, n
      <3>2. Rows(n) # {} /\ \A w \in Rows(n) : entries[w].hash = u
        BY <1>2, <2>3 DEF UploadInv, n
      <3>3. content'[f] = DataOf(u)
        <4>1. content'[f] \in [1 .. Chunks -> Upload \cup {None}]
          BY <1>1, <1>2, <1>3 DEF Context, TypeOK
        <4>2. \A i \in 1 .. Chunks : content'[f][i] = u
          BY <1>1, <1>4, <3>1
        <4> QED BY <4>1, <4>2 DEF DataOf
      <3>4. f # None
        BY <1>2, FileAssumption
      <3>5. Settled(n)'
        BY <1>1, <1>5, <3>1, <3>2, <3>3, <3>4 DEF Settled, EntryMatchesFile, DataOf
      <3> QED BY <2>1, <3>5
    <2> QED BY <2>1, <2>2, <2>3
  <1>9. \A v \in Upload : v # u => upload'[v] = upload[v] /\ flushed'[v] = flushed[v]
    BY <1>1 DEF Context, TypeOK
  <1>10. \A m \in Name : m # n => Untouched(m)
    BY <1>2, <1>6
  <1>11. /\ n = Target[u] /\ deleting' = deleting /\ broken' = broken
         /\ TypeOK /\ SerialInv /\ Alone' /\ Observe
    BY <1>1 DEF Context, n
  <1> QED BY <1>2, <1>7, <1>8, <1>9, <1>10, <1>11, UploadStep

\* Steps that change no more than how far the upload is.
LEMMA LocalSerial ==
    ASSUME Context, NEW u \in Upload,
           \/ Abort(u) \/ EndOfData(u) \/ FindEntry(u) \/ FileExists(u) \/ Respond(u)
           \/ StreamFails(u) \/ \E from \in {"find", "update", "create"} : Fails(u, from, "store")
    PROVE  SerialInv'
  <1> DEFINE n == Target[u]
  <1>1. /\ ServingUpload(u) /\ upload[u] # "idle"
        /\ upload[u] # "rename" \/ upload'[u] = upload[u]
        /\ UNCHANGED <<temp, final, content, entries, file, flushed, deleting, reading>>
        /\ \A v \in Upload : v # u => upload'[v] = upload[v] /\ flushed'[v] = flushed[v]
        /\ broken' \ {u} = broken \ {u}
    <2>1. CASE StreamFails(u)
      BY <2>1 DEF StreamFails, Streaming, ServingUpload, Over, disk, Context, TypeOK
    <2>2. CASE ~StreamFails(u)
      BY <2>2 DEF Abort, EndOfData, FindEntry, FileExists, Respond, Fails, Goes, ServingUpload, Over,
                  disk, Context, TypeOK
    <2> QED BY <2>1, <2>2
  <1>2. /\ n \in Name /\ Rests(u) /\ UploadInv(u) /\ OneRow(n) /\ HasRow(n)
        /\ ~Storing(u) => Settled(n) \/ n \in torn
        /\ upload[u] \in {"ready", "ok", "failed"} \/ final[n] # file[u]
    BY <1>1, FileOf
  <1>3. \A m \in Name : Untouched(m) /\ (m \in torn => m \in torn')
    BY <1>1, UploadHeals DEF Untouched, Rows, Context
  <1>4. OneRow(n)' /\ HasRow(n)' /\ (~Storing(u) => Settled(n)' \/ n \in torn')
    BY <1>1, <1>2, <1>3, SettledKept
  <1>5. Rows(n)' = Rows(n)
    BY <1>1 DEF Rows
  <1>6. (ServingUpload(u)' => UploadInv(u)') /\ (Settled(n)' \/ n \in torn' \/ Storing(u)')
    <2>1. CASE Abort(u)
      <3>1. upload'[u] = "aborted" /\ upload[u] = "streaming"
        BY <2>1 DEF Abort, Goes, Context, TypeOK
      <3> QED BY <1>1, <1>4, <3>1 DEF ServingUpload, Streaming, Storing, Over
    <2>2. CASE EndOfData(u)
      <3>1. upload'[u] = "find" /\ upload[u] = "streaming"
        BY <2>2 DEF EndOfData, Goes, Context, TypeOK
      <3>2. ~Storing(u) /\ ~Storing(u)'
        BY <3>1 DEF Storing
      <3> QED BY <1>1, <1>2, <1>4, <3>1, <3>2 DEF UploadInv, Unresolved
    <2>6. ASSUME NEW from \in {"find", "update", "create"}, Fails(u, from, "store")
          PROVE  (ServingUpload(u)' => UploadInv(u)') /\ (Settled(n)' \/ n \in torn' \/ Storing(u)')
      <3>1. upload'[u] = "cleanup" /\ upload[u] \in {"find", "update", "create"}
        BY <2>6 DEF Fails, Goes, Context, TypeOK
      <3>2. ~Storing(u) /\ ~Storing(u)'
        BY <3>1 DEF Storing
      <3> QED BY <1>1, <1>2, <1>4, <3>1, <3>2 DEF UploadInv, Unresolved
    <2>3. CASE FindEntry(u) /\ ~Fails(u, "find", "store")
      <3>1. /\ upload[u] = "find"
            /\ \/ Rows(n) = {} /\ upload'[u] = "create"
               \/ /\ upload'[u] = "update"
                  /\ \E w \in Rows(n) : known'[u] = entries[w].uuid
        BY <2>3 DEF FindEntry, Goes, Context, TypeOK
      <3>2. ~Storing(u) /\ ~Storing(u)'
        BY <3>1 DEF Storing
      <3>3. upload'[u] = "update" =>
              Rows(n)' # {} /\ \A w \in Rows(n)' : entries'[w].uuid = known'[u]
        BY <1>1, <1>2, <1>5, <3>1 DEF OneRow
      <3> QED BY <1>1, <1>2, <1>4, <1>5, <3>1, <3>2, <3>3 DEF UploadInv, Unresolved
    <2>4. CASE FileExists(u)
      <3>1. upload[u] = "exists" /\ Storing(u)
        BY <2>4 DEF FileExists, Storing
      <3>2. final[n] = None
        BY <1>2, <3>1 DEF UploadInv
      <3>3. upload'[u] = "rename" /\ Storing(u)'
        BY <2>4, <3>2 DEF FileExists, Storing, Context, TypeOK
      <3> QED BY <1>1, <1>2, <1>5, <3>1, <3>3 DEF UploadInv, Unresolved
    <2>5. CASE Respond(u)
      <3>1. upload[u] = "ready" /\ Storing(u) /\ broken' = broken
        BY <2>5 DEF Respond, Goes, Storing
      <3>2. /\ Rows(n) # {} /\ \A w \in Rows(n) : entries[w].hash = u
            /\ final[n] = file[u] /\ file[u] \in Upload
        BY <1>2, <3>1 DEF UploadInv
      <3>3. upload'[u] \in {"ok", "failed"}
        BY <2>5, <3>2 DEF Respond, Goes, Context, TypeOK
      <3>4. CASE flushed[u] < Chunks /\ u \notin broken
        <4>1. Storing(u)' /\ upload'[u] \notin {"ready", "update", "create", "exists", "unlink"}
          BY <1>1, <3>1, <3>2, <3>3, <3>4 DEF Storing, Streaming
        <4> QED BY <1>1, <1>2, <1>5, <3>2, <3>3, <4>1 DEF UploadInv, Unresolved
      <3>5. CASE ~(flushed[u] < Chunks)
        <4>1. ~ServingUpload(u)'
          BY <1>1, <3>3, <3>5 DEF ServingUpload, Streaming, Over
        <4>2. content[file[u]] = DataOf(u)
          <5>1. content[file[u]] \in [1 .. Chunks -> Upload \cup {None}]
            BY <3>2 DEF Context, TypeOK
          <5>2. flushed[u] \in 0 .. Chunks /\ Chunks \in Nat
            BY FileAssumption DEF Context, TypeOK
          <5>3. \A i \in 1 .. Chunks : content[file[u]][i] = u
            BY <1>2, <3>5, <5>2 DEF UploadInv
          <5> QED BY <5>1, <5>3 DEF DataOf
        <4>3. file[u] # None
          BY <3>2, FileAssumption
        <4>4. Settled(n)'
          BY <1>1, <1>5, <3>2, <4>2, <4>3 DEF Settled, EntryMatchesFile, DataOf
        <4> QED BY <4>1, <4>4
      <3>6. CASE u \in broken
        <4>1. ~ServingUpload(u)'
          BY <1>1, <3>1, <3>3, <3>6 DEF ServingUpload, Streaming, Over
        <4>2. n \in torn
          BY <1>2, <3>1, <3>6 DEF UploadInv
        <4> QED BY <1>2, <1>3, <4>1, <4>2
      <3> QED BY <3>4, <3>5, <3>6
    <2>7. CASE StreamFails(u)
      <3>1. /\ u \in broken' \ broken /\ known' = known
            /\ \/ upload[u] = "streaming" /\ upload'[u] = "littered"
               \/ upload[u] # "streaming" /\ upload'[u] = upload[u]
        BY <2>7 DEF StreamFails, Streaming, Context, TypeOK
      <3>2. final[n] = file[u] => n \in torn'
        BY <1>2, <3>1 DEF Tears, Context, Observe
      <3>3. CASE upload[u] = "streaming"
        BY <1>4, <3>1, <3>3 DEF ServingUpload, Streaming, Storing, Over
      <3>4. CASE upload[u] # "streaming" /\ Storing(u)' /\ Storing(u)
        <4>1. upload[u] = "ready" => n \in torn'
          BY <1>2, <3>2, <3>4 DEF UploadInv
        <4> QED BY <1>1, <1>2, <1>5, <3>1, <3>4, <4>1 DEF UploadInv, Unresolved
      <3>5. CASE upload[u] # "streaming" /\ ~Storing(u)
        <4>1. ~Storing(u)' /\ upload[u] # "ready"
          BY <3>1, <3>5 DEF Storing, Streaming
        <4> QED BY <1>1, <1>2, <1>4, <1>5, <3>1, <3>5, <4>1 DEF UploadInv, Unresolved
      <3>6. CASE upload[u] # "streaming" /\ Storing(u) /\ ~Storing(u)'
        <4>1. upload[u] \in {"ok", "failed"} /\ final[n] = file[u]
          BY <3>1, <3>6 DEF Storing
        <4>2. ~ServingUpload(u)'
          BY <3>1, <3>6, <4>1 DEF ServingUpload, Streaming, Over
        <4> QED BY <3>2, <4>1, <4>2
      <3> QED BY <3>3, <3>4, <3>5, <3>6
    <2> QED BY <2>1, <2>2, <2>3, <2>4, <2>5, <2>6, <2>7
  <1>7. n = Target[u] /\ deleting' = deleting /\ TypeOK /\ SerialInv /\ Alone' /\ Observe
    BY <1>1 DEF Context
  <1> HIDE DEF n
  <1> QED BY <1>1, <1>2, <1>3, <1>4, <1>6, <1>7, UploadStep

LEMMA UpdateSerial ==
    ASSUME Context, NEW u \in Upload, UpdateEntry(u)
    PROVE  SerialInv'
  <1> DEFINE n == Target[u]
  <1> SUFFICES ASSUME ~Fails(u, "update", "store") PROVE SerialInv'
    BY LocalSerial
  <1>1. /\ ServingUpload(u) /\ upload[u] = "update" /\ upload'[u] = "rename"
        /\ entries' = [w \in DOMAIN entries |->
                         IF w \in Rows(n) THEN EntryOf(u, known[u]) ELSE entries[w]]
        /\ UNCHANGED <<temp, final, content, file, flushed, known, broken, deleting, reading>>
        /\ \A v \in Upload : v # u => upload'[v] = upload[v] /\ flushed'[v] = flushed[v]
    BY DEF UpdateEntry, Goes, ServingUpload, Over, disk, Context, TypeOK
  <1>2. /\ n \in Name /\ Rests(u) /\ UploadInv(u) /\ OneRow(n) /\ HasRow(n)
    BY <1>1, FileOf
  <1>3. \A m \in Name : m # n => Untouched(m)
    BY <1>1 DEF Untouched, Rows, EntryOf
  <1>4. Rows(n)' = Rows(n) /\ \A w \in Rows(n) : entries'[w].hash = u
    BY <1>1 DEF Rows, EntryOf
  <1>5. Storing(u)' /\ OneRow(n)' /\ HasRow(n)'
    BY <1>1, <1>2, <1>4 DEF Storing, OneRow, HasRow
  <1>6. UploadInv(u)'
    BY <1>1, <1>2, <1>4 DEF UploadInv, Unresolved
  <1>7. n = Target[u] /\ deleting' = deleting /\ TypeOK /\ SerialInv /\ Alone' /\ Observe
    BY <1>1 DEF Context
  <1> HIDE DEF n
  <1> QED BY <1>1, <1>2, <1>3, <1>5, <1>6, <1>7, UploadStep

LEMMA CreateSerial ==
    ASSUME Context, NEW u \in Upload, CreateEntry(u)
    PROVE  SerialInv'
  <1> DEFINE n == Target[u]
  <1> SUFFICES ASSUME ~Fails(u, "create", "store") PROVE SerialInv'
    BY LocalSerial
  <1>1. /\ ServingUpload(u) /\ upload[u] = "create" /\ upload'[u] = "exists"
        /\ entries' = [w \in DOMAIN entries \cup {u} |->
                         IF w = u THEN EntryOf(u, u) ELSE entries[w]]
        /\ UNCHANGED <<temp, final, content, file, flushed, known, broken, deleting, reading>>
        /\ \A v \in Upload : v # u => upload'[v] = upload[v] /\ flushed'[v] = flushed[v]
    BY DEF CreateEntry, Goes, ServingUpload, Over, disk, Context, TypeOK
  <1>2. /\ n \in Name /\ Rests(u) /\ UploadInv(u) /\ OneRow(n) /\ HasRow(n) /\ Rows(n) = {}
    BY <1>1, FileOf DEF UploadInv
  <1>3. u \notin DOMAIN entries
    BY <1>2 DEF Context, FilesInv, Rows
  <1>4. final[n] = None
    BY <1>1, <1>2 DEF HasRow
  <1>5. \A m \in Name : m # n => Untouched(m)
    BY <1>1, <1>3 DEF Untouched, Rows, EntryOf
  <1>6. Rows(n)' = {u} /\ entries'[u].hash = u
    BY <1>1, <1>2, <1>3 DEF Rows, EntryOf
  <1>7. Storing(u)' /\ OneRow(n)' /\ HasRow(n)'
    BY <1>1, <1>6 DEF Storing, OneRow, HasRow
  <1>8. UploadInv(u)'
    BY <1>1, <1>2, <1>4, <1>6 DEF UploadInv, Unresolved
  <1>9. n = Target[u] /\ deleting' = deleting /\ TypeOK /\ SerialInv /\ Alone' /\ Observe
    BY <1>1 DEF Context
  <1> HIDE DEF n
  <1> QED BY <1>1, <1>2, <1>5, <1>7, <1>8, <1>9, UploadStep

\* A rename that fails tears the name; one whose stream has failed does too.
LEMMA RenameSerial ==
    ASSUME Context, NEW u \in Upload, Rename(u) \/ UnlinkOld(u)
    PROVE  SerialInv'
  <1> DEFINE n == Target[u]
  <1>1. /\ ServingUpload(u)
        /\ UNCHANGED <<content, entries, file, flushed, known, broken, deleting, reading>>
        /\ \A v \in Upload : v # u => upload'[v] = upload[v] /\ flushed'[v] = flushed[v]
    BY DEF Rename, UnlinkOld, Goes, ServingUpload, Over, Context, TypeOK
  <1>2. /\ n \in Name /\ Rests(u) /\ UploadInv(u) /\ OneRow(n) /\ HasRow(n) /\ file[u] \in Upload
        /\ \A m \in Name : final[m] = file[u] => upload[u] \in {"ready", "ok", "failed"}
    BY <1>1, FileOf
  <1>3. Rename(u) /\ upload[u] = "rename" /\ Storing(u)
    BY <1>2 DEF Rename, UnlinkOld, Goes, UploadInv, Storing
  <1>4. temp[n] = file[u] /\ temp[n] # None
    BY <1>2, <1>3, FileAssumption DEF UploadInv, Unresolved
  <1>10. /\ n = Target[u] /\ deleting' = deleting /\ broken' = broken
         /\ TypeOK /\ SerialInv /\ Alone' /\ Observe
    BY <1>1 DEF Context
  <1>11. CASE upload'[u] = "ready" /\ final' = [final EXCEPT ![n] = temp[n]]
    <2>1. Rows(n)' = Rows(n) /\ final'[n] = file[u]
      BY <1>1, <1>2, <1>4, <1>11 DEF Rows, Context, TypeOK
    <2>2. \A m \in Name : m # n => Untouched(m)
      BY <1>1, <1>11 DEF Untouched, Rows, Context, TypeOK
    <2>3. Storing(u)' /\ OneRow(n)' /\ HasRow(n)'
      BY <1>1, <1>2, <1>3, <1>11, <2>1 DEF Storing, OneRow, HasRow, UploadInv
    <2>4. u \in broken => n \in torn'
      BY <1>2, <1>3, <1>10, <1>11 DEF Tears, Observe
    <2>5. UploadInv(u)'
      BY <1>1, <1>2, <1>3, <1>11, <2>1, <2>4 DEF UploadInv, Unresolved
    <2> HIDE DEF n
    <2> QED BY <1>1, <1>2, <1>10, <2>2, <2>3, <2>5, UploadStep
  <1>12. CASE upload'[u] = "cleanup" /\ UNCHANGED <<temp, final>>
    <2>1. n \in torn'
      BY <1>2, <1>3, <1>10, <1>12 DEF Tears, Observe
    <2>2. \A m \in Name : Untouched(m)
      BY <1>1, <1>12 DEF Untouched, Rows
    <2>3. OneRow(n)' /\ HasRow(n)' /\ ~Storing(u)' /\ Rows(n)' = Rows(n)
      BY <1>1, <1>2, <1>12, <2>2, SettledKept DEF Storing, Rows
    <2>4. UploadInv(u)'
      BY <1>1, <1>2, <1>3, <1>12, <2>3 DEF UploadInv, Unresolved
    <2> HIDE DEF n
    <2> QED BY <1>1, <1>2, <1>10, <2>1, <2>2, <2>3, <2>4, UploadStep
  <1> QED BY <1>3, <1>11, <1>12 DEF Rename, Goes, Context, TypeOK

LEMMA CleanupSerial ==
    ASSUME Context, NEW u \in Upload, Cleanup(u)
    PROVE  SerialInv'
  <1> DEFINE n == Target[u]
  <1>1. /\ ServingUpload(u) /\ upload[u] = "cleanup"
        /\ upload'[u] = "failed" \/ (upload'[u] = "littered" /\ temp' = temp)
        /\ UNCHANGED <<final, content, entries, file, flushed, known, broken, deleting, reading>>
        /\ \A v \in Upload : v # u => upload'[v] = upload[v] /\ flushed'[v] = flushed[v]
    BY DEF Cleanup, Goes, ServingUpload, Over, Context, TypeOK
  <1>2. /\ n \in Name /\ Rests(u) /\ UploadInv(u) /\ OneRow(n) /\ HasRow(n)
        /\ ~Storing(u) => Settled(n) \/ n \in torn
        /\ \A m \in Name : final[m] # file[u]
    BY <1>1, FileOf
  <1>3. \A m \in Name : Untouched(m) /\ (m \in torn => m \in torn')
    BY <1>1, UploadHeals DEF Untouched, Rows, Context
  <1>4. ~Storing(u) /\ ~Storing(u)'
    BY <1>1, <1>2 DEF Storing
  <1>5. OneRow(n)' /\ HasRow(n)' /\ (Settled(n)' \/ n \in torn')
    BY <1>2, <1>3, <1>4, SettledKept
  <1>6. UploadInv(u)'
    BY <1>1, <1>2, <1>4 DEF UploadInv, Unresolved
  <1>7. n = Target[u] /\ deleting' = deleting /\ TypeOK /\ SerialInv /\ Alone' /\ Observe
    BY <1>1 DEF Context
  <1> HIDE DEF n
  <1> QED BY <1>1, <1>2, <1>3, <1>5, <1>6, <1>7, UploadStep

\* An upload that does not begin changes nothing.
LEMMA OpenFailsSerial ==
    ASSUME Context, NEW u \in Upload, OpenFails(u)
    PROVE  SerialInv'
  <1>1. /\ upload[u] = "idle" /\ upload'[u] = "failed" /\ u \in broken'
        /\ broken' \ {u} = broken \ {u}
        /\ \A v \in Upload : v # u => upload'[v] = upload[v]
        /\ UNCHANGED <<temp, final, content, entries, file, flushed, known, deleting, reading>>
    BY DEF OpenFails, Goes, disk, Context, TypeOK
  <1>2. ~ServingUpload(u)' /\ \A v \in Upload : v # u => (ServingUpload(v)' <=> ServingUpload(v))
    BY <1>1 DEF ServingUpload, Streaming, Over
  <1>3. ~Storing(u) /\ \A v \in Upload : v # u => (Storing(v)' <=> Storing(v))
    BY <1>1 DEF Storing, Streaming
  <1>4. \A n \in Name : Untouched(n) /\ (n \in torn => n \in torn')
    BY <1>1, UploadHeals DEF Untouched, Rows, Context
  <1>5. ASSUME NEW n \in Name
        PROVE  OneRow(n)' /\ HasRow(n)' /\ (Settled(n)' \/ n \in torn' \/ Between(n)')
    <2>1. Between(n) => Between(n)'
      BY <1>1, <1>3 DEF Between
    <2> QED BY <1>4, <2>1, SettledKept DEF Context, SerialInv
  <1>6. ASSUME NEW v \in Upload, ServingUpload(v)' PROVE UploadInv(v)'
    <2>1. v # u /\ UploadInv(v)
      BY <1>2, <1>6 DEF Context, SerialInv
    <2>2. Target[v] \in Name /\ (v \in broken' <=> v \in broken)
      BY <1>1, <2>1, FileAssumption
    <2> QED BY <1>1, <1>3, <1>4, <2>1, <2>2 DEF UploadInv, Rows
  <1> QED BY <1>1, <1>5, <1>6 DEF Context, SerialInv

\* A request of another kind changes no upload.
LEMMA DeleteSerial ==
    ASSUME Context, NEW d \in Delete,
           DeleteFind(d) \/ DeleteExists(d) \/ DeleteUnlink(d) \/ DeleteEntry(d)
    PROVE  SerialInv'
  <1> DEFINE n == Target[d]
  <1>1. /\ n \in Name /\ deleting' = [deleting EXCEPT ![d] = deleting'[d]]
        /\ UNCHANGED <<temp, content, upload, file, flushed, known, broken, reading>>
        /\ \A e \in Delete : e # d => deleting'[e] = deleting[e]
    BY FileAssumption DEF DeleteFind, DeleteExists, DeleteUnlink, DeleteEntry, DeleteFails, Steps,
       disk, uploads, Context, TypeOK
  <1>2. \A u \in Upload :
          /\ ServingUpload(u)' <=> ServingUpload(u)
          /\ final' = final => (Storing(u)' <=> Storing(u))
    BY <1>1 DEF ServingUpload, Storing, Streaming
  <1>7. \A m \in Name : m \in torn => m \in torn' \/ (m = n /\ deleting[d] = "destroy"
                                                             /\ deleting'[d] = "ok")
    BY <1>1, StillTorn DEF Heals, Context
  <1>3. CASE UNCHANGED <<final, entries>> /\ (deleting'[d] = "destroy" <=> deleting[d] = "destroy")
    <2>1. \A m \in Name : Rows(m)' = Rows(m)
      BY <1>3 DEF Rows
    <2>2. \A u \in Upload : ServingUpload(u)' => UploadInv(u)'
      <3> SUFFICES ASSUME NEW u \in Upload, ServingUpload(u)' PROVE UploadInv(u)'
        OBVIOUS
      <3>1. ServingUpload(u)
        BY <1>1 DEF ServingUpload, Streaming
      <3>2. UploadInv(u)
        BY <3>1 DEF Context, SerialInv
      <3>3. Target[u] \in Name /\ (Target[u] \in torn => Target[u] \in torn')
        BY <1>3, <1>7, FileAssumption
      <3>4. (Storing(u)' <=> Storing(u)) /\ Rows(Target[u])' = Rows(Target[u])
        BY <1>2, <1>3 DEF Rows
      <3> QED BY <1>1, <1>3, <3>2, <3>3, <3>4 DEF UploadInv
    <2>3. \A e \in Delete : deleting'[e] = "destroy" <=> deleting[e] = "destroy"
      BY <1>1, <1>3
    <2>4. \A m \in Name : OneRow(m)' /\ HasRow(m)' /\ (Settled(m)' \/ m \in torn' \/ Between(m)')
      <3> TAKE m \in Name
      <3>1. OneRow(m) /\ HasRow(m) /\ (Settled(m) \/ m \in torn \/ Between(m))
        BY DEF Context, SerialInv
      <3>2. Between(m) => Between(m)'
        BY <1>2, <1>3, <2>3 DEF Between
      <3>3. Untouched(m) /\ (m \in torn => m \in torn')
        BY <1>1, <1>3, <1>7 DEF Untouched, Rows
      <3> QED BY <3>1, <3>2, <3>3, SettledKept
    <2> QED BY <1>3, <2>2, <2>3, <2>4 DEF Context, SerialInv
  <1>4. CASE DeleteUnlink(d) /\ deleting'[d] = "destroy"
    <2>1. /\ deleting[d] = "unlink" /\ final[n] # None
          /\ final' = [final EXCEPT ![n] = None] /\ UNCHANGED entries
      BY <1>4 DEF DeleteUnlink, DeleteFails, Steps, Context, TypeOK
    <2>2. d \in InFlight
      BY <2>1 DEF InFlight
    <2>3. \A u \in Upload : ~ServingUpload(u) /\ ~Storing(u)
      BY <2>2, FileAssumption DEF Context, SerialInv, Alone, InFlight, ServingUpload, Storing, Over
    <2>4. \A e \in Delete : deleting[e] # "destroy"
      BY <2>1, <2>2 DEF Context, SerialInv, Alone, InFlight
    <2>5. \A m \in Name : OneRow(m) /\ HasRow(m) /\ (Settled(m) \/ m \in torn)
      BY <2>3, <2>4 DEF Context, SerialInv, Between
    <2>6. \A m \in Name : m # n => Untouched(m)
      BY <1>1, <2>1 DEF Untouched, Rows, Context, TypeOK
    <2>7. ASSUME NEW m \in Name
          PROVE  OneRow(m)' /\ HasRow(m)' /\ (Settled(m)' \/ m \in torn' \/ Between(m)')
      <3>1. CASE m # n
        BY <1>7, <2>5, <2>6, <3>1, SettledKept
      <3>2. CASE m = n
        <4>1. OneRow(m)' /\ HasRow(m)'
          BY <2>1, <2>5, <3>2 DEF OneRow, HasRow, Rows, Context, TypeOK
        <4> QED BY <1>4, <3>2, <4>1 DEF Between
      <3> QED BY <3>1, <3>2
    <2>8. \A e \in Delete : deleting'[e] = "destroy" => final'[Target[e]] = None
      BY <1>1, <2>1, <2>4 DEF Context, TypeOK
    <2>9. \A u \in Upload : ~ServingUpload(u)'
      BY <1>1, <2>3 DEF ServingUpload, Streaming
    <2> QED BY <2>7, <2>8, <2>9 DEF Context, SerialInv
  <1>8. CASE DeleteFails(d, "destroy", "store")
    <2>1. /\ deleting[d] = "destroy" /\ deleting'[d] = "failed"
          /\ UNCHANGED <<temp, final, content, entries>>
      BY <1>8 DEF DeleteFails, Steps, disk, Context, TypeOK
    <2>2. d \in InFlight
      BY <2>1 DEF InFlight
    <2>3. \A u \in Upload : ~ServingUpload(u) /\ ~Storing(u)
      BY <2>2, FileAssumption DEF Context, SerialInv, Alone, InFlight, ServingUpload, Storing, Over
    <2>4. \A e \in Delete : e # d => deleting[e] # "destroy"
      BY <2>1, <2>2 DEF Context, SerialInv, Alone, InFlight
    <2>5. n \in torn' /\ \A m \in Name : m \in torn => m \in torn'
      BY <1>1, <1>7, <2>1 DEF Tears, Context, Observe
    <2>6. ASSUME NEW m \in Name
          PROVE  OneRow(m)' /\ HasRow(m)' /\ (Settled(m)' \/ m \in torn')
      <3>1. Untouched(m)
        BY <2>1 DEF Untouched, Rows
      <3>2. OneRow(m) /\ HasRow(m) /\ (Settled(m) \/ m \in torn \/ m = n)
        BY <2>3, <2>4 DEF Context, SerialInv, Between
      <3> QED BY <2>5, <3>1, <3>2, SettledKept
    <2>7. \A e \in Delete : deleting'[e] # "destroy"
      BY <1>1, <2>1, <2>4
    <2>8. \A u \in Upload : ~ServingUpload(u)'
      BY <1>1, <2>3 DEF ServingUpload, Streaming
    <2> QED BY <2>6, <2>7, <2>8 DEF Context, SerialInv
  <1>5. CASE DeleteEntry(d) /\ ~DeleteFails(d, "destroy", "store")
    <2>1. /\ deleting[d] = "destroy" /\ deleting'[d] = "ok" /\ UNCHANGED final
          /\ entries' = [w \in DOMAIN entries \ Rows(n) |-> entries[w]]
      BY <1>5 DEF DeleteEntry, Steps, disk, Context, TypeOK
    <2>2. d \in InFlight
      BY <2>1 DEF InFlight
    <2>3. \A u \in Upload : ~ServingUpload(u) /\ ~Storing(u)
      BY <2>2, FileAssumption DEF Context, SerialInv, Alone, InFlight, ServingUpload, Storing, Over
    <2>4. \A e \in Delete : e # d => deleting[e] # "destroy"
      BY <2>1, <2>2 DEF Context, SerialInv, Alone, InFlight
    <2>5. \A m \in Name : OneRow(m) /\ HasRow(m) /\ (m # n => Settled(m) \/ m \in torn)
      BY <2>1, <2>3, <2>4 DEF Context, SerialInv, Between
    <2>6. \A m \in Name : m # n => Untouched(m)
      BY <1>1, <2>1 DEF Untouched, Rows, Context, TypeOK
    <2>7. ASSUME NEW m \in Name PROVE OneRow(m)' /\ HasRow(m)' /\ (Settled(m)' \/ m \in torn')
      <3>1. CASE m # n
        BY <1>7, <2>5, <2>6, <3>1, SettledKept
      <3>2. CASE m = n
        <4>1. Rows(n)' = {} /\ final'[n] = None
          BY <2>1 DEF Rows, Context, SerialInv
        <4> QED BY <3>2, <4>1 DEF OneRow, HasRow, Settled, EntryMatchesFile
      <3> QED BY <3>1, <3>2
    <2>8. \A e \in Delete : deleting'[e] # "destroy"
      BY <1>1, <2>1, <2>4
    <2>9. \A u \in Upload : ~ServingUpload(u)'
      BY <1>1, <2>3 DEF ServingUpload, Streaming
    <2> QED BY <2>7, <2>8, <2>9 DEF Context, SerialInv
  <1>6. \/ UNCHANGED <<final, entries>> /\ (deleting'[d] = "destroy" <=> deleting[d] = "destroy")
        \/ DeleteUnlink(d) /\ deleting'[d] = "destroy"
        \/ DeleteEntry(d)
    <2>1. CASE DeleteFind(d) \/ DeleteExists(d)
      BY <2>1 DEF DeleteFind, DeleteExists, DeleteFails, Steps, disk, Context, TypeOK
    <2>2. CASE DeleteUnlink(d) /\ deleting'[d] # "destroy"
      <3>1. CASE DeleteFails(d, "unlink", "disk")
        BY <3>1 DEF DeleteFails, Steps, disk, Context, TypeOK
      <3>2. CASE ~DeleteFails(d, "unlink", "disk")
        <4>1. final[n] = None
          BY <2>2, <3>2 DEF DeleteUnlink, Steps, Context, TypeOK
        <4>2. final' = final
          BY <2>2, <3>2, <4>1 DEF DeleteUnlink, Context, TypeOK
        <4> QED BY <2>2, <3>2, <4>2 DEF DeleteUnlink, Steps, Context, TypeOK
      <3> QED BY <3>1, <3>2
    <2> QED BY <2>1, <2>2
  <1> QED BY <1>3, <1>4, <1>5, <1>6, <1>8

\* A request that reads, and no request at all.
LEMMA ReadSerial ==
    ASSUME SerialInv, Alone', UNCHANGED <<disk, entries, uploads, deleting>>,
           \A n \in Name : n \in torn => n \in torn'
    PROVE  SerialInv'
  <1> USE DEF disk, uploads
  <1>1. ASSUME NEW n \in Name
        PROVE  OneRow(n)' /\ HasRow(n)' /\ (Settled(n)' \/ n \in torn' \/ Between(n)')
    <2>1. Between(n) => Between(n)'
      BY DEF Between, Storing, Streaming
    <2>2. Untouched(n)
      BY DEF Untouched, Rows
    <2> QED BY <2>1, <2>2, SettledKept DEF SerialInv
  <1>2. ASSUME NEW u \in Upload, ServingUpload(u)' PROVE UploadInv(u)'
    <2>1. UploadInv(u) /\ Target[u] \in Name
      BY <1>2, FileAssumption DEF SerialInv, ServingUpload, Streaming
    <2>2. Storing(u)' <=> Storing(u)
      BY DEF Storing, Streaming
    <2> QED BY <2>1, <2>2 DEF UploadInv, Rows
  <1> QED BY <1>1, <1>2 DEF SerialInv

\* What holds of files and rows whatever overlaps.
LEMMA FilesStep ==
    ASSUME TypeOK, NamesInv, FilesInv, [Next]_vars
    PROVE  FilesInv'
  <1> USE DEF FilesInv
  <1>1. ASSUME UNCHANGED <<final, entries>>,
               \A u \in Upload : upload'[u] = "idle" => upload[u] = "idle" /\ flushed'[u] = flushed[u]
        PROVE  FilesInv'
    BY <1>1
  <1>2. ASSUME NEW u \in Upload,
               \/ Put(u) \/ OpenFails(u) \/ StreamFails(u) \/ Abort(u) \/ EndOfData(u)
               \/ FindEntry(u) \/ FileExists(u) \/ Cleanup(u) \/ Respond(u)
        PROVE  FilesInv'
    BY <1>1, <1>2 DEF Put, OpenFails, StreamFails, Abort, EndOfData, FindEntry, FileExists, Cleanup,
                      Respond, Fails, Goes, TypeOK, disk
  <1>3. ASSUME NEW u \in Upload, FlushChunk(u) PROVE FilesInv'
    BY <1>1, <1>3 DEF FlushChunk, Streaming, TypeOK
  <1>4. ASSUME NEW u \in Upload, UpdateEntry(u) \/ CreateEntry(u) PROVE FilesInv'
    <2>1. final' = final /\ \A v \in Upload : upload'[v] = "idle" =>
                                upload[v] = "idle" /\ flushed'[v] = flushed[v]
      BY <1>4 DEF UpdateEntry, CreateEntry, Fails, Goes, TypeOK, disk
    <2>2. \A w \in DOMAIN entries' : entries'[w].name = Target[w]
      <3>1. CASE UpdateEntry(u)
        BY <3>1 DEF UpdateEntry, Fails, EntryOf, Rows
      <3>2. CASE CreateEntry(u)
        BY <3>2 DEF CreateEntry, Fails, EntryOf
      <3> QED BY <1>4, <3>1, <3>2
    <2> QED BY <2>1, <2>2
  <1>5. ASSUME NEW u \in Upload, Rename(u) \/ UnlinkOld(u) PROVE FilesInv'
    <2>1. entries' = entries /\ \A v \in Upload : upload'[v] = "idle" =>
                                upload[v] = "idle" /\ flushed'[v] = flushed[v]
      BY <1>5 DEF Rename, UnlinkOld, Goes, TypeOK
    <2>2. \A n, m \in Name : final'[n] # None /\ final'[n] = final'[m] => n = m
      BY <1>5, FileAssumption DEF Rename, UnlinkOld, TypeOK, NamesInv, NamesAreDistinct
    <2> QED BY <2>1, <2>2
  <1>6. ASSUME NEW d \in Delete,
               DeleteFind(d) \/ DeleteExists(d) \/ DeleteUnlink(d) \/ DeleteEntry(d)
        PROVE  FilesInv'
    BY <1>6 DEF DeleteFind, DeleteExists, DeleteUnlink, DeleteEntry, DeleteFails, Steps, disk,
                uploads, TypeOK
  <1>7. ASSUME NEW g \in Get, GetLookup(g) \/ GetFind(g) \/ GetExists(g) \/ GetOpen(g)
        PROVE  FilesInv'
    BY <1>1, <1>7 DEF GetLookup, GetFind, GetExists, GetOpen, Reads, disk, uploads
  <1>8. CASE UNCHANGED vars
    BY <1>8 DEF vars
  <1> QED BY <1>2, <1>3, <1>4, <1>5, <1>6, <1>7, <1>8 DEF Next, Serve, ServeUpload

LEMMA SInvStep ==
    ASSUME TypeOK, NamesInv, SInv, [Next /\ Observe]_ovars
    PROVE  SInv'
  <1>1. FilesInv'
    BY FilesStep DEF SInv, ovars
  <1>2. ASSUME Next, Observe, ~overlapped' PROVE SerialInv'
    <2>1. Context
      BY <1>2 DEF Context, SInv, Observe
    <2>2. ASSUME NEW u \in Upload,
                 ServeUpload(u) \/ Put(u) \/ OpenFails(u) \/ StreamFails(u) \/ Abort(u)
          PROVE  SerialInv'
      BY <2>1, <2>2, PutSerial, OpenFailsSerial, FlushSerial, LocalSerial, UpdateSerial, CreateSerial, RenameSerial,
         CleanupSerial DEF ServeUpload
    <2>3. ASSUME NEW g \in Get, GetLookup(g) \/ GetFind(g) \/ GetExists(g) \/ GetOpen(g)
          PROVE  SerialInv'
      <3>1. UNCHANGED <<disk, entries, uploads, deleting>>
        BY <2>3 DEF GetLookup, GetFind, GetExists, GetOpen, Reads
      <3>2. \A n \in Name : n \in torn => n \in torn'
        BY <2>1, <3>1, StillTorn DEF Context, Heals, uploads
      <3> QED BY <2>1, <3>1, <3>2, ReadSerial DEF Context
    <2> QED BY <1>2, <2>1, <2>2, <2>3, DeleteSerial DEF Next, Serve
  <1>3. ASSUME UNCHANGED ovars, ~overlapped' PROVE SerialInv'
    <2>1. SerialInv /\ Alone'
      BY <1>3 DEF SInv, SerialInv, Alone, InFlight, Streaming, ovars, vars
    <2> QED BY <1>3, <2>1, ReadSerial DEF ovars, vars, disk, uploads
  <1> QED BY <1>1, <1>2, <1>3 DEF SInv

LEMMA SInvInit == ObservedInit => SInv
  <1> SUFFICES ASSUME ObservedInit PROVE SInv
    OBVIOUS
  <1> USE DEF ObservedInit, Init
  <1>1. FilesInv
    BY DEF FilesInv
  <1>2. Alone /\ \A u \in Upload : ~ServingUpload(u)
    BY DEF Alone, InFlight, ServingUpload, Streaming, Over
  <1>3. \A n \in Name : OneRow(n) /\ HasRow(n) /\ Settled(n)
    BY DEF OneRow, HasRow, Settled, EntryMatchesFile, Rows
  <1> QED BY <1>1, <1>2, <1>3 DEF SInv, SerialInv

LEMMA SInvAlways == ObservedSpec => [](TypeOK /\ NamesInv /\ SInv)
  <1>1. ObservedSpec => Spec
    <2>1. ObservedInit => Init
      BY DEF ObservedInit
    <2>2. [Next /\ Observe]_ovars => [Next]_vars
      BY DEF ovars
    <2> QED BY <2>1, <2>2, PTL DEF ObservedSpec, Spec
  <1>2. TypeOK /\ NamesInv /\ SInv /\ [Next /\ Observe]_ovars => SInv'
    BY SInvStep
  <1> QED BY <1>1, <1>2, SInvInit, TypeCorrect, NamesAlways, PTL DEF ObservedSpec

\* As long as requests come one after the other, each file has one entry, and the
\* hashes of the entry are of what the file holds unless the entry was stored and
\* the rename failed, the stream failed after the end of the data, or the file was
\* unlinked and the entry could not be removed; and then only until the next upload
\* or deletion of the name that succeeds (createOrUpdateEntry, rename, delete).
THEOREM SerialCollectionMatchesDiskAlways == ObservedSpec => []SerialCollectionMatchesDisk
  <1>1. TypeOK /\ SInv => SerialCollectionMatchesDisk
    <2> SUFFICES ASSUME TypeOK, SInv, ~overlapped, Quiet, NEW n \in Name
                 PROVE  /\ final[n] # None => Cardinality(Rows(n)) = 1
                        /\ n \notin torn => EntryMatchesFile(n)
      BY DEF SerialCollectionMatchesDisk
    <2>1. OneRow(n) /\ HasRow(n) /\ (Settled(n) \/ n \in torn)
      BY DEF SInv, SerialInv, Between, Storing, Quiet, InFlight, Over
    <2>2. ASSUME final[n] # None PROVE Cardinality(Rows(n)) = 1
      <3>1. PICK w \in Rows(n) : Rows(n) = {w}
        BY <2>1, <2>2 DEF OneRow, HasRow
      <3> QED BY <3>1, FS_Singleton
    <2> QED BY <2>1, <2>2 DEF Settled
  <1> QED BY <1>1, SInvAlways, PTL

\* And a file that is replaced keeps its uuid.
THEOREM SerialUuidAlwaysStable == ObservedSpec => SerialUuidStable
  <1>1. ASSUME TypeOK, NamesInv, SInv, SInv', [Next /\ Observe]_ovars, ~overlapped'
        PROVE  KeepsUuid
    <2>1. ~overlapped /\ SerialInv
      <3>1. CASE Observe
        BY <1>1, <3>1 DEF SInv, Observe
      <3>2. CASE UNCHANGED ovars
        BY <1>1, <3>2 DEF SInv, ovars
      <3> QED BY <1>1, <3>1, <3>2
    <2> SUFFICES ASSUME NEW n \in Name, NEW w \in Rows(n), NEW v \in Rows(n)'
                 PROVE  entries'[v].uuid = entries[w].uuid
      BY DEF KeepsUuid
    <2>2. OneRow(n)
      BY <2>1 DEF SerialInv
    <2>3. CASE UNCHANGED entries
      BY <2>2, <2>3 DEF Rows, OneRow
    <2>4. ASSUME NEW d \in Delete, DeleteEntry(d)
          PROVE  entries'[v].uuid = entries[w].uuid
      BY <2>2, <2>4 DEF DeleteEntry, DeleteFails, Rows, OneRow
    <2>5. ASSUME NEW u \in Upload, CreateEntry(u)
          PROVE  entries'[v].uuid = entries[w].uuid
      <3>1. CASE UNCHANGED entries
        BY <2>3, <3>1
      <3>2. CASE Goes(u, "create", "exists")
        <4>1. entries' = [x \in DOMAIN entries \cup {u} |-> IF x = u THEN EntryOf(u, u) ELSE entries[x]]
          <5>1. upload'[u] = "exists"
            BY <1>1, <3>2 DEF Goes, TypeOK
          <5>2. ~Goes(u, "create", "cleanup")
            BY <1>1, <5>1 DEF Goes, TypeOK
          <5> QED BY <2>5, <5>2 DEF CreateEntry, Fails
        <4>2. UploadInv(u) /\ Rows(Target[u]) = {}
          BY <2>1, <3>2 DEF Goes, SerialInv, ServingUpload, UploadInv, Over
        <4>3. n # Target[u]
          BY <4>2
        <4>4. v \in Rows(n) /\ entries'[v] = entries[v]
          BY <4>1, <4>3 DEF Rows, EntryOf
        <4> QED BY <2>2, <4>4 DEF OneRow
      <3> QED BY <2>5, <3>1, <3>2 DEF CreateEntry, Fails
    <2>6. ASSUME NEW u \in Upload, UpdateEntry(u)
          PROVE  entries'[v].uuid = entries[w].uuid
      <3> SUFFICES ASSUME ~Fails(u, "update", "store") PROVE entries'[v].uuid = entries[w].uuid
        BY <2>3, <2>6 DEF Fails
      <3>1. entries' = [x \in DOMAIN entries |->
                         IF x \in Rows(Target[u]) THEN EntryOf(u, known[u]) ELSE entries[x]]
        BY <2>6 DEF UpdateEntry
      <3>2. UploadInv(u) /\ \A x \in Rows(Target[u]) : entries[x].uuid = known[u]
        BY <2>1, <2>6 DEF UpdateEntry, Goes, SerialInv, ServingUpload, UploadInv, Over
      <3>3. v \in Rows(n)
        BY <3>1 DEF Rows, EntryOf
      <3>4. v = w
        BY <2>2, <3>3 DEF OneRow
      <3> QED BY <3>1, <3>2, <3>3, <3>4 DEF Rows, EntryOf
    <2>7. \/ UNCHANGED entries
          \/ \E d \in Delete : DeleteEntry(d)
          \/ \E u \in Upload : CreateEntry(u) \/ UpdateEntry(u)
      BY <1>1 DEF Next, Serve, ServeUpload, ovars, vars, Put, OpenFails, StreamFails, Abort, FlushChunk,
         EndOfData, FindEntry, Fails, DeleteFails, FileExists, UnlinkOld, Rename, Cleanup, Respond, DeleteFind, DeleteExists, DeleteUnlink,
         GetLookup, GetFind, GetExists, GetOpen, Reads
    <2> QED BY <2>3, <2>4, <2>5, <2>6, <2>7
  <1>2. TypeOK /\ NamesInv /\ SInv /\ SInv' /\ [Next /\ Observe]_ovars
        => [~overlapped' => KeepsUuid]_ovars
    BY <1>1
  <1> QED BY <1>2, SInvAlways, PTL DEF ObservedSpec, SerialUuidStable
=============================================================================
