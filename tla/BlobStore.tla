------------------------------ MODULE BlobStore ------------------------------
(***************************************************************************)
(* FilesystemBlobStorage (blob.go, and the copy of it in cmd/blobonly),    *)
(* used by several goroutines or processes at once on one directory, none  *)
(* of which takes a lock.  A blob is two files, the data and the ".meta"   *)
(* file.  os.WriteFile opens and empties a file, then writes it; a process *)
(* is at                                                                   *)
(*                                                                         *)
(*   data      the data file is open, before its write                     *)
(*   openmeta  the data file is written                                    *)
(*   meta      the metadata file is open, before its write                 *)
(*   remove    in Delete, the metadata file is removed                     *)
(*   readmeta  in Retrieve, the data file is read                          *)
(*   read      Retrieve has its result                                     *)
(*                                                                         *)
(* A content is a value, whose metadata is written with it, or a file that *)
(* is Empty (just opened) or Torn (part of a value, or parts of two).      *)
(* Keys do not end in ".meta", and none is a directory of another.         *)
(* Exists, List and Stats read the directory and change nothing.           *)
(* os.Remove fails only if there is no file.                               *)
(***************************************************************************)
CONSTANTS Procs, Keys, Values,
          Tools,                 \* the processes that run cmd/blobonly
          ContentType,           \* the content type a value is stored with
          Words,                 \* what its content type and file name contain
          Absent, Empty, Torn,
          Unknown                \* no claim about a key

Contents == Values \cup {Absent, Empty, Torn}
ContentTypes == {"image/png", "image/gif", "image/jpeg", "image/webp", "text/plain"}
Images == ContentTypes \ {"text/plain"}

\* What blob.go looks for in the text of the metadata, and characters that
\* JSON needs escaped, which blob.go does not do.
Marks == {"image/", "png", "gif", "escape"}

\* The marks of a content type.
MarksOf(t) ==
    {m \in Marks : \/ m = "image/" /\ t \in Images
                   \/ m = "png" /\ t = "image/png"
                   \/ m = "gif" /\ t = "image/gif"}

ASSUME BlobConstants ==
    /\ Tools \subseteq Procs
    /\ ContentType \in [Values -> ContentTypes]
    /\ Words \in [Values -> SUBSET Marks]
    /\ \A v \in Values : MarksOf(ContentType[v]) \subseteq Words[v]
    /\ Keys # {} /\ Values # {}
    /\ {Absent, Empty, Torn} \cap Values = {} /\ Unknown \notin Contents
    /\ Absent # Empty /\ Absent # Torn /\ Empty # Torn

VARIABLES
    data, meta,   \* content of the two files of a key
    pc,           \* place of a process
    key, value,   \* arguments of its call
    linked,       \* processes whose open file is still in the directory
    gotData, gotType,   \* what Retrieve returns
    alone,        \* history: callers that no change of their key overlapped
    settled,      \* history: what the last change left, if it was complete and alone
    mixed         \* history: keys with overlapping changes since they were settled

fileVars == <<data, meta, linked>>
callVars == <<pc, key, value, gotData, gotType>>
history == <<alone, settled, mixed>>
vars == <<fileVars, callVars, history>>

Changing == {"data", "openmeta", "meta", "remove"}

TypeOK ==
    /\ data \in [Keys -> Contents]
    /\ meta \in [Keys -> Contents]
    /\ pc \in [Procs -> {"idle", "readmeta", "read"} \cup Changing]
    /\ key \in [Procs -> Keys]
    /\ value \in [Procs -> Values]
    /\ linked \subseteq {p \in Procs : pc[p] \in {"data", "meta"}}
    /\ gotData \in [Procs -> Contents]
    /\ gotType \in [Procs -> ContentTypes \cup {""}]
    /\ alone \subseteq Procs
    /\ settled \in [Keys -> Values \cup {Absent, Unknown}]
    /\ mixed \subseteq Keys

Init ==
    /\ data = [k \in Keys |-> Absent]
    /\ meta = [k \in Keys |-> Absent]
    /\ pc = [p \in Procs |-> "idle"]
    /\ key = [p \in Procs |-> CHOOSE k \in Keys : TRUE]
    /\ value = [p \in Procs |-> CHOOSE v \in Values : TRUE]
    /\ linked = {}
    /\ gotData = [p \in Procs |-> Absent]
    /\ gotType = [p \in Procs |-> ""]
    /\ alone = {}
    /\ settled = [k \in Keys |-> Absent]
    /\ mixed = {}

Goto(p, label) == pc' = [pc EXCEPT ![p] = label]
Put(file, k, c) == [file EXCEPT ![k] = c]

-----------------------------------------------------------------------------
(* Bookkeeping of the history                                              *)

Changers(k) == {p \in Procs : pc[p] \in Changing /\ key[p] = k}

Callers(k) == {p \in Procs : pc[p] # "idle" /\ key[p] = k}

BeginChange(p, k) ==
    /\ alone' = (alone \ Callers(k)) \cup (IF Changers(k) = {} THEN {p} ELSE {})
    /\ settled' = [settled EXCEPT ![k] = Unknown]
    /\ mixed' = IF Changers(k) = {} THEN mixed ELSE mixed \cup {k}

\* A change that was alone from beginning to end settles its key.
EndChange(p, result) ==
    LET k == key[p] IN
    /\ alone' = alone \ {p}
    /\ settled' = [settled EXCEPT ![k] = IF p \in alone THEN result ELSE Unknown]
    /\ mixed' = IF p \in alone THEN mixed \ {k} ELSE mixed

-----------------------------------------------------------------------------
(* os.WriteFile, os.ReadFile and os.Remove                                 *)

\* Whether another process is writing a file of k.
Busy(k, place) == \E p \in linked : pc[p] = place /\ key[p] = k

MutOpened(file, k, place) == {IF file[k] = Absent THEN Empty ELSE file[k]}

\* O_CREATE|O_TRUNC.  What another process has not written yet will follow.
Opened(file, k, place) == {Empty} \cup {c \in {Torn} : Busy(k, place)}

\* What a file holds after v was written from its beginning: another process
\* may have written to it since it was emptied.
Written(c, v) == IF c = Empty THEN {v} ELSE {v, Torn}

\* A write goes to the file that was opened, which a Delete may have removed.
WriteTo(file, p) ==
    IF p \in linked THEN {Put(file, key[p], c) : c \in Written(file[key[p]], value[p])}
    ELSE {file}

\* A write that stops before its end.
PartOf(file, p) ==
    IF p \in linked THEN {file, Put(file, key[p], Torn)} ELSE {file}

\* What reading a file may give, while another process may be writing it.
ReadFrom(file, k, place) ==
    {file[k]} \cup {c \in {Torn} : Busy(k, place)}

\* What remains open in the directory when a file of k is removed.
Unlink(k, place) == linked \ {p \in Procs : pc[p] = place /\ key[p] = k}

-----------------------------------------------------------------------------
(* Store                                                                   *)

\* The data file is opened.  (Before that the size and the directory may be
\* refused, and nothing changes.)
StoreOpen(p, k, v) ==
    /\ pc[p] = "idle"
    /\ \E c \in Opened(data, k, "data") : data' = Put(data, k, c)
    /\ linked' = linked \cup {p}
    /\ key' = [key EXCEPT ![p] = k]
    /\ value' = [value EXCEPT ![p] = v]
    /\ Goto(p, "data")
    /\ BeginChange(p, k)
    /\ UNCHANGED <<meta, gotData, gotType>>

MutStoreData(p) ==
    /\ pc[p] = "data"
    /\ data' \in WriteTo(data, p)
    /\ Goto(p, "openmeta")
    /\ UNCHANGED <<meta, linked, key, value, gotData, gotType, history>>

\* The data is written and the file closed.
StoreData(p) ==
    /\ pc[p] = "data"
    /\ data' \in WriteTo(data, p)
    /\ linked' = linked \ {p}
    /\ Goto(p, "openmeta")
    /\ UNCHANGED <<meta, key, value, gotData, gotType, history>>

StoreOpenMeta(p) ==
    /\ pc[p] = "openmeta"
    /\ \E c \in Opened(meta, key[p], "meta") : meta' = Put(meta, key[p], c)
    /\ linked' = linked \cup {p}
    /\ Goto(p, "meta")
    /\ UNCHANGED <<data, key, value, gotData, gotType, history>>

\* The metadata is written and Store returns nil.
StoreMeta(p) ==
    /\ pc[p] = "meta"
    /\ meta' \in WriteTo(meta, p)
    /\ linked' = linked \ {p}
    /\ Goto(p, "idle")
    /\ EndChange(p, value[p])
    /\ UNCHANGED <<data, key, value, gotData, gotType>>

-----------------------------------------------------------------------------
(* Delete                                                                  *)

MutDeleteMeta(p, k) ==
    /\ pc[p] = "idle"
    /\ data' = Put(data, k, Absent)
    /\ linked' = Unlink(k, "data")
    /\ key' = [key EXCEPT ![p] = k]
    /\ Goto(p, "remove")
    /\ BeginChange(p, k)
    /\ UNCHANGED <<meta, value, gotData, gotType>>

\* os.Remove of the metadata file, whose error is ignored.
DeleteMeta(p, k) ==
    /\ pc[p] = "idle"
    /\ meta' = Put(meta, k, Absent)
    /\ linked' = Unlink(k, "meta")
    /\ key' = [key EXCEPT ![p] = k]
    /\ Goto(p, "remove")
    /\ BeginChange(p, k)
    /\ UNCHANGED <<data, value, gotData, gotType>>

\* os.Remove of the data file; Delete returns an error if there is none.
DeleteData(p) ==
    /\ pc[p] = "remove"
    /\ data' = Put(data, key[p], Absent)
    /\ linked' = Unlink(key[p], "data")
    /\ Goto(p, "idle")
    /\ EndChange(p, Absent)
    /\ UNCHANGED <<meta, key, value, gotData, gotType>>

-----------------------------------------------------------------------------
(* Retrieve                                                                *)

\* Without a data file Retrieve returns an error.
ReadData(p, k) ==
    /\ pc[p] = "idle"
    /\ data[k] # Absent
    /\ \E c \in ReadFrom(data, k, "data") : gotData' = [gotData EXCEPT ![p] = c]
    /\ key' = [key EXCEPT ![p] = k]
    /\ Goto(p, "readmeta")
    /\ alone' = IF Changers(k) = {} THEN alone \cup {p} ELSE alone
    /\ UNCHANGED <<fileVars, value, gotType, settled, mixed>>

\* blob.go looks for words in the text of the metadata, the file name
\* included: every other kind of image is a JPEG, and what is no image has no
\* content type.
ParsedType(words) ==
    IF "image/" \notin words THEN ""
    ELSE IF "png" \in words THEN "image/png"
    ELSE IF "gif" \in words THEN "image/gif" ELSE "image/jpeg"

\* cmd/blobonly decodes the metadata instead, which fails if it was written by
\* blob.go and needed to be escaped.
DecodedTypes(v) ==
    {ContentType[v]} \cup {t \in {""} : "escape" \in Words[v]}

MutTypesIn(p, c) ==
    IF c \in Values THEN IF p \in Tools THEN DecodedTypes(c) ELSE {"image/jpeg"} ELSE {""}

\* The words may be found in a torn file; decoding it fails.
TypesIn(p, c) ==
    IF c \in Values THEN IF p \in Tools THEN DecodedTypes(c) ELSE {ParsedType(Words[c])}
    ELSE IF c = Torn /\ p \notin Tools THEN {ParsedType(w) : w \in SUBSET Marks} ELSE {""}

ReadMeta(p) ==
    /\ pc[p] = "readmeta"
    /\ \E c \in ReadFrom(meta, key[p], "meta") : \E t \in TypesIn(p, c) :
          gotType' = [gotType EXCEPT ![p] = t]
    /\ Goto(p, "read")
    /\ UNCHANGED <<fileVars, key, value, gotData, history>>

Return(p) ==
    /\ pc[p] = "read"
    /\ gotData' = [gotData EXCEPT ![p] = Absent]
    /\ gotType' = [gotType EXCEPT ![p] = ""]
    /\ Goto(p, "idle")
    /\ alone' = alone \ {p}
    /\ UNCHANGED <<fileVars, key, value, settled, mixed>>

-----------------------------------------------------------------------------
\* A call ends early: WriteFile returns an error (and Store with it), or the
\* process dies.  A file being written keeps what has been written.
Interrupt(p) ==
    /\ pc[p] \in Changing
    /\ data' \in IF pc[p] = "data" THEN PartOf(data, p) ELSE {data}
    /\ meta' \in IF pc[p] = "meta" THEN PartOf(meta, p) ELSE {meta}
    /\ linked' = linked \ {p}
    /\ Goto(p, "idle")
    /\ alone' = alone \ {p}
    /\ UNCHANGED <<key, value, gotData, gotType, settled, mixed>>

\* The calls of a goroutine, or the commands put, get and del of blobonly.
Call(p) ==
    \/ \E k \in Keys : DeleteMeta(p, k) \/ ReadData(p, k) \/ \E v \in Values : StoreOpen(p, k, v)
    \/ StoreData(p) \/ StoreOpenMeta(p) \/ StoreMeta(p)
    \/ DeleteData(p) \/ ReadMeta(p) \/ Return(p)

Next == \E p \in Procs : Call(p) \/ Interrupt(p)

Spec == Init /\ [][Next]_vars

-----------------------------------------------------------------------------
(* Properties                                                              *)

\* A Store or Delete that runs to its end without another change of its key
\* has its whole effect: both files are of that Store, or both are gone,
\* whatever torn or stray files earlier calls and crashes had left (Store,
\* Delete).
LastChangeWhole ==
    \A k \in Keys : settled[k] # Unknown => data[k] = settled[k] /\ meta[k] = settled[k]

\* Store writes the data before the metadata and Delete removes them in the
\* opposite order, so that no crash leaves metadata without data; only
\* overlapping changes of one key can (Store, Delete).
NoStrayMetadata ==
    \A k \in Keys : k \notin mixed /\ meta[k] # Absent => data[k] # Absent

\* The content types that come back.  blob.go keeps that of a PNG, GIF or JPEG
\* whose file name contains no word it looks for; any other is replaced or
\* lost.  cmd/blobonly keeps every one that it can decode.
KeepsType(p, v) ==
    IF p \in Tools THEN "escape" \notin Words[v]
    ELSE /\ ContentType[v] \in {"image/png", "image/gif", "image/jpeg"}
         /\ Words[v] \ {"escape"} = MarksOf(ContentType[v])

\* Retrieve takes data and metadata in two reads.  If no change of the key
\* overlapped it and the last one was complete, it returns the data that was
\* stored last, and the content type that was stored with it, where the reader
\* keeps that type at all (Retrieve).
RetrieveReturnsStored ==
    \A p \in Procs :
        pc[p] = "read" /\ p \in alone /\ settled[key[p]] # Unknown =>
            /\ gotData[p] = settled[key[p]]
            /\ KeepsType(p, gotData[p]) => gotType[p] = ContentType[gotData[p]]
=============================================================================
