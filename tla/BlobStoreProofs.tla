--------------------------- MODULE BlobStoreProofs ---------------------------
(***************************************************************************)
(* The file based blob store keeps its promises for any number of          *)
(* processes, keys and values.                                             *)
(***************************************************************************)
EXTENDS BlobStore, TLAPS

ChangesKey(q, k) == pc[q] \in Changing /\ key[q] = k

\* Nobody else changes the key of a caller that is alone.
AloneAt(p) == pc[p] # "idle" /\ \A q \in Procs : ChangesKey(q, key[p]) => q = p

\* How far a change that is alone has come.
StageAt(p) ==
    /\ pc[p] = "data" => p \in linked /\ data[key[p]] = Empty
    /\ pc[p] = "openmeta" => data[key[p]] = value[p]
    /\ pc[p] = "meta" => p \in linked /\ data[key[p]] = value[p] /\ meta[key[p]] = Empty
    /\ pc[p] = "remove" => meta[key[p]] = Absent

\* The content type that was read is the one that was stored, if it can be.
TypeKept(p) == KeepsType(p, gotData[p]) => gotType[p] = ContentType[gotData[p]]

\* What a retrieval that is alone has read.
ReaderAt(p) ==
    pc[p] \in {"readmeta", "read"} =>
        /\ gotData[p] # Absent
        /\ settled[key[p]] # Unknown =>
              /\ gotData[p] = settled[key[p]]
              /\ pc[p] = "read" => TypeKept(p)

\* Nobody changes a settled key, whose files are what it was settled with.
SettledAt(k) ==
    settled[k] # Unknown =>
        /\ \A q \in Procs : ~ ChangesKey(q, k)
        /\ data[k] = settled[k] /\ meta[k] = settled[k]

\* A key without overlapping changes has one change at a time, and the order
\* of its steps keeps the data file as long as there is metadata.
OneChangeAt(k) ==
    k \notin mixed => \A p, q \in Procs : ChangesKey(p, k) /\ ChangesKey(q, k) => p = q

OrderAt(k) ==
    k \notin mixed =>
        /\ meta[k] # Absent => data[k] # Absent
        /\ \A p \in Procs : ChangesKey(p, k) =>
              IF pc[p] = "remove" THEN meta[k] = Absent ELSE data[k] # Absent

BlobInv ==
    /\ TypeOK
    /\ \A p \in alone : AloneAt(p) /\ StageAt(p) /\ ReaderAt(p)
    /\ \A k \in Keys : SettledAt(k) /\ OneChangeAt(k) /\ OrderAt(k)

\* A step of p that concerns no key but k.
Frame(p, k) ==
    /\ key'[p] = k /\ (pc[p] # "idle" => key[p] = k)
    /\ \A q \in Procs \ {p} :
          /\ pc'[q] = pc[q] /\ key'[q] = key[q] /\ value'[q] = value[q]
          /\ gotData'[q] = gotData[q] /\ gotType'[q] = gotType[q]
          /\ key[q] # k /\ q \in linked => q \in linked'
    /\ \A j \in Keys \ {k} :
          /\ data'[j] = data[j] /\ meta'[j] = meta[j] /\ settled'[j] = settled[j]
          /\ j \in mixed' <=> j \in mixed
    /\ alone' \subseteq alone \cup {p}

USE DEF Changing, Contents

LEMMA InitInv == Init => BlobInv
<1> SUFFICES ASSUME Init PROVE BlobInv
  OBVIOUS
<1>1. (CHOOSE k \in Keys : TRUE) \in Keys /\ (CHOOSE v \in Values : TRUE) \in Values
  BY BlobConstants
<1>2. TypeOK
  BY <1>1 DEF Init, TypeOK
<1>3. \A k \in Keys : SettledAt(k) /\ OneChangeAt(k) /\ OrderAt(k)
  BY DEF Init, SettledAt, OneChangeAt, OrderAt, ChangesKey
<1> QED BY <1>2, <1>3 DEF BlobInv, Init

\* What the rest of the proof needs to know of a write: it touches one key,
\* whose file it leaves whole if it was empty, and there if it was there.
LEMMA WriteEffect ==
  ASSUME NEW file \in [Keys -> Contents], NEW new, NEW p \in Procs, key[p] \in Keys,
         value[p] \in Values, new \in WriteTo(file, p) \cup PartOf(file, p)
  PROVE  /\ new \in [Keys -> Contents]
         /\ \A k \in Keys : k # key[p] => new[k] = file[k]
         /\ file[key[p]] # Absent => new[key[p]] # Absent
         /\ p \notin linked => new = file
<1>1. PICK c \in Values \cup {Torn} : new = file \/ (p \in linked /\ new = Put(file, key[p], c))
  BY DEF WriteTo, PartOf, Written
<1> QED BY <1>1, BlobConstants DEF Put

LEMMA WholeWrite ==
  ASSUME NEW file \in [Keys -> Contents], NEW new, NEW p \in Procs, key[p] \in Keys,
         value[p] \in Values, new \in WriteTo(file, p), p \in linked, file[key[p]] = Empty
  PROVE  new[key[p]] = value[p]
BY DEF WriteTo, Written, Put

\* A file that is being written belongs to a change.
LEMMA BusyChanges ==
  ASSUME TypeOK, NEW k \in Keys, NEW place \in {"data", "meta"}, Busy(k, place)
  PROVE  \E q \in Procs : ChangesKey(q, k) /\ pc[q] = place
BY DEF Busy, TypeOK, ChangesKey

\* Such a step leaves the invariant alone everywhere else.
LEMMA Elsewhere ==
  ASSUME BlobInv, NEW p \in Procs, NEW k \in Keys, Frame(p, k)
  PROVE  /\ \A j \in Keys \ {k} : SettledAt(j)' /\ OneChangeAt(j)' /\ OrderAt(j)'
         /\ \A q \in alone' \ {p} : key[q] # k => AloneAt(q)' /\ StageAt(q)' /\ ReaderAt(q)'
<1>1. TypeOK
  BY DEF BlobInv
<1>2. ASSUME NEW j \in Keys \ {k}
      PROVE  SettledAt(j)' /\ OneChangeAt(j)' /\ OrderAt(j)'
  <2>1. \A q \in Procs : ChangesKey(q, j)' => ChangesKey(q, j) /\ pc'[q] = pc[q]
    BY DEF Frame, ChangesKey
  <2>2. SettledAt(j) /\ OneChangeAt(j) /\ OrderAt(j)
    BY DEF BlobInv
  <2> QED BY <2>1, <2>2 DEF Frame, SettledAt, OneChangeAt, OrderAt
<1>3. ASSUME NEW q \in alone' \ {p}, key[q] # k
      PROVE  AloneAt(q)' /\ StageAt(q)' /\ ReaderAt(q)'
  <2>1. /\ q \in alone /\ q \in Procs /\ key[q] \in Keys \ {k}
        /\ AloneAt(q) /\ StageAt(q) /\ ReaderAt(q)
    BY <1>1, <1>3 DEF Frame, BlobInv, TypeOK
  <2>2. \A r \in Procs : ChangesKey(r, key[q])' => ChangesKey(r, key[q])
    BY <2>1 DEF Frame, ChangesKey
  <2>3. AloneAt(q)'
    BY <2>1, <2>2 DEF Frame, AloneAt, ChangesKey
  <2>4. StageAt(q)'
    BY <2>1 DEF Frame, StageAt
  <2>5. ReaderAt(q)'
    BY <2>1 DEF Frame, ReaderAt, TypeKept, KeepsType
  <2> QED BY <2>3, <2>4, <2>5
<1> QED BY <1>2, <1>3

\* A step of a change, which nobody else that is alone shares its key with.
LEMMA ChangeStep ==
  ASSUME BlobInv, NEW p \in Procs, NEW k \in Keys, Frame(p, k), TypeOK',
         \A q \in alone' \ {p} : key[q] # k,
         p \in alone' => AloneAt(p)' /\ StageAt(p)' /\ ReaderAt(p)',
         SettledAt(k)', OneChangeAt(k)', OrderAt(k)'
  PROVE  BlobInv'
BY Elsewhere DEF BlobInv

LEMMA NobodyElse ==
  ASSUME BlobInv, NEW p \in Procs, ChangesKey(p, key[p])
  PROVE  \A q \in alone \ {p} : key[q] # key[p]
BY DEF BlobInv, AloneAt

LEMMA StoreDataInv ==
  ASSUME BlobInv, NEW p \in Procs, NEW k \in Keys, k = key[p], StoreData(p)
  PROVE  BlobInv'
<1>1. TypeOK /\ k \in Keys /\ value[p] \in Values /\ data \in [Keys -> Contents]
  BY DEF BlobInv, TypeOK
<1>2. /\ data' \in [Keys -> Contents]
      /\ \A j \in Keys : j # k => data'[j] = data[j]
      /\ data[k] # Absent => data'[k] # Absent
  BY <1>1, WriteEffect DEF StoreData
<1>3. p \in linked /\ data[k] = Empty => data'[k] = value[p]
  BY <1>1, WholeWrite DEF StoreData
<1>4. /\ pc[p] = "data" /\ pc'[p] = "openmeta" /\ \A q \in Procs \ {p} : pc'[q] = pc[q]
      /\ linked' = linked \ {p}
      /\ UNCHANGED <<meta, key, value, gotData, gotType, alone, settled, mixed>>
  BY <1>1 DEF StoreData, Goto, history, TypeOK
<1>5. TypeOK'
  BY <1>1, <1>2, <1>4 DEF TypeOK, StoreData, Goto
<1>6. Frame(p, k)
  BY <1>2, <1>4 DEF Frame
<1>7. \A q \in alone' \ {p} : key[q] # k
  BY <1>4, NobodyElse DEF ChangesKey
<1>8. p \in alone => AloneAt(p) /\ StageAt(p)
  BY DEF BlobInv
<1>9. p \in alone' => AloneAt(p)' /\ StageAt(p)' /\ ReaderAt(p)'
  BY <1>3, <1>4, <1>8 DEF AloneAt, StageAt, ReaderAt, ChangesKey
<1>10. SettledAt(k) /\ OneChangeAt(k) /\ OrderAt(k)
  BY <1>1 DEF BlobInv
<1>11. SettledAt(k)' /\ OneChangeAt(k)' /\ OrderAt(k)'
  BY <1>2, <1>4, <1>10 DEF SettledAt, OneChangeAt, OrderAt, ChangesKey
<1> QED BY <1>1, <1>5, <1>6, <1>7, <1>9, <1>11, ChangeStep

LEMMA StoreOpenMetaInv ==
  ASSUME BlobInv, NEW p \in Procs, NEW k \in Keys, k = key[p], StoreOpenMeta(p)
  PROVE  BlobInv'
<1>1. TypeOK
  BY DEF BlobInv
<1>2. PICK c \in Opened(meta, k, "meta") : meta' = Put(meta, k, c)
  BY DEF StoreOpenMeta
<1>3. /\ meta' \in [Keys -> Contents] /\ meta'[k] = c
       /\ \A j \in Keys : j # k => meta'[j] = meta[j]
  BY <1>1, <1>2 DEF Opened, Put, TypeOK
<1>4. c = Empty \/ \E q \in Procs : ChangesKey(q, k) /\ pc[q] = "meta"
  BY <1>1, <1>2, BusyChanges DEF Opened
<1>5. /\ pc[p] = "openmeta" /\ pc'[p] = "meta" /\ \A q \in Procs \ {p} : pc'[q] = pc[q]
      /\ linked' = linked \cup {p}
      /\ UNCHANGED <<data, key, value, gotData, gotType, alone, settled, mixed>>
  BY <1>1 DEF StoreOpenMeta, Goto, history, TypeOK
<1>6. TypeOK'
  BY <1>1, <1>3, <1>5 DEF TypeOK, StoreOpenMeta, Goto
<1>7. Frame(p, k)
  BY <1>3, <1>5 DEF Frame
<1>8. \A q \in alone' \ {p} : key[q] # k
  BY <1>5, NobodyElse DEF ChangesKey
<1>9. p \in alone => AloneAt(p) /\ StageAt(p)
  BY DEF BlobInv
<1>10. p \in alone' => AloneAt(p)' /\ StageAt(p)' /\ ReaderAt(p)'
  BY <1>3, <1>4, <1>5, <1>9 DEF AloneAt, StageAt, ReaderAt, ChangesKey
<1>11. SettledAt(k) /\ OneChangeAt(k) /\ OrderAt(k)
  BY DEF BlobInv
<1>12. SettledAt(k)' /\ OneChangeAt(k)' /\ OrderAt(k)'
  BY <1>3, <1>5, <1>11 DEF SettledAt, OneChangeAt, OrderAt, ChangesKey
<1> QED BY <1>6, <1>7, <1>8, <1>10, <1>12, ChangeStep

LEMMA StoreMetaInv ==
  ASSUME BlobInv, NEW p \in Procs, NEW k \in Keys, k = key[p], StoreMeta(p)
  PROVE  BlobInv'
<1>1. TypeOK /\ value[p] \in Values /\ meta \in [Keys -> Contents]
  BY DEF BlobInv, TypeOK
<1>2. /\ meta' \in [Keys -> Contents]
      /\ \A j \in Keys : j # k => meta'[j] = meta[j]
  BY <1>1, WriteEffect DEF StoreMeta
<1>3. p \in linked /\ meta[k] = Empty => meta'[k] = value[p]
  BY <1>1, WholeWrite DEF StoreMeta
<1>4. /\ pc[p] = "meta" /\ pc'[p] = "idle" /\ \A q \in Procs \ {p} : pc'[q] = pc[q]
      /\ linked' = linked \ {p} /\ alone' = alone \ {p}
      /\ settled'[k] = IF p \in alone THEN value[p] ELSE Unknown
      /\ \A j \in Keys \ {k} : settled'[j] = settled[j]
      /\ mixed' = IF p \in alone THEN mixed \ {k} ELSE mixed
      /\ UNCHANGED <<data, key, value, gotData, gotType>>
  BY <1>1 DEF StoreMeta, EndChange, Goto, TypeOK
<1>5. TypeOK'
  BY <1>1, <1>2, <1>4 DEF TypeOK, StoreMeta, EndChange, Goto
<1>6. Frame(p, k)
  BY <1>2, <1>4 DEF Frame
<1>7. \A q \in alone' \ {p} : key[q] # k
  BY <1>4, NobodyElse DEF ChangesKey
<1>8. p \in alone => AloneAt(p) /\ StageAt(p)
  BY DEF BlobInv
<1>9. SettledAt(k) /\ OneChangeAt(k) /\ OrderAt(k)
  BY DEF BlobInv
<1>10. CASE p \in alone
  <2>1. /\ \A q \in Procs : ~ ChangesKey(q, k)'
        /\ data'[k] = value[p] /\ meta'[k] = value[p] /\ settled'[k] = value[p]
    BY <1>3, <1>4, <1>8, <1>10 DEF AloneAt, StageAt, ChangesKey
  <2>2. value[p] # Absent
    BY <1>1, BlobConstants
  <2>3. SettledAt(k)' /\ OneChangeAt(k)' /\ OrderAt(k)'
    BY <2>1, <2>2 DEF SettledAt, OneChangeAt, OrderAt
  <2> QED BY <1>4, <1>5, <1>6, <1>7, <2>3, ChangeStep
<1>11. CASE p \notin alone
  <2>1. SettledAt(k)' /\ OneChangeAt(k)' /\ OrderAt(k)'
    BY <1>4, <1>9, <1>11 DEF SettledAt, OneChangeAt, OrderAt, ChangesKey
  <2> QED BY <1>4, <1>5, <1>6, <1>7, <2>1, ChangeStep
<1> QED BY <1>10, <1>11

LEMMA DeleteDataInv ==
  ASSUME BlobInv, NEW p \in Procs, NEW k \in Keys, k = key[p], DeleteData(p)
  PROVE  BlobInv'
<1>1. TypeOK
  BY DEF BlobInv
<1>2. /\ data' \in [Keys -> Contents] /\ data'[k] = Absent
      /\ \A j \in Keys : j # k => data'[j] = data[j]
  BY <1>1 DEF DeleteData, Put, TypeOK
<1>3. /\ pc[p] = "remove" /\ pc'[p] = "idle" /\ \A q \in Procs \ {p} : pc'[q] = pc[q]
      /\ linked' \subseteq linked /\ \A q \in linked : key[q] # k => q \in linked'
      /\ alone' = alone \ {p}
      /\ settled'[k] = IF p \in alone THEN Absent ELSE Unknown
      /\ \A j \in Keys \ {k} : settled'[j] = settled[j]
      /\ mixed' = IF p \in alone THEN mixed \ {k} ELSE mixed
      /\ UNCHANGED <<meta, key, value, gotData, gotType>>
  BY <1>1 DEF DeleteData, EndChange, Unlink, Goto, TypeOK
<1>4. TypeOK'
  BY <1>1, <1>2, <1>3 DEF TypeOK, DeleteData, EndChange, Goto
<1>5. Frame(p, k)
  BY <1>1, <1>2, <1>3 DEF Frame, TypeOK
<1>6. \A q \in alone' \ {p} : key[q] # k
  BY <1>3, NobodyElse DEF ChangesKey
<1>7. p \in alone => AloneAt(p) /\ StageAt(p)
  BY DEF BlobInv
<1>8. SettledAt(k) /\ OneChangeAt(k) /\ OrderAt(k)
  BY DEF BlobInv
<1>9. CASE p \in alone
  <2>1. /\ \A q \in Procs : ~ ChangesKey(q, k)'
        /\ data'[k] = Absent /\ meta'[k] = Absent /\ settled'[k] = Absent
    BY <1>2, <1>3, <1>7, <1>9 DEF AloneAt, StageAt, ChangesKey
  <2>2. SettledAt(k)' /\ OneChangeAt(k)' /\ OrderAt(k)'
    BY <2>1 DEF SettledAt, OneChangeAt, OrderAt
  <2> QED BY <1>3, <1>4, <1>5, <1>6, <2>2, ChangeStep
<1>10. CASE p \notin alone
  <2>1. SettledAt(k)' /\ OneChangeAt(k)' /\ OrderAt(k)'
    BY <1>2, <1>3, <1>8, <1>10 DEF SettledAt, OneChangeAt, OrderAt, ChangesKey
  <2> QED BY <1>3, <1>4, <1>5, <1>6, <2>1, ChangeStep
<1> QED BY <1>9, <1>10

\* What a change does to the history when it begins.
LEMMA Begins ==
  ASSUME BlobInv, NEW p \in Procs, NEW k \in Keys, pc[p] = "idle", BeginChange(p, k)
  PROVE  /\ \A q \in alone' \ {p} : q \in alone /\ key[q] # k
         /\ p \in alone' => \A q \in Procs : ~ ChangesKey(q, k)
         /\ alone' \subseteq alone \cup {p} /\ alone' \subseteq Procs
         /\ settled' \in [Keys -> Values \cup {Absent, Unknown}] /\ mixed' \subseteq Keys
         /\ settled'[k] = Unknown
         /\ \A j \in Keys \ {k} : settled'[j] = settled[j] /\ (j \in mixed' <=> j \in mixed)
         /\ k \notin mixed' => k \notin mixed /\ \A q \in Procs : ~ ChangesKey(q, k)
<1>1. TypeOK /\ \A q \in alone : AloneAt(q)
  BY DEF BlobInv
<1>2. p \notin alone
  BY <1>1 DEF AloneAt
<1>3. \A q \in alone' \ {p} : q \in alone /\ key[q] # k
  BY <1>1 DEF BeginChange, Callers, AloneAt, TypeOK
<1>4. Changers(k) = {} <=> \A q \in Procs : ~ ChangesKey(q, k)
  BY DEF Changers, ChangesKey
<1>5. p \in alone' => Changers(k) = {}
  BY <1>2 DEF BeginChange
<1>6. alone' \subseteq alone \cup {p} /\ alone' \subseteq Procs /\ mixed' \subseteq Keys
  BY <1>1 DEF BeginChange, TypeOK
<1>7. /\ settled' \in [Keys -> Values \cup {Absent, Unknown}] /\ settled'[k] = Unknown
      /\ \A j \in Keys \ {k} : settled'[j] = settled[j] /\ (j \in mixed' <=> j \in mixed)
  BY <1>1 DEF BeginChange, TypeOK
<1>8. k \notin mixed' => k \notin mixed /\ Changers(k) = {}
  BY DEF BeginChange
<1> QED BY <1>3, <1>4, <1>5, <1>6, <1>7, <1>8

LEMMA StoreOpenInv ==
  ASSUME BlobInv, NEW p \in Procs, NEW k \in Keys, NEW v \in Values, StoreOpen(p, k, v)
  PROVE  BlobInv'
<1>1. TypeOK
  BY DEF BlobInv
<1>2. PICK c \in Opened(data, k, "data") : data' = Put(data, k, c)
  BY DEF StoreOpen
<1>3. /\ data' \in [Keys -> Contents] /\ data'[k] = c /\ c # Absent
       /\ \A j \in Keys : j # k => data'[j] = data[j]
  BY <1>1, <1>2, BlobConstants DEF Opened, Put, TypeOK
<1>4. (\A q \in Procs : ~ ChangesKey(q, k)) => c = Empty
  BY <1>1, <1>2, BusyChanges DEF Opened
<1>5. /\ pc[p] = "idle" /\ pc'[p] = "data" /\ key'[p] = k /\ value'[p] = v
      /\ \A q \in Procs \ {p} : pc'[q] = pc[q] /\ key'[q] = key[q] /\ value'[q] = value[q]
      /\ linked' = linked \cup {p}
      /\ UNCHANGED <<meta, gotData, gotType>>
  BY <1>1 DEF StoreOpen, Goto, TypeOK
<1>6. /\ \A q \in alone' \ {p} : q \in alone /\ key[q] # k
      /\ p \in alone' => \A q \in Procs : ~ ChangesKey(q, k)
      /\ alone' \subseteq alone \cup {p} /\ alone' \subseteq Procs
      /\ settled' \in [Keys -> Values \cup {Absent, Unknown}] /\ mixed' \subseteq Keys
      /\ settled'[k] = Unknown
      /\ \A j \in Keys \ {k} : settled'[j] = settled[j] /\ (j \in mixed' <=> j \in mixed)
      /\ k \notin mixed' => k \notin mixed /\ \A q \in Procs : ~ ChangesKey(q, k)
  <2> HIDE DEF Changing, Contents
  <2> QED BY Begins DEF StoreOpen
<1>7. TypeOK'
  BY <1>1, <1>3, <1>5, <1>6 DEF TypeOK, StoreOpen, Goto
<1>8. Frame(p, k)
  BY <1>3, <1>5, <1>6 DEF Frame
<1>9. p \in alone' => AloneAt(p)' /\ StageAt(p)' /\ ReaderAt(p)'
  BY <1>3, <1>4, <1>5, <1>6 DEF AloneAt, StageAt, ReaderAt, ChangesKey
<1>10. SettledAt(k)'
  BY <1>6 DEF SettledAt
<1>11. OneChangeAt(k)' /\ OrderAt(k)'
  BY <1>3, <1>5, <1>6 DEF OneChangeAt, OrderAt, ChangesKey
<1> QED BY <1>6, <1>7, <1>8, <1>9, <1>10, <1>11, ChangeStep

LEMMA DeleteMetaInv ==
  ASSUME BlobInv, NEW p \in Procs, NEW k \in Keys, DeleteMeta(p, k)
  PROVE  BlobInv'
<1>1. TypeOK
  BY DEF BlobInv
<1>2. /\ meta' \in [Keys -> Contents] /\ meta'[k] = Absent
      /\ \A j \in Keys : j # k => meta'[j] = meta[j]
  BY <1>1 DEF DeleteMeta, Put, TypeOK
<1>3. /\ pc[p] = "idle" /\ pc'[p] = "remove" /\ key'[p] = k
      /\ \A q \in Procs \ {p} : pc'[q] = pc[q] /\ key'[q] = key[q]
      /\ linked' \subseteq linked /\ \A q \in linked : key[q] # k => q \in linked'
      /\ UNCHANGED <<data, value, gotData, gotType>>
  BY <1>1 DEF DeleteMeta, Unlink, Goto, TypeOK
<1>4. /\ \A q \in alone' \ {p} : q \in alone /\ key[q] # k
      /\ p \in alone' => \A q \in Procs : ~ ChangesKey(q, k)
      /\ alone' \subseteq alone \cup {p} /\ alone' \subseteq Procs
      /\ settled' \in [Keys -> Values \cup {Absent, Unknown}] /\ mixed' \subseteq Keys
      /\ settled'[k] = Unknown
      /\ \A j \in Keys \ {k} : settled'[j] = settled[j] /\ (j \in mixed' <=> j \in mixed)
      /\ k \notin mixed' => k \notin mixed /\ \A q \in Procs : ~ ChangesKey(q, k)
  <2> HIDE DEF Changing, Contents
  <2> QED BY Begins DEF DeleteMeta
<1>5. TypeOK'
  BY <1>1, <1>2, <1>3, <1>4 DEF TypeOK, DeleteMeta, Goto
<1>6. Frame(p, k)
  BY <1>1, <1>2, <1>3, <1>4 DEF Frame, TypeOK
<1>7. p \in alone' => AloneAt(p)' /\ StageAt(p)' /\ ReaderAt(p)'
  BY <1>2, <1>3, <1>4 DEF AloneAt, StageAt, ReaderAt, ChangesKey
<1>8. SettledAt(k)'
  BY <1>4 DEF SettledAt
<1>9. OneChangeAt(k)' /\ OrderAt(k)'
  BY <1>2, <1>3, <1>4 DEF OneChangeAt, OrderAt, ChangesKey
<1> QED BY <1>4, <1>5, <1>6, <1>7, <1>8, <1>9, ChangeStep

LEMMA InterruptInv ==
  ASSUME BlobInv, NEW p \in Procs, NEW k \in Keys, k = key[p], Interrupt(p)
  PROVE  BlobInv'
<1>1. TypeOK /\ value[p] \in Values /\ data \in [Keys -> Contents] /\ meta \in [Keys -> Contents]
  BY DEF BlobInv, TypeOK
<1>2. /\ data' \in [Keys -> Contents]
      /\ \A j \in Keys : j # k => data'[j] = data[j]
      /\ data[k] # Absent => data'[k] # Absent
  <2>1. CASE data' \in PartOf(data, p)
    BY <1>1, <2>1, WriteEffect
  <2>2. CASE data' = data
    BY <1>1, <2>2
  <2> QED BY <2>1, <2>2 DEF Interrupt
<1>3. /\ meta' \in [Keys -> Contents]
      /\ \A j \in Keys : j # k => meta'[j] = meta[j]
      /\ pc[p] # "meta" => meta' = meta
  <2>1. CASE meta' \in PartOf(meta, p) /\ pc[p] = "meta"
    BY <1>1, <2>1, WriteEffect
  <2>2. CASE meta' = meta
    BY <1>1, <2>2
  <2> QED BY <2>1, <2>2 DEF Interrupt
<1>4. /\ pc[p] \in Changing /\ pc'[p] = "idle" /\ \A q \in Procs \ {p} : pc'[q] = pc[q]
      /\ linked' = linked \ {p} /\ alone' = alone \ {p}
      /\ pc[p] # "data" => data' = data
      /\ UNCHANGED <<key, value, gotData, gotType, settled, mixed>>
  BY <1>1 DEF Interrupt, Goto, TypeOK
<1>5. TypeOK'
  BY <1>1, <1>2, <1>3, <1>4 DEF TypeOK, Interrupt, Goto
<1>6. Frame(p, k)
  BY <1>2, <1>3, <1>4 DEF Frame
<1>7. \A q \in alone' \ {p} : key[q] # k
  BY <1>4, NobodyElse DEF ChangesKey
<1>8. SettledAt(k) /\ OneChangeAt(k) /\ OrderAt(k)
  BY DEF BlobInv
<1>9. SettledAt(k)' /\ OneChangeAt(k)'
  BY <1>4, <1>8 DEF SettledAt, OneChangeAt, ChangesKey
<1>10. OrderAt(k)'
  BY <1>2, <1>3, <1>4, <1>8 DEF OneChangeAt, OrderAt, ChangesKey
<1> QED BY <1>4, <1>5, <1>6, <1>7, <1>9, <1>10, ChangeStep

\* A step of a retrieval, which leaves the files alone.
LEMMA ReaderStep ==
  ASSUME BlobInv, NEW p \in Procs, TypeOK',
         pc[p] \notin Changing, pc'[p] \notin Changing,
         \A q \in Procs \ {p} :
            /\ pc'[q] = pc[q] /\ key'[q] = key[q]
            /\ gotData'[q] = gotData[q] /\ gotType'[q] = gotType[q],
         UNCHANGED <<data, meta, linked, value, settled, mixed>>,
         alone' \subseteq alone \cup {p},
         p \in alone' => AloneAt(p)' /\ ReaderAt(p)'
  PROVE  BlobInv'
<1>1. TypeOK
  BY DEF BlobInv
<1>2. \A q \in Procs, k \in Keys : ChangesKey(q, k)' <=> ChangesKey(q, k)
  BY DEF ChangesKey
<1>3. ASSUME NEW k \in Keys PROVE SettledAt(k)' /\ OneChangeAt(k)' /\ OrderAt(k)'
  <2>1. SettledAt(k) /\ OneChangeAt(k) /\ OrderAt(k)
    BY DEF BlobInv
  <2>2. \A q \in Procs : ChangesKey(q, k)' => ChangesKey(q, k) /\ pc'[q] = pc[q]
    BY DEF ChangesKey
  <2> QED BY <2>1, <2>2 DEF SettledAt, OneChangeAt, OrderAt
<1>4. ASSUME NEW q \in alone', q # p PROVE AloneAt(q)' /\ StageAt(q)' /\ ReaderAt(q)'
  <2>1. q \in alone /\ q \in Procs /\ key[q] \in Keys /\ AloneAt(q) /\ StageAt(q) /\ ReaderAt(q)
    BY <1>1, <1>4 DEF BlobInv, TypeOK
  <2>2. AloneAt(q)'
    BY <1>2, <1>4, <2>1 DEF AloneAt
  <2>3. StageAt(q)'
    BY <1>4, <2>1 DEF StageAt
  <2>4. ReaderAt(q)'
    BY <1>4, <2>1 DEF ReaderAt, TypeKept, KeepsType
  <2> QED BY <2>2, <2>3, <2>4
<1>5. StageAt(p)'
  BY DEF StageAt
<1> QED BY <1>3, <1>4, <1>5 DEF BlobInv

\* What a read gives, if the place is one where a process changes the file.
LEMMA ReadEffect ==
  ASSUME TypeOK, NEW file \in [Keys -> Contents], NEW k \in Keys, NEW place \in {"data", "meta"},
         NEW c \in ReadFrom(file, k, place)
  PROVE  /\ c \in Contents /\ (file[k] # Absent => c # Absent)
         /\ (\A q \in Procs : ~ ChangesKey(q, k)) => c = file[k]
<1>1. c = file[k] \/ (c = Torn /\ Busy(k, place))
  BY DEF ReadFrom
<1> QED BY <1>1, BusyChanges, BlobConstants

LEMMA ReadDataInv ==
  ASSUME BlobInv, NEW p \in Procs, NEW k \in Keys, ReadData(p, k)
  PROVE  BlobInv'
<1>1. TypeOK
  BY DEF BlobInv
<1>2. PICK c \in ReadFrom(data, k, "data") : gotData' = [gotData EXCEPT ![p] = c]
  BY DEF ReadData
<1>3. /\ c \in Contents /\ c # Absent
      /\ (\A q \in Procs : ~ ChangesKey(q, k)) => c = data[k]
  BY <1>1, ReadEffect DEF ReadData, TypeOK
<1>4. /\ pc[p] = "idle" /\ pc'[p] = "readmeta" /\ key'[p] = k /\ gotData'[p] = c
      /\ \A q \in Procs \ {p} : pc'[q] = pc[q] /\ key'[q] = key[q] /\ gotData'[q] = gotData[q]
      /\ alone' \subseteq alone \cup {p}
      /\ UNCHANGED <<data, meta, linked, value, gotType, settled, mixed>>
  BY <1>1, <1>2 DEF ReadData, Goto, fileVars, TypeOK
<1>5. TypeOK'
  BY <1>1, <1>2, <1>3, <1>4 DEF TypeOK, ReadData, Goto
<1>6. p \notin alone
  BY <1>4 DEF BlobInv, AloneAt
<1>7. p \in alone' => \A q \in Procs : ~ ChangesKey(q, k)
  BY <1>6 DEF ReadData, Changers, ChangesKey
<1>8. SettledAt(k)
  BY DEF BlobInv
<1>9. p \in alone' => AloneAt(p)' /\ ReaderAt(p)'
  BY <1>3, <1>4, <1>7, <1>8 DEF AloneAt, ReaderAt, SettledAt, ChangesKey
<1> QED BY <1>4, <1>5, <1>9, ReaderStep

\* blob.go finds the type of a PNG, GIF or JPEG, if no other words are there.
LEMMA KeptIsParsed ==
  ASSUME NEW t \in {"image/png", "image/gif", "image/jpeg"}, NEW words,
         words \ {"escape"} = MarksOf(t)
  PROVE  ParsedType(words) = t
<1>1. \A m : m \in words /\ m # "escape" <=> m \in MarksOf(t)
  OBVIOUS
<1>2. /\ "image/" \in words
      /\ "png" \in words <=> t = "image/png"
      /\ "gif" \in words <=> t = "image/gif"
  BY <1>1 DEF MarksOf, Marks, Images, ContentTypes
<1> QED BY <1>2 DEF ParsedType

LEMMA ReadMetaInv ==
  ASSUME BlobInv, NEW p \in Procs, NEW k \in Keys, k = key[p], ReadMeta(p)
  PROVE  BlobInv'
<1>1. TypeOK
  BY DEF BlobInv
<1>2. PICK c \in ReadFrom(meta, k, "meta") : \E t \in TypesIn(p, c) : gotType' = [gotType EXCEPT ![p] = t]
  BY DEF ReadMeta
<1>3. PICK t \in TypesIn(p, c) : gotType' = [gotType EXCEPT ![p] = t]
  BY <1>2
<1>4. c \in Contents /\ ((\A q \in Procs : ~ ChangesKey(q, k)) => c = meta[k])
  BY <1>1, ReadEffect DEF TypeOK
<1>5. /\ t \in ContentTypes \cup {""}
      /\ c \in Values /\ KeepsType(p, c) => t = ContentType[c]
  <2>1. \A w : ParsedType(w) \in ContentTypes \cup {""}
    BY DEF ParsedType, ContentTypes
  <2>2. CASE c \in Values /\ p \in Tools
    <3>1. t \in DecodedTypes(c) /\ ContentType[c] \in ContentTypes
      BY <1>3, <2>2, BlobConstants DEF TypesIn
    <3>2. t = ContentType[c] \/ (t = "" /\ "escape" \in Words[c])
      BY <3>1 DEF DecodedTypes
    <3> QED BY <2>2, <3>1, <3>2 DEF KeepsType
  <2>3. CASE c \in Values /\ p \notin Tools
    <3>1. t = ParsedType(Words[c])
      BY <1>3, <2>3 DEF TypesIn
    <3>2. KeepsType(p, c) => ParsedType(Words[c]) = ContentType[c]
      BY <2>3, KeptIsParsed DEF KeepsType
    <3> QED BY <2>1, <3>1, <3>2
  <2>4. CASE c \notin Values
    BY <2>1, <2>4, <1>3 DEF TypesIn
  <2> QED BY <2>2, <2>3, <2>4
<1>6. /\ pc[p] = "readmeta" /\ pc'[p] = "read" /\ gotType'[p] = t
      /\ \A q \in Procs \ {p} : pc'[q] = pc[q] /\ gotType'[q] = gotType[q]
      /\ UNCHANGED <<data, meta, linked, key, value, gotData, alone, settled, mixed>>
  BY <1>1, <1>3 DEF ReadMeta, Goto, fileVars, history, TypeOK
<1>7. TypeOK'
  BY <1>1, <1>3, <1>5, <1>6 DEF TypeOK, ReadMeta, Goto
<1>8. p \in alone => AloneAt(p) /\ ReaderAt(p)
  BY DEF BlobInv
<1>9. SettledAt(k)
  BY DEF BlobInv
<1>10. AloneAt(p) => AloneAt(p)'
  BY <1>6 DEF AloneAt, ChangesKey
<1>11. ReaderAt(p) => ReaderAt(p)'
  <2>1. CASE settled[k] = Unknown
    BY <1>6, <2>1 DEF ReaderAt
  <2>2. CASE settled[k] # Unknown
    <3> SUFFICES ASSUME ReaderAt(p) PROVE ReaderAt(p)'
      OBVIOUS
    <3>1. gotData[p] # Absent /\ gotData[p] = settled[k]
      BY <1>6, <2>2 DEF ReaderAt
    <3>2. settled[k] \in Values
      BY <1>1, <2>2, <3>1 DEF TypeOK
    <3>3. c = settled[k]
      BY <1>4, <1>9, <2>2 DEF SettledAt
    <3>4. KeepsType(p, gotData[p]) => t = ContentType[gotData[p]]
      BY <1>5, <3>1, <3>2, <3>3
    <3> QED BY <1>6, <3>1, <3>4 DEF ReaderAt, TypeKept, KeepsType
  <2> QED BY <2>1, <2>2
<1>12. p \in alone' => AloneAt(p)' /\ ReaderAt(p)'
  BY <1>6, <1>8, <1>10, <1>11
<1> QED BY <1>6, <1>7, <1>12, ReaderStep

LEMMA ReturnInv ==
  ASSUME BlobInv, NEW p \in Procs, Return(p)
  PROVE  BlobInv'
<1>1. TypeOK
  BY DEF BlobInv
<1>2. /\ pc[p] = "read" /\ pc'[p] = "idle" /\ alone' = alone \ {p}
      /\ \A q \in Procs \ {p} :
            pc'[q] = pc[q] /\ gotData'[q] = gotData[q] /\ gotType'[q] = gotType[q]
      /\ UNCHANGED <<data, meta, linked, key, value, settled, mixed>>
  BY <1>1 DEF Return, Goto, fileVars, TypeOK
<1>3. TypeOK'
  BY <1>1, <1>2 DEF TypeOK, Return, Goto
<1> QED BY <1>2, <1>3, ReaderStep

LEMMA StepInv == BlobInv /\ [Next]_vars => BlobInv'
<1> SUFFICES ASSUME BlobInv, [Next]_vars PROVE BlobInv'
  OBVIOUS
<1>1. TypeOK
  BY DEF BlobInv
<1>2. CASE UNCHANGED vars
  <2>1. UNCHANGED <<data, meta, linked, pc, key, value, gotData, gotType, alone, settled, mixed>>
    BY <1>2 DEF vars, fileVars, callVars, history
  <2>2. TypeOK'
    BY <1>1, <2>1 DEF TypeOK
  <2>3. \A p \in alone' : AloneAt(p)' /\ StageAt(p)' /\ ReaderAt(p)'
    BY <2>1 DEF BlobInv, AloneAt, StageAt, ReaderAt, ChangesKey, TypeKept, KeepsType
  <2>4. \A k \in Keys : SettledAt(k)' /\ OneChangeAt(k)' /\ OrderAt(k)'
    BY <2>1 DEF BlobInv, SettledAt, OneChangeAt, OrderAt, ChangesKey
  <2> QED BY <2>2, <2>3, <2>4 DEF BlobInv
<1>3. ASSUME NEW p \in Procs, Call(p) \/ Interrupt(p) PROVE BlobInv'
  <2> key[p] \in Keys
    BY <1>1 DEF TypeOK
  <2>1. CASE \E k \in Keys : DeleteMeta(p, k) \/ ReadData(p, k) \/ \E v \in Values : StoreOpen(p, k, v)
    BY <2>1, DeleteMetaInv, ReadDataInv, StoreOpenInv
  <2>2. CASE StoreData(p) \/ StoreOpenMeta(p) \/ StoreMeta(p)
    BY <2>2, StoreDataInv, StoreOpenMetaInv, StoreMetaInv
  <2>3. CASE DeleteData(p) \/ ReadMeta(p) \/ Return(p) \/ Interrupt(p)
    BY <2>3, DeleteDataInv, ReadMetaInv, ReturnInv, InterruptInv
  <2> QED BY <1>3, <2>1, <2>2, <2>3 DEF Call
<1> QED BY <1>2, <1>3 DEF Next

\* It implies the properties.
LEMMA InvSafe ==
  BlobInv => TypeOK /\ LastChangeWhole /\ NoStrayMetadata /\ RetrieveReturnsStored
<1> SUFFICES ASSUME BlobInv
             PROVE  TypeOK /\ LastChangeWhole /\ NoStrayMetadata /\ RetrieveReturnsStored
  OBVIOUS
<1>1. LastChangeWhole
  BY DEF BlobInv, SettledAt, LastChangeWhole
<1>2. NoStrayMetadata
  BY DEF BlobInv, OrderAt, NoStrayMetadata
<1>3. RetrieveReturnsStored
  BY DEF BlobInv, ReaderAt, TypeKept, RetrieveReturnsStored
<1> QED BY <1>1, <1>2, <1>3 DEF BlobInv

\* It holds always.
LEMMA BlobAlways == Spec => []BlobInv
BY InitInv, StepInv, PTL DEF Spec

\* The files, the calls and the history stay well formed, whatever the calls and
\* crashes of any number of processes.
THEOREM BlobTypes == Spec => []TypeOK
BY BlobAlways, InvSafe, PTL

\* A Store or Delete that no other change of its key overlaps has its whole
\* effect, whatever crashes left behind before.
THEOREM ChangesAreWhole == Spec => []LastChangeWhole
BY BlobAlways, InvSafe, PTL

\* No crash of Store or Delete leaves metadata without data: the order of their
\* two writes, and of their two removals, sees to it.
THEOREM MetadataHasData == Spec => []NoStrayMetadata
BY BlobAlways, InvSafe, PTL

\* A Retrieve that no change overlaps returns the data of the last Store, and its
\* content type too if it is one that the reader keeps: for blob.go a PNG, GIF or
\* JPEG with a file name that contains none of its words, for cmd/blobonly any
\* whose metadata it can decode.
THEOREM RetrieveIsConsistent == Spec => []RetrieveReturnsStored
BY BlobAlways, InvSafe, PTL
=============================================================================
