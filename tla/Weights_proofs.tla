--------------------------- MODULE Weights_proofs ---------------------------
(***************************************************************************)
(* How a model's weights are stored and got back.                          *)
(*                                                                         *)
(* OffloadStore serves a model from its own bytes and leaves a published   *)
(* one alone, for every checkpoint, every batch size and any number of     *)
(* crashes. The invariant is in four groups, each proved on its own:       *)
(* types and ids; what entries name; where index and file agree; and what  *)
(* a start can rely on.                                                    *)
(*                                                                         *)
(* BitPlanes: the three sections of a packed tensor determine its indices, *)
(* for every length and all indices; and what is looked up is accounted    *)
(* for byte by byte, for any number of chunks and every size of the warps. *)
(***************************************************************************)
EXTENDS OffloadStore, BitPlanes, FiniteSetTheorems, WellFoundedInduction, TLAPS

Looping == {"create", "insert", "append", "serialize"}
Storing == {"insert", "append", "serialize"}

\* An id is the tensor's place, in each start anew; what waits has its id already.
IdsAgree ==
  /\ paramId = next - 1
  /\ \A t \in Tensors : t < next => nameId[t] = t - 1
  /\ \A t \in batch \cup todo : t < next
  /\ pc \in Storing => batch = {}
  /\ pc \notin {"insert", "append", "aborted"} => todo = {}
  /\ pc = "create" /\ next > NumTensors => batch = {}
TypeInv == TypeOK /\ IdsAgree

\* What a process that creates the model has loaded or written.
OnFile == IF indexFile.there THEN indexFile.entries ELSE Nothing
Published ==
  /\ pc \in {"create", "insert"} => index = OnFile
  /\ pc = "create" /\ batch = {} /\ next > 1 => indexFile.there
  /\ mapFile.state = "whole" => indexFile.there /\ pc \in {"down", "ready", "failed"}

\* Without a crash a start finds no file and stores each tensor once.
Unhurt ==
  /\ ~indexFile.whole \/ mapFile.state = "torn" \/ pc \in {"aborted", "failed"}
       => crashes > 0
  /\ crashes = 0 /\ pc = "down" => ~indexFile.there /\ mapFile.state = "none"
  /\ crashes = 0 /\ pc \in Looping => \A i \in Ids : index[i] # Absent =>
       i + 1 < next /\ i + 1 \notin batch /\ (pc \in {"create", "insert"} => i + 1 \notin todo)
  /\ \A i \in Ids : /\ indexFile.entries[i] = NoOffset => crashes > 0
                    /\ index[i] = NoOffset =>
                         crashes > 0 \/ (pc = "append" /\ i + 1 \in todo)

\* A tensor is served from its own bytes, or is dense and was cut off by a crash.
ServedAt(t, o, d, c) == \/ o \in DOMAIN d /\ d[o] = t
                        \/ o = NoOffset /\ t \notin Sparse /\ c > 0
Served(t, entries) == ServedAt(t, entries[t - 1], data, crashes)
Serving ==
  /\ pc \in Looping => \A t \in Tensors : t < next => t \in batch \cup todo \/ Served(t, index)
  /\ mapFile.state = "whole" => \A t \in Tensors :
       mapFile.ids[t] = t - 1 /\ Served(t, indexFile.entries)
  /\ pc = "ready" => \A t \in Tensors : nameId[t] = t - 1 /\ Served(t, index)

-----------------------------------------------------------------------------
\* A crash leaves no file better than it was.
LEMMA CrashFiles ==
  ASSUME DiskAfterCrash
  PROVE  /\ data' = data \/ data' = Append(data, Half)
         /\ mapFile' = mapFile
              \/ (mapFile'.state = "torn" /\ mapFile'.ids = Nameless /\ pc = "create" /\ next > NumTensors)
         /\ indexFile' = indexFile \/ (indexFile' \in CutFiles /\ pc = "serialize")
         /\ pc \in {"down", "insert", "ready", "failed", "aborted"} => UNCHANGED disk
BY DEF DiskAfterCrash, disk

\* An index that was cut off has entries of the index, or unset ones.
LEMMA CutIndex ==
  ASSUME NEW f \in CutFiles, index \in [Ids -> Positions]
  PROVE  /\ f.there /\ ~f.whole /\ f.entries \in [Ids -> Positions]
         /\ f \in [there : BOOLEAN, whole : BOOLEAN, entries : [Ids -> Positions]]
         /\ \A i \in Ids : f.entries[i] \in {index[i], NoOffset, Absent}
<1>1. PICK S \in SUBSET Present, c \in {{}} \cup {{i} : i \in Present} :
        f = [there |-> TRUE, whole |-> FALSE, entries |-> CutEntries(S, c)]
  BY DEF CutFiles
<1>2. CutEntries(S, c) \in [Ids -> Positions]
  BY DEF CutEntries, Positions, NoOffset
<1>3. \A i \in Ids : CutEntries(S, c)[i] \in {index[i], NoOffset, Absent}
  BY DEF CutEntries
<1> QED BY <1>1, <1>2, <1>3

-----------------------------------------------------------------------------
LEMMA TypeStart == Init => TypeInv
BY StoreAssumption DEF Init, TypeInv, TypeOK, IdsAgree, Nothing, Nameless, Tensors, Ids,
   Positions, Absent, Storing

\* Each step keeps the types, and the ids those of the places.
LEMMA TypeStep == TypeInv /\ [Next]_vars => TypeInv'
<1> SUFFICES ASSUME TypeInv, [Next]_vars PROVE TypeInv'
  OBVIOUS
<1> USE StoreAssumption DEF TypeInv, TypeOK, IdsAgree, Tensors, Ids, Positions, Absent,
        NoOffset, Storing, disk
<1>1. CASE Boot
  <2>1. ASSUME NEW where \in {"create", "ready", "failed"},
               NEW ids \in [Tensors -> {Absent} \cup Ids], Booted(where, ids)
        PROVE  TypeInv'
    BY <2>1 DEF Booted, Nothing
  <2> QED BY <1>1, <2>1 DEF Boot, BootFromScratch, BootFromFiles, BootOnTornMap,
             BootOnTornIndex, Nameless
<1>2. CASE TakeSparse
  <2>1. next \in Tensors /\ paramId \in Ids
    BY <1>2 DEF TakeSparse
  <2>2. nameId' = [nameId EXCEPT ![next] = paramId] /\ paramId' = paramId + 1
        /\ next' = next + 1
    BY <1>2 DEF TakeSparse, Named
  <2>3. CASE batch' = batch \cup {next} /\ UNCHANGED <<todo, pc>> /\ ~EndsFile(next)
    BY <1>2, <2>1, <2>2, <2>3 DEF TakeSparse, EndsFile
  <2>4. CASE Stores(batch \cup {next})
    <3>1. UNCHANGED <<disk, index, crashes>> /\ next' \in 1..(NumTensors + 1)
          /\ paramId' \in 0..NumTensors /\ nameId' \in [Tensors -> {Absent} \cup Ids]
      BY <1>2, <2>1, <2>2 DEF TakeSparse
    <3>2. \A t \in Tensors : t < next' => nameId'[t] = t - 1
      BY <2>1, <2>2
    <3>3. todo' = batch \cup {next} /\ batch' = {} /\ pc' = "insert" /\ next' = next + 1
      BY <2>2, <2>4 DEF Stores
    <3>4. todo' \subseteq Tensors /\ \A t \in todo' : t < next'
      BY <2>1, <3>3
    <3>5. IdsAgree'
      <4>1. \A t \in batch' \cup todo' : t < next'
        BY <3>3, <3>4
      <4>2. paramId' = next' - 1
        BY <2>2
      <4> QED BY <3>2, <3>3, <4>1, <4>2
    <3>6. TypeOK'
      BY <3>1, <3>3, <3>4
    <3> QED BY <3>5, <3>6
  <2> QED BY <1>2, <2>3, <2>4 DEF TakeSparse
<1>3. CASE FlushBatch
  BY <1>3 DEF FlushBatch, Stores
<1>4. CASE TakeDense
  <2>1. next \in Tensors /\ paramId \in Ids
    BY <1>4 DEF TakeDense
  <2>2. /\ nameId' = [nameId EXCEPT ![next] = paramId] /\ paramId' = paramId + 1
        /\ next' = next + 1
    BY <1>4 DEF TakeDense, Named
  <2>3. UNCHANGED <<disk, index, crashes>> /\ next' \in 1..(NumTensors + 1)
        /\ paramId' \in 0..NumTensors /\ nameId' \in [Tensors -> {Absent} \cup Ids]
    BY <1>4, <2>1, <2>2 DEF TakeDense
  <2>4. \A t \in Tensors : t < next' => nameId'[t] = t - 1
    BY <2>1, <2>2
  <2>5. CASE UNCHANGED <<batch, todo, pc>>
    BY <1>4, <2>1, <2>2, <2>3, <2>4, <2>5 DEF TakeDense
  <2>6. CASE Stores({next})
    BY <1>4, <2>1, <2>2, <2>3, <2>4, <2>6 DEF TakeDense, Stores
  <2> QED BY <1>4, <2>5, <2>6 DEF TakeDense
<1>5. CASE Insert
  <2>1. index' \in [Ids -> Positions]
    <3>1. CASE UNCHANGED index
      BY <3>1
    <3>2. CASE index' = [i \in Ids |-> IF \E t \in todo : nameId[t] = i
                                        THEN NoOffset ELSE index[i]]
      BY <3>2
    <3> QED BY <1>5, <3>1, <3>2 DEF Insert
  <2>2. pc' \in {"aborted", "append"} /\ pc = "insert" /\ (pc' = "aborted" \/ pc' = "append")
        /\ UNCHANGED <<disk, nameId, paramId, next, batch, todo, crashes>>
    BY <1>5 DEF Insert
  <2> QED BY <2>1, <2>2
<1>6. CASE AppendBytes
  <2>1. PICK t \in todo : /\ data' = Append(data, t)
                          /\ index' = [index EXCEPT ![nameId[t]] = OffsetIn(data')]
                          /\ todo' = todo \ {t}
                          /\ pc' = IF todo = {t} THEN "serialize" ELSE pc
    BY <1>6 DEF AppendBytes
  <2>2. t \in Tensors /\ data' \in Seq(Tensors \cup {Half}) /\ Len(data') \in Nat
    BY <2>1
  <2>3. index' \in [Ids -> Positions]
    BY <2>1, <2>2 DEF OffsetIn
  <2> QED BY <1>6, <2>1, <2>2, <2>3 DEF AppendBytes
<1>7. CASE Serialize
  BY <1>7 DEF Serialize, WholeIndex
<1>8. CASE WriteMap
  BY <1>8 DEF WriteMap
<1>9. CASE Crash
  <2>1. data' \in Seq(Tensors \cup {Half})
    <3>1. data' = data \/ data' = Append(data, Half)
      BY <1>9, CrashFiles DEF Crash
    <3>2. Append(data, Half) \in Seq(Tensors \cup {Half})
      OBVIOUS
    <3> QED BY <3>1, <3>2
  <2>2. indexFile' \in [there : BOOLEAN, whole : BOOLEAN, entries : [Ids -> Positions]]
    BY <1>9, CrashFiles, CutIndex DEF Crash
  <2>3. mapFile' \in [state : {"none", "torn", "whole"}, ids : [Tensors -> {Absent} \cup Ids]]
    <3>1. CASE UNCHANGED mapFile
      BY <3>1
    <3>2. CASE mapFile' = [state |-> "torn", ids |-> Nameless]
      BY <3>2 DEF Nameless
    <3> QED BY <1>9, <3>1, <3>2 DEF Crash, DiskAfterCrash
  <2> QED BY <1>9, <2>1, <2>2, <2>3 DEF Crash, Nothing, Nameless
<1>10. CASE UNCHANGED vars
  BY <1>10 DEF vars
<1> QED BY <1>1, <1>2, <1>3, <1>4, <1>5, <1>6, <1>7, <1>8, <1>9, <1>10 DEF Next, Work

-----------------------------------------------------------------------------
\* What an entry may be, given the data file d.
Fits(o, i, d) == o \in {Absent, NoOffset} \/ (o \in 1..Len(d) /\ d[o] = TensorOf(i))

\* An entry keeps naming its tensor when something is appended.
LEMMA Appended ==
  ASSUME data \in Seq(Tensors \cup {Half}), NEW x \in Tensors \cup {Half},
         NEW d, d = data \/ d = Append(data, x), NEW i \in Ids, NEW o, Fits(o, i, data)
  PROVE  Fits(o, i, d)
BY DEF Fits

LEMMA NamesFits ==
  ASSUME NEW e
  PROVE  Names(e) <=> \A i \in Ids : Fits(e[i], i, data)
BY DEF Names, Fits

LEMMA NamesStart == Init => IndexNamesStoredData
BY DEF Init, IndexNamesStoredData, Names, Nothing

\* Entries are set to what was just appended; everything else that writes an index
\* copies entries, or loses them.
LEMMA NamesStep ==
  TypeInv /\ IndexNamesStoredData /\ [Next]_vars => IndexNamesStoredData'
<1> SUFFICES ASSUME TypeInv, IndexNamesStoredData, [Next]_vars
             PROVE  \A i \in Ids : /\ Fits(indexFile'.entries[i], i, data')
                                   /\ Fits(index'[i], i, data')
  BY DEF IndexNamesStoredData, Names, Fits
<1>a. \A i \in Ids : Fits(indexFile.entries[i], i, data) /\ Fits(index[i], i, data)
  BY NamesFits DEF IndexNamesStoredData
<1>b. /\ data \in Seq(Tensors \cup {Half}) /\ index \in [Ids -> Positions]
      /\ \A t \in todo : t \in Tensors /\ nameId[t] = t - 1 /\ t - 1 \in Ids
  BY StoreAssumption DEF TypeInv, TypeOK, IdsAgree, Tensors, Ids
<1>c. \A i \in Ids : Fits(Absent, i, data') /\ Fits(NoOffset, i, data')
  BY DEF Fits
<1>1. CASE Boot
  <2>1. UNCHANGED disk /\ index' \in {indexFile.entries, Nothing}
    BY <1>1 DEF Boot, BootFromScratch, BootFromFiles, BootOnTornMap, BootOnTornIndex, Booted
  <2> QED BY <2>1, <1>a, <1>c DEF disk, Nothing
<1>2. CASE TakeSparse \/ FlushBatch \/ TakeDense \/ WriteMap \/ UNCHANGED vars
  <2>1. UNCHANGED <<data, indexFile, index>>
    BY <1>2 DEF TakeSparse, FlushBatch, TakeDense, WriteMap, vars, disk
  <2> QED BY <2>1, <1>a
<1>3. CASE Insert
  <2>1. UNCHANGED <<data, indexFile>> /\ \A i \in Ids : index'[i] \in {index[i], NoOffset}
    BY <1>3, <1>b DEF Insert, disk
  <2> QED BY <2>1, <1>a, <1>c
<1>4. CASE AppendBytes
  <2>1. PICK t \in todo : /\ data' = Append(data, t)
                          /\ index' = [index EXCEPT ![nameId[t]] = OffsetIn(data')]
    BY <1>4 DEF AppendBytes
  <2>2. \A i \in Ids : Fits(indexFile.entries[i], i, data') /\ Fits(index[i], i, data')
    BY <2>1, <1>a, <1>b, Appended
  <2>3. nameId[t] = t - 1 /\ t - 1 \in Ids /\ t \in Tensors
    BY <1>b
  <2>4. Fits(OffsetIn(data'), t - 1, data')
    <3>1. t \in Int /\ OffsetIn(data') = Len(data) + 1 /\ data'[Len(data) + 1] = t
          /\ Len(data') = Len(data) + 1 /\ Len(data) \in Nat
      BY <2>1, <2>3, <1>b, StoreAssumption DEF OffsetIn, Tensors
    <3>2. TensorOf(t - 1) = t
      BY <3>1 DEF TensorOf
    <3> QED BY <3>1, <3>2 DEF Fits
  <2>5. indexFile' = indexFile
    BY <1>4 DEF AppendBytes
  <2> QED BY <2>1, <2>2, <2>3, <2>4, <2>5, <1>b
<1>5. CASE Serialize
  <2>1. UNCHANGED <<data, index>> /\ indexFile'.entries = index
    BY <1>5 DEF Serialize, WholeIndex
  <2> QED BY <2>1, <1>a
<1>6. CASE Crash
  <2>1. index' = Nothing /\ (data' = data \/ data' = Append(data, Half))
    BY <1>6, CrashFiles DEF Crash
  <2>2. \A i \in Ids : Fits(indexFile.entries[i], i, data') /\ Fits(index[i], i, data')
    BY <2>1, <1>a, <1>b, Appended
  <2>3. indexFile' = indexFile
        \/ \A i \in Ids : indexFile'.entries[i] \in {index[i], NoOffset, Absent}
    BY <1>6, <1>b, CrashFiles, CutIndex DEF Crash
  <2> QED BY <2>1, <2>2, <2>3, <1>c DEF Nothing
<1> QED BY <1>1, <1>2, <1>3, <1>4, <1>5, <1>6 DEF Next, Work

-----------------------------------------------------------------------------
LEMMA PublishedStart == Init => Published
BY DEF Init, Published

\* The process that creates has in memory what the index file has, so it asks rightly
\* what is stored; the map is written when the index is, and nothing writes after it.
LEMMA PublishedStep == TypeInv /\ Published /\ [Next]_vars => Published'
<1> SUFFICES ASSUME TypeInv, Published, [Next]_vars PROVE Published'
  OBVIOUS
<1> USE StoreAssumption DEF Published, OnFile, disk
<1>1. CASE Boot
  BY <1>1 DEF Boot, BootFromScratch, BootFromFiles, BootOnTornMap, BootOnTornIndex, Booted,
     FromScratch, TypeInv, TypeOK
<1>2. CASE TakeSparse
  BY <1>2 DEF TakeSparse, Named, Stores
<1>3. CASE FlushBatch
  BY <1>3 DEF FlushBatch, Stores
<1>4. CASE TakeDense
  <2>1. index[paramId] # Absent => indexFile.there
    BY <1>4 DEF TakeDense, Nothing, TypeInv, TypeOK, IdsAgree, Tensors, Ids
  <2> QED BY <1>4, <2>1 DEF TakeDense, Named, Stores, IsTensorOffloaded
<1>5. CASE Insert
  BY <1>5 DEF Insert
<1>6. CASE AppendBytes
  BY <1>6 DEF AppendBytes
<1>7. CASE Serialize
  BY <1>7 DEF Serialize, WholeIndex
<1>8. CASE WriteMap
  BY <1>8 DEF WriteMap, TypeInv, TypeOK, IdsAgree
<1>9. CASE Crash
  BY <1>9, CrashFiles, CutIndex DEF Crash, TypeInv, TypeOK
<1>10. CASE UNCHANGED vars
  BY <1>10 DEF vars
<1> QED BY <1>1, <1>2, <1>3, <1>4, <1>5, <1>6, <1>7, <1>8, <1>9, <1>10 DEF Next, Work

-----------------------------------------------------------------------------
LEMMA UnhurtStart == Init => Unhurt
BY StoreAssumption DEF Init, Unhurt, Nothing, Absent, NoOffset, Looping

\* What goes wrong takes a crash. Without one a tensor that is stored was named
\* before, and is not stored again.
LEMMA UnhurtStep == TypeInv /\ Published /\ Unhurt /\ [Next]_vars => Unhurt'
<1> SUFFICES ASSUME TypeInv, Published, Unhurt, [Next]_vars PROVE Unhurt'
  OBVIOUS
<1>a. /\ index \in [Ids -> Positions] /\ indexFile.entries \in [Ids -> Positions]
      /\ next \in 1..(NumTensors + 1) /\ crashes \in Nat /\ batch \subseteq Tensors
      /\ todo \subseteq Tensors /\ paramId = next - 1 /\ NumTensors \in Nat
      /\ \A t \in batch \cup todo : t < next /\ nameId[t] = t - 1
      /\ pc \in Storing => batch = {}
      /\ pc \notin {"insert", "append", "aborted"} => todo = {}
  BY StoreAssumption DEF TypeInv, TypeOK, IdsAgree
<1> USE StoreAssumption DEF Unhurt, disk, Looping, Storing, Tensors, Ids, Absent, NoOffset
<1>1. CASE Boot
  <2>1. ASSUME NEW where, NEW ids, Booted(where, ids), where \in {"create", "ready", "failed"},
               where = "create" => FromScratch, where # "create" => crashes > 0
        PROVE  Unhurt'
    <3>1. /\ index' \in {indexFile.entries, Nothing} /\ UNCHANGED <<disk, crashes>>
          /\ pc' = where /\ pc = "down" /\ next' = 1 /\ batch' = {} /\ todo' = {}
          /\ ~indexFile.there => index' = Nothing
      BY <2>1 DEF Booted
    <3>2. \A i \in Ids : index'[i] = NoOffset => crashes > 0
      BY <3>1 DEF Nothing
    <3>3. crashes = 0 => index' = Nothing
      BY <3>1
    <3> QED BY <2>1, <3>1, <3>2, <3>3, <1>a DEF Nothing
  <2>2. BootFromScratch => Unhurt'
    BY <2>1 DEF BootFromScratch
  <2>3. BootFromFiles => Unhurt'
    BY <2>1, <1>a DEF BootFromFiles, FromScratch, Booted
  <2>4. BootOnTornMap => Unhurt'
    BY <2>1, <1>a DEF BootOnTornMap, FromScratch
  <2>5. BootOnTornIndex => Unhurt'
    BY <2>1, <1>a DEF BootOnTornIndex
  <2> QED BY <1>1, <2>2, <2>3, <2>4, <2>5 DEF Boot
<1>2. CASE TakeSparse
  BY <1>2, <1>a DEF TakeSparse, Named, Stores
<1>3. CASE FlushBatch
  BY <1>3, <1>a DEF FlushBatch, Stores
<1>4. CASE TakeDense
  BY <1>4, <1>a DEF TakeDense, Named, Stores
<1>5. CASE Insert
  <2>1. CASE pc' = "aborted"
    BY <1>5, <2>1, <1>a DEF Insert
  <2>2. CASE pc' # "aborted"
    <3>1. /\ pc = "insert" /\ pc' = "append"
          /\ index' = [i \in Ids |-> IF \E t \in todo : nameId[t] = i THEN NoOffset ELSE index[i]]
          /\ UNCHANGED <<disk, nameId, paramId, next, batch, todo, crashes>>
      BY <1>5, <2>2 DEF Insert
    <3>2. \A i \in Ids : (\E t \in todo : nameId[t] = i) => i + 1 \in todo
      BY <1>a
    <3>3. \A i \in Ids : index'[i] = index[i] \/ i + 1 \in todo
      BY <3>1, <3>2
    <3>4. batch = {} /\ batch' = {} /\ next' = next /\ todo' = todo /\ crashes' = crashes
          /\ indexFile' = indexFile /\ mapFile' = mapFile
      BY <1>a, <3>1
    <3>5. \A t \in todo : t < next
      BY <1>a
    <3> QED BY <3>1, <3>3, <3>4, <3>5
  <2> QED BY <2>1, <2>2
<1>6. CASE AppendBytes
  <2>1. PICK t \in todo : /\ data' = Append(data, t)
                          /\ index' = [index EXCEPT ![nameId[t]] = OffsetIn(data')]
                          /\ todo' = todo \ {t}
                          /\ pc' = IF todo = {t} THEN "serialize" ELSE pc
    BY <1>6 DEF AppendBytes
  <2>2. nameId[t] = t - 1 /\ t - 1 \in Ids /\ t \in Tensors
    BY <1>a
  <2>3. OffsetIn(data') \in Nat \ {0}
    BY <2>1, <2>2 DEF OffsetIn, TypeInv, TypeOK
  <2>4. \A i \in Ids : index'[i] = IF i = t - 1 THEN OffsetIn(data') ELSE index[i]
    BY <2>1, <2>2, <1>a
  <2> QED BY <1>6, <2>1, <2>2, <2>3, <2>4, <1>a DEF AppendBytes
<1>7. CASE Serialize
  BY <1>7, <1>a DEF Serialize, WholeIndex
<1>8. CASE WriteMap
  BY <1>8, <1>a DEF WriteMap
<1>9. CASE Crash
  <2>1. crashes' > 0 /\ index' = Nothing /\ pc' = "down"
    BY <1>9, <1>a DEF Crash
  <2> QED BY <2>1 DEF Nothing
<1>10. CASE UNCHANGED vars
  BY <1>10 DEF vars
<1> QED BY <1>1, <1>2, <1>3, <1>4, <1>5, <1>6, <1>7, <1>8, <1>9, <1>10 DEF Next, Work

-----------------------------------------------------------------------------
\* What is served stays served when something is appended, and after a crash.
LEMMA StaysServed ==
  ASSUME data \in Seq(Tensors \cup {Half}), NEW x \in Tensors \cup {Half},
         NEW d, d = data \/ d = Append(data, x), NEW b \in Nat, NEW c \in Nat, b <= c,
         NEW t \in Tensors, NEW o, ServedAt(t, o, data, b)
  PROVE  ServedAt(t, o, d, c)
BY DEF ServedAt

LEMMA ServingStart == Init => Serving
BY DEF Init, Serving, Looping

\* A tensor the loop has passed waits or is served: one it need not store was in the
\* index, with an offset or cut off.
LEMMA ServingStep ==
  TypeInv /\ Published /\ Unhurt /\ IndexNamesStoredData /\ Serving /\ [Next]_vars => Serving'
<1> SUFFICES ASSUME TypeInv, Published, Unhurt, IndexNamesStoredData, Serving, [Next]_vars
             PROVE  Serving'
  OBVIOUS
<1>a. /\ index \in [Ids -> Positions] /\ next \in 1..(NumTensors + 1) /\ crashes \in Nat
      /\ data \in Seq(Tensors \cup {Half}) /\ paramId = next - 1 /\ NumTensors \in Nat
      /\ batch \subseteq Tensors /\ todo \subseteq Tensors /\ Sparse \subseteq Tensors
      /\ \A t \in batch \cup todo : t < next /\ nameId[t] = t - 1
      /\ \A t \in Tensors : t < next => nameId[t] = t - 1
      /\ \A t \in Tensors : t \in Int /\ t - 1 \in Ids /\ 1 <= t /\ t <= NumTensors
      /\ pc = "create" /\ next > NumTensors => batch = {}
      /\ pc \notin {"insert", "append", "aborted"} => todo = {}
  BY StoreAssumption DEF TypeInv, TypeOK, IdsAgree, Tensors, Ids
<1>1. CASE Boot
  <2>1. ASSUME NEW where, NEW ids, Booted(where, ids),
               where = "create" \/ where = "failed" \/ (where = "ready" /\ ids = mapFile.ids
                  /\ mapFile.state = "whole" /\ indexFile.there)
        PROVE  Serving'
    BY <2>1, <1>a DEF Booted, Serving, Served, Looping, disk
  <2> QED BY <1>1, <2>1 DEF Boot, BootFromScratch, BootFromFiles, BootOnTornMap,
             BootOnTornIndex, FromScratch
<1>2. CASE TakeSparse
  <2>1. /\ UNCHANGED <<disk, index, crashes>> /\ batch' \cup todo' = batch \cup {next}
        /\ next' = next + 1 /\ todo = {} /\ pc' \in {"create", "insert"} /\ pc = "create"
    BY <1>2, <1>a DEF TakeSparse, Named, Stores
  <2> QED BY <2>1, <1>a DEF Serving, Served, Looping, disk
<1>3. CASE FlushBatch
  <2>1. UNCHANGED <<disk, index, crashes, next>> /\ batch' \cup todo' = batch
        /\ todo = {} /\ pc' = "insert" /\ pc = "create"
    BY <1>3, <1>a DEF FlushBatch, Stores
  <2> QED BY <2>1, <1>a DEF Serving, Served, Looping, disk
<1>4. CASE TakeDense
  <2>1. /\ UNCHANGED <<disk, index, crashes>> /\ next' = next + 1 /\ pc = "create"
        /\ batch = {} /\ todo = {} /\ next \in Tensors \ Sparse
    BY <1>4, <1>a DEF TakeDense, Named
  <2>2. CASE ~IsTensorOffloaded(paramId)
    <3>1. batch' \cup todo' = {next} /\ pc' = "insert"
      BY <1>4, <2>2 DEF TakeDense, Stores
    <3> QED BY <2>1, <3>1, <1>a DEF Serving, Served, Looping, disk
  <2>3. CASE IsTensorOffloaded(paramId)
    <3>1. UNCHANGED <<batch, todo, pc>>
      BY <1>4, <2>3 DEF TakeDense
    <3>2. index[next - 1] # Absent /\ next - 1 \in Ids
      BY <2>1, <2>3, <1>a DEF IsTensorOffloaded
    <3>3. index[next - 1] = NoOffset => crashes > 0
      BY <2>1, <3>2 DEF Unhurt
    <3>4. ServedAt(next, index[next - 1], data, crashes)
      <4>1. Fits(index[next - 1], next - 1, data)
        BY <3>2, NamesFits DEF IndexNamesStoredData
      <4>2. TensorOf(next - 1) = next
        BY <1>a DEF TensorOf
      <4> QED BY <2>1, <3>2, <3>3, <4>1, <4>2, <1>a DEF Fits, ServedAt
    <3> QED BY <2>1, <3>1, <3>4, <1>a DEF Serving, Served, Looping, disk
  <2> QED BY <2>2, <2>3
<1>5. CASE Insert
  <2>1. pc = "insert" /\ UNCHANGED <<disk, crashes, next, batch, todo>>
        /\ pc' \in {"aborted", "append"}
    BY <1>5 DEF Insert, disk
  <2>2. \A t \in Tensors : t \notin todo => index'[t - 1] = index[t - 1]
    BY <1>5, <1>a DEF Insert
  <2> QED BY <2>1, <2>2, <1>a DEF Serving, Served, Looping, disk
<1>6. CASE AppendBytes
  <2>1. PICK u \in todo : /\ data' = Append(data, u)
                          /\ index' = [index EXCEPT ![nameId[u]] = OffsetIn(data')]
                          /\ todo' = todo \ {u}
    BY <1>6 DEF AppendBytes
  <2>2. /\ UNCHANGED <<indexFile, mapFile, next, batch, crashes>> /\ pc = "append"
        /\ pc' \in {"append", "serialize"} /\ mapFile.state # "whole"
    BY <1>6 DEF AppendBytes, Published
  <2>3. u \in Tensors /\ nameId[u] = u - 1 /\ u - 1 \in Ids
    BY <1>a
  <2>4. ServedAt(u, index'[u - 1], data', crashes)
    <3>1. index'[u - 1] = Len(data) + 1
      BY <2>1, <2>3, <1>a DEF OffsetIn
    <3> QED BY <2>1, <3>1, <1>a DEF ServedAt
  <2>5. \A t \in Tensors : t # u => index'[t - 1] = index[t - 1]
    BY <2>1, <2>3, <1>a
  <2>6. ASSUME NEW t \in Tensors, Served(t, index), t # u
        PROVE  ServedAt(t, index'[t - 1], data', crashes)
    <3>1. ServedAt(t, index[t - 1], data, crashes) /\ crashes <= crashes
      BY <2>6, <1>a DEF Served
    <3>2. ServedAt(t, index[t - 1], data', crashes)
      BY <2>1, <2>3, <3>1, <1>a, StaysServed
    <3> QED BY <2>5, <2>6, <3>2
  <2>7. \A t \in Tensors : t < next => t \in batch \cup todo \/ Served(t, index)
    BY <2>2 DEF Serving, Looping
  <2>8. \A t \in Tensors : t < next => t \in batch' \cup todo' \/ ServedAt(t, index'[t - 1], data', crashes)
    BY <2>1, <2>2, <2>4, <2>6, <2>7
  <2> QED BY <2>2, <2>8 DEF Serving, Served
<1>7. CASE Serialize
  BY <1>7 DEF Serialize, Serving, Served, Looping, Published
<1>8. CASE WriteMap
  <2>1. /\ UNCHANGED <<data, indexFile, index, nameId, next, crashes>> /\ pc = "create"
        /\ batch = {} /\ todo = {} /\ mapFile'.ids = nameId /\ pc' = "ready"
        /\ next > NumTensors
    BY <1>8, <1>a DEF WriteMap
  <2>2. index = indexFile.entries
    BY <2>1, <1>a, StoreAssumption DEF Published, OnFile
  <2>3. \A t \in Tensors : nameId[t] = t - 1 /\ Served(t, index)
    BY <2>1, <1>a DEF Serving, Looping
  <2> QED BY <2>1, <2>2, <2>3 DEF Serving, Served, Looping
<1>9. CASE Crash
  <2>1. pc' = "down" /\ crashes' = crashes + 1
    BY <1>9, CrashFiles DEF Crash
  <2>2. mapFile'.state = "whole" => UNCHANGED <<data, indexFile, mapFile>>
    BY <1>9, <2>1, CrashFiles DEF Crash, Published, disk
  <2>3. ASSUME NEW t \in Tensors, Served(t, indexFile.entries)
        PROVE  ServedAt(t, indexFile.entries[t - 1], data, crashes + 1)
    <3>1. ServedAt(t, indexFile.entries[t - 1], data, crashes) /\ crashes <= crashes + 1
          /\ crashes + 1 \in Nat
      BY <2>3, <1>a DEF Served
    <3> QED BY <3>1, <1>a, StaysServed
  <2>4. ASSUME mapFile'.state = "whole", NEW t \in Tensors
        PROVE  mapFile'.ids[t] = t - 1 /\ Served(t, indexFile.entries)'
    <3>1. mapFile.state = "whole" /\ data' = data /\ indexFile' = indexFile /\ mapFile' = mapFile
      BY <2>2, <2>4
    <3>2. mapFile.ids[t] = t - 1 /\ Served(t, indexFile.entries)
      BY <3>1 DEF Serving
    <3>3. ServedAt(t, indexFile.entries[t - 1], data, crashes + 1)
      BY <2>3, <3>2
    <3> QED BY <2>1, <3>1, <3>2, <3>3 DEF Served
  <2> QED BY <2>1, <2>4 DEF Serving, Looping
<1>10. CASE UNCHANGED vars
  BY <1>10 DEF vars, Serving, Served
<1> QED BY <1>1, <1>2, <1>3, <1>4, <1>5, <1>6, <1>7, <1>8, <1>9, <1>10 DEF Next, Work
-----------------------------------------------------------------------------
StoreInv == TypeInv /\ IndexNamesStoredData /\ Published /\ Unhurt /\ Serving

LEMMA Inductive == Spec => []StoreInv
<1>1. Init => StoreInv
  BY TypeStart, NamesStart, PublishedStart, UnhurtStart, ServingStart DEF StoreInv
<1>2. StoreInv /\ [Next]_vars => StoreInv'
  BY TypeStep, NamesStep, PublishedStep, UnhurtStep, ServingStep DEF StoreInv
<1> QED BY <1>1, <1>2, PTL DEF Spec

\* Every variable keeps its type.
THEOREM Typed == Spec => []TypeOK
<1>1. StoreInv => TypeOK
  BY DEF StoreInv, TypeInv
<1> QED BY <1>1, Inductive, PTL

\* Whatever starts and crashes went before, an offset in the index is that of the bytes
\* of its own tensor.
THEOREM IndexStaysRight == Spec => []IndexNamesStoredData
<1>1. StoreInv => IndexNamesStoredData
  BY DEF StoreInv
<1> QED BY <1>1, Inductive, PTL

\* A process that is ready serves every tensor from its own bytes, except a dense one
\* a crash cut off, and a start fails only after a crash.
THEOREM ReadyServes == Spec => []ReadyServesModel
<1>1. StoreInv => ReadyServesModel
  BY DEF StoreInv, Serving, Served, ServedAt, Unhurt, ReadyServesModel
<1> QED BY <1>1, Inductive, PTL

\* Once the name map is complete no start and no crash changes a file.
THEOREM PublishedForGood == Spec => PublishedStays
<1>1. StoreInv /\ [Next]_vars => (mapFile.state = "whole" => UNCHANGED disk) \/ UNCHANGED vars
  <2> SUFFICES ASSUME StoreInv, Next, mapFile.state = "whole" PROVE UNCHANGED disk
    OBVIOUS
  <2>1. pc \in {"down", "ready", "failed"}
    BY DEF StoreInv, Published
  <2> QED BY <2>1, CrashFiles DEF Next, Work, Boot, BootFromScratch, BootFromFiles,
       BootOnTornMap, BootOnTornIndex, Booted, TakeSparse, FlushBatch, TakeDense, Insert,
       AppendBytes, Serialize, WriteMap, Crash, disk
<1> QED BY <1>1, Inductive, PTL DEF Spec, PublishedStays
-----------------------------------------------------------------------------
\* What the packing makes of the indices v: bytes, of which the first half holds the
\* low bits, two to a byte, and each quarter of the second two of the high ones, four.
LEMMA PackedBytes ==
  ASSUME NEW v \in [Places -> 0..255]
  PROVE  /\ Packed(v) \in [Places -> 0..255]
         /\ \A p \in Places :
              /\ Packed(v)[p \div 2] = (v[2 * (p \div 2)] % 16)
                                       + 16 * (v[2 * (p \div 2) + 1] % 16)
              /\ p \div 2 \in Places /\ p \div 2 < N \div 2
<1>1. N \in Nat /\ N % 4 = 0
  BY PlanesAssumption
<1>2. PICK m \in Nat : N = 4 * m
  BY <1>1
<1>3. N \div 2 = 2 * m /\ N \div 4 = m
  BY <1>2
<1>4. ASSUME NEW k \in 0..(N \div 2 - 1)
      PROVE  /\ 2 * k \in Places /\ 2 * k + 1 \in Places
             /\ PackedLow(v)[k] = (v[2 * k] % 16) + 16 * (v[2 * k + 1] % 16)
             /\ PackedLow(v)[k] \in 0..255
  <2>1. 2 * k \in Places /\ 2 * k + 1 \in Places
    BY <1>2, <1>3 DEF Places
  <2>2. v[2 * k] \in 0..255 /\ v[2 * k + 1] \in 0..255
    BY <2>1
  <2>3. PackedLow(v)[k] = (v[2 * k] % 16) + 16 * (v[2 * k + 1] % 16)
    BY DEF PackedLow
  <2>4. QED
    BY <2>1, <2>2, <2>3
<1>5. ASSUME NEW k \in 0..(N \div 4 - 1), NEW div \in {16, 64}
      PROVE  PackedPair(v, div)[k] \in 0..255
  <2>1. \A j \in 0..3 : 4 * k + j \in Places
    BY <1>2, <1>3 DEF Places
  <2>2. \A j \in 0..3 : (v[4 * k + j] \div div) % 4 \in 0..3
    BY <2>1
  <2>3. 0 \in 0..3 /\ 1 \in 0..3 /\ 2 \in 0..3 /\ 3 \in 0..3
    OBVIOUS
  <2>4. PackedPair(v, div)[k] =
          ((v[4*k + 0] \div div) % 4) + 4 * ((v[4*k + 1] \div div) % 4)
          + 16 * ((v[4*k + 2] \div div) % 4) + 64 * ((v[4*k + 3] \div div) % 4)
    BY DEF PackedPair
  <2>5. \A a, b, c, d \in 0..3 : a + 4 * b + 16 * c + 64 * d \in 0..255
    OBVIOUS
  <2>6. QED
    BY <2>2, <2>3, <2>4, <2>5
<1>6. ASSUME NEW p \in Places PROVE Packed(v)[p] \in 0..255
  <2>1. CASE p < N \div 2
    <3>1. p \in 0..(N \div 2 - 1) /\ Packed(v)[p] = PackedLow(v)[p]
      BY <2>1, <1>3 DEF Packed, Places
    <3>2. QED
      BY <3>1, <1>4
  <2>2. CASE p >= N \div 2 /\ p < N \div 2 + N \div 4
    <3>1. /\ p - N \div 2 \in 0..(N \div 4 - 1)
          /\ Packed(v)[p] = PackedPair(v, 16)[p - N \div 2]
      BY <2>2, <1>3 DEF Packed, Places
    <3>2. QED
      BY <3>1, <1>5
  <2>3. CASE p >= N \div 2 + N \div 4
    <3>1. /\ p - N \div 2 - N \div 4 \in 0..(N \div 4 - 1)
          /\ Packed(v)[p] = PackedPair(v, 64)[p - N \div 2 - N \div 4]
      BY <2>3, <1>2, <1>3 DEF Packed, Places
    <3>2. QED
      BY <3>1, <1>5
  <2>4. QED
    BY <2>1, <2>2, <2>3, <1>3 DEF Places
<1>7. ASSUME NEW p \in Places
      PROVE  /\ p \div 2 \in Places /\ p \div 2 < N \div 2
             /\ p \div 2 \in 0..(N \div 2 - 1)
             /\ Packed(v)[p \div 2] = PackedLow(v)[p \div 2]
  <2>1. /\ p \div 2 \in Places /\ p \div 2 < N \div 2
        /\ p \div 2 \in 0..(N \div 2 - 1)
    BY <1>2, <1>3 DEF Places
  <2>2. QED
    BY <2>1 DEF Packed
<1>8. Packed(v) = [p \in Places |-> Packed(v)[p]]
  BY DEF Packed
<1>9. QED
  BY <1>4, <1>6, <1>7, <1>8

\* A number of two nibbles, and one of four pairs, taken apart again.
LEMMA NibblesApart ==
  ASSUME NEW a \in 0..15, NEW b \in 0..15, NEW p \in Nat
  PROVE  Nibble(a + 16 * b, p) = IF p % 2 = 0 THEN a ELSE b
<1>1. a + 16 * b \in 0..255 /\ a + 16 * b # Stale
  BY DEF Stale
<1>2. (a + 16 * b) % 16 = a /\ (a + 16 * b) \div 16 = b
  OBVIOUS
<1>3. QED
  BY <1>1, <1>2 DEF Nibble, Of

\* The four pairs of bits of a byte are got back one by one.
LEMMA PairsApart ==
  ASSUME NEW a \in 0..3, NEW b \in 0..3, NEW c \in 0..3, NEW d \in 0..3
  PROVE  LET x == a + 4 * b + 16 * c + 64 * d IN
         Pair(x, 0) = a /\ Pair(x, 1) = b /\ Pair(x, 2) = c /\ Pair(x, 3) = d
<1> DEFINE x == a + 4 * b + 16 * c + 64 * d
<1>1. x \in 0..255 /\ x # Stale
  BY DEF Stale
<1>2. x % 4 = a /\ (x \div 4) % 4 = b /\ (x \div 16) % 4 = c /\ (x \div 64) % 4 = d
  OBVIOUS
<1>3. 4^0 = 1 /\ 4^1 = 4 /\ 4^2 = 16 /\ 4^3 = 64
  OBVIOUS
<1>4. x \div 1 = x
  BY <1>1
<1>5. QED
  BY <1>1, <1>2, <1>3, <1>4 DEF Pair, Of

\* The byte of a short section at k: the pair of each of the four indices.
LEMMA PairOfSection ==
  ASSUME NEW v \in [Places -> 0..255], NEW div \in {16, 64}, NEW k \in 0..(N \div 4 - 1),
         NEW j \in 0..3
  PROVE  /\ 4 * k + j \in Places
         /\ Pair(PackedPair(v, div)[k], j) = (v[4 * k + j] \div div) % 4
<1>1. N \in Nat /\ N % 4 = 0
  BY PlanesAssumption
<1>2. \A i \in 0..3 : 4 * k + i \in Places
  BY <1>1 DEF Places
<1>3. \A i \in 0..3 : (v[4 * k + i] \div div) % 4 \in 0..3
  BY <1>2
<1>4. 0 \in 0..3 /\ 1 \in 0..3 /\ 2 \in 0..3 /\ 3 \in 0..3
  OBVIOUS
<1>5. PackedPair(v, div)[k] =
        ((v[4*k + 0] \div div) % 4) + 4 * ((v[4*k + 1] \div div) % 4)
        + 16 * ((v[4*k + 2] \div div) % 4) + 64 * ((v[4*k + 3] \div div) % 4)
  BY DEF PackedPair
<1> DEFINE a == (v[4*k + 0] \div div) % 4
           b == (v[4*k + 1] \div div) % 4
           c == (v[4*k + 2] \div div) % 4
           d == (v[4*k + 3] \div div) % 4
<1>6. a \in 0..3 /\ b \in 0..3 /\ c \in 0..3 /\ d \in 0..3
  BY <1>3, <1>4
<1>7. PackedPair(v, div)[k] = a + 4 * b + 16 * c + 64 * d
  BY <1>5
<1> HIDE DEF a, b, c, d
<1>8. LET x == a + 4 * b + 16 * c + 64 * d IN
      Pair(x, 0) = a /\ Pair(x, 1) = b /\ Pair(x, 2) = c /\ Pair(x, 3) = d
  BY <1>6, PairsApart
<1>9. /\ Pair(PackedPair(v, div)[k], 0) = a /\ Pair(PackedPair(v, div)[k], 1) = b
      /\ Pair(PackedPair(v, div)[k], 2) = c /\ Pair(PackedPair(v, div)[k], 3) = d
  BY <1>7, <1>8
<1>10. j = 0 \/ j = 1 \/ j = 2 \/ j = 3
  OBVIOUS
<1>11. CASE j = 0
  BY <1>2, <1>9, <1>11 DEF a
<1>12. CASE j = 1
  BY <1>2, <1>9, <1>12 DEF b
<1>13. CASE j = 2
  BY <1>2, <1>9, <1>13 DEF c
<1>14. CASE j = 3
  BY <1>2, <1>9, <1>14 DEF d
<1>15. QED
  BY <1>10, <1>11, <1>12, <1>13, <1>14

\* The byte of the low section that has p's nibble, looked at as p looks at it.
LEMMA LowNibble ==
  ASSUME NEW v \in [Places -> 0..255], NEW p \in Places
  PROVE  Nibble(Packed(v)[p \div 2], p) = v[p] % 16
<1>1. N \in Nat /\ N % 4 = 0
  BY PlanesAssumption
<1> DEFINE a == v[2 * (p \div 2)] % 16
           b == v[2 * (p \div 2) + 1] % 16
<1>2. Packed(v)[p \div 2] = a + 16 * b
  BY PackedBytes
<1>3. 2 * (p \div 2) \in Places /\ 2 * (p \div 2) + 1 \in Places
  <2>1. PICK m \in Nat : N = 4 * m
    BY <1>1
  <2>2. QED
    BY <2>1 DEF Places
<1>4. a \in 0..15 /\ b \in 0..15
  BY <1>3
<1>5. p \in Nat
  BY DEF Places
<1>6. p = IF p % 2 = 0 THEN 2 * (p \div 2) ELSE 2 * (p \div 2) + 1
  BY <1>5
<1>7. v[p] % 16 = IF p % 2 = 0 THEN a ELSE b
  BY <1>6
<1> HIDE DEF a, b
<1>8. QED
  BY <1>2, <1>4, <1>5, <1>7, NibblesApart

\* The three sections of the offload file determine the indices they were packed from:
\* an index is the nibble and the two pairs that are found where it is looked for.
THEOREM SectionsDetermine == PlanesKeepIndices
<1> SUFFICES ASSUME NEW v \in Weights, NEW p \in Places
             PROVE  v[p] = Nibble(Packed(v)[p \div 2], p)
                           + 16 * Pair(Packed(v)[N \div 2 + p \div 4], p % 4)
                           + 64 * Pair(Packed(v)[N \div 2 + N \div 4 + p \div 4], p % 4)
  BY DEF PlanesKeepIndices
<1>1. v \in [Places -> 0..255] /\ N \in Nat /\ N % 4 = 0
  BY PlanesAssumption
<1>2. /\ p \div 4 \in 0..(N \div 4 - 1) /\ p % 4 \in 0..3 /\ 4 * (p \div 4) + (p % 4) = p
      /\ N \div 2 + p \div 4 \in Places /\ N \div 2 + N \div 4 + p \div 4 \in Places
      /\ p \div 4 \in Nat /\ N \div 2 \in Nat /\ N \div 4 \in Nat
  <2>1. PICK m \in Nat : N = 4 * m
    BY <1>1
  <2>2. N \div 2 = 2 * m /\ N \div 4 = m
    BY <2>1
  <2>3. p \in 0..(4 * m - 1)
    BY <2>1 DEF Places
  <2>4. p \div 4 \in 0..(m - 1) /\ p % 4 \in 0..3 /\ 4 * (p \div 4) + (p % 4) = p
    <3>1. \A x \in Nat : x \div 4 \in Nat /\ x % 4 \in 0..3 /\ 4 * (x \div 4) + (x % 4) = x
      OBVIOUS
    <3>2. p \in Nat /\ p < 4 * m /\ m \in Nat
      BY <2>1, <2>3
    <3>3. QED
      BY <3>1, <3>2
  <2>5. QED
    BY <2>1, <2>2, <2>4 DEF Places
<1>3. /\ Packed(v)[N \div 2 + p \div 4] = PackedPair(v, 16)[p \div 4]
      /\ Packed(v)[N \div 2 + N \div 4 + p \div 4] = PackedPair(v, 64)[p \div 4]
  <2> DEFINE h == N \div 2
             q == N \div 4
             k == p \div 4
  <2>1. h \in Nat /\ q \in Nat /\ k \in Nat /\ k < q /\ h + k \in Places /\ h + q + k \in Places
    BY <1>2
  <2>2. Packed(v) = [x \in Places |-> IF x < h THEN PackedLow(v)[x]
                                      ELSE IF x < h + q THEN PackedPair(v, 16)[x - h]
                                      ELSE PackedPair(v, 64)[x - h - q]]
    BY DEF Packed
  <2> HIDE DEF h, q, k
  <2>3. Packed(v)[h + k] = PackedPair(v, 16)[k]
    <3>1. ~(h + k < h) /\ h + k < h + q /\ (h + k) - h = k
      BY <2>1
    <3>2. QED
      BY <2>1, <2>2, <3>1
  <2>4. Packed(v)[h + q + k] = PackedPair(v, 64)[k]
    <3>1. ~(h + q + k < h) /\ ~(h + q + k < h + q) /\ (h + q + k) - h - q = k
      BY <2>1
    <3>2. QED
      BY <2>1, <2>2, <3>1
  <2>5. QED
    BY <2>3, <2>4 DEF h, q, k
<1>4. /\ Pair(PackedPair(v, 16)[p \div 4], p % 4) = (v[p] \div 16) % 4
      /\ Pair(PackedPair(v, 64)[p \div 4], p % 4) = (v[p] \div 64) % 4
  <2> DEFINE k == p \div 4
             j == p % 4
  <2>1. k \in 0..(N \div 4 - 1) /\ j \in 0..3 /\ 4 * k + j = p
    BY <1>2
  <2> HIDE DEF k, j
  <2>2. \A div \in {16, 64} : Pair(PackedPair(v, div)[k], j) = (v[4 * k + j] \div div) % 4
    BY <1>1, <2>1, PairOfSection
  <2>3. \A div \in {16, 64} : Pair(PackedPair(v, div)[k], j) = (v[p] \div div) % 4
    BY <2>1, <2>2
  <2>4. QED
    BY <2>3 DEF k, j
<1>5. Nibble(Packed(v)[p \div 2], p) = v[p] % 16
  BY <1>1, LowNibble
<1>6. v[p] \in 0..255
  BY <1>1
<1>7. \A a \in 0..255 : a = (a % 16) + 16 * ((a \div 16) % 4) + 64 * ((a \div 64) % 4)
  OBVIOUS
<1>8. QED
  BY <1>3, <1>4, <1>5, <1>6, <1>7
-----------------------------------------------------------------------------
\* The six-bit tier. In a chunk of n bytes: what has been read or already unpacked, after
\* e of its indices.
Span(n) == 0..(n - 1)
KnownAfter(d, n, e) == \A k \in Span(n) : k < (n * 3) \div 4 \/ k < e => d[k] # Stale

\* The parts of a chunk that need not be of whole groups.
LEMMA Quarters ==
  ASSUME NEW n \in Nat
  PROVE  /\ n \div 4 \in Nat /\ n \div 2 \in Nat /\ (n * 3) \div 4 \in Nat
         /\ 2 * (n \div 4) <= n \div 2 /\ n \div 2 + n \div 4 <= (n * 3) \div 4
         /\ (n * 3) \div 4 <= n /\ 4 * (n \div 4) <= n
<1>1. PICK m \in Nat, r \in 0..3 : n = 4 * m + r
  <2>1. n \div 4 \in Nat /\ n % 4 \in 0..3 /\ n = 4 * (n \div 4) + (n % 4)
    OBVIOUS
  <2>2. QED
    BY <2>1
<1>2. r = 0 \/ r = 1 \/ r = 2 \/ r = 3
  OBVIOUS
<1>3. CASE r = 0
  BY <1>1, <1>3
<1>4. CASE r = 1
  BY <1>1, <1>4
<1>5. CASE r = 2
  BY <1>1, <1>5
<1>6. CASE r = 3
  BY <1>1, <1>6
<1>7. QED
  BY <1>2, <1>3, <1>4, <1>5, <1>6

\* Two known bytes make a known index; what was not read stays unknown.
LEMMA SixBitsKnown ==
  ASSUME NEW low \in Bytes, NEW mid \in Bytes, NEW j \in 0..3
  PROVE  /\ SixBits(low, mid, j) \in Bytes
         /\ low # Stale /\ mid # Stale => SixBits(low, mid, j) # Stale
<1>1. CASE low = Stale \/ mid = Stale
  BY <1>1 DEF SixBits, Bytes, Stale
<1>2. CASE low # Stale /\ mid # Stale
  <2>1. low \in 0..255 /\ mid \in 0..255
    BY <1>2 DEF Bytes, Stale
  <2>2. Nibble(low, j) \in 0..15
    BY <2>1 DEF Nibble, Of, Stale
  <2>3. Pair(mid, j) \in 0..3
    <3>1. 4^0 = 1 /\ 4^1 = 4 /\ 4^2 = 16 /\ 4^3 = 64
      OBVIOUS
    <3>2. 4^j \in {1, 4, 16, 64}
      <4>1. j = 0 \/ j = 1 \/ j = 2 \/ j = 3
        OBVIOUS
      <4>2. QED
        BY <3>1, <4>1
    <3>3. \A e \in {1, 4, 16, 64} : (mid \div e) % 4 \in 0..3
      BY <2>1
    <3>4. (mid \div 4^j) % 4 \in 0..3
      BY <3>2, <3>3
    <3>5. QED
      BY <2>1, <3>4 DEF Pair, Of, Stale
  <2>4. SixBits(low, mid, j) = Nibble(low, j) + 16 * Pair(mid, j)
    BY <1>2 DEF SixBits
  <2>5. QED
    BY <2>2, <2>3, <2>4 DEF Bytes, Stale
<1>3. QED
  BY <1>1, <1>2

\* One group of four: what is read for it is known, so its indices are afterwards.
LEMMA GroupKnown ==
  ASSUME NEW n \in Nat, NEW b \in [Span(n) -> Bytes], NEW i \in 0..(n \div 4 - 1)
  PROVE  /\ UnpackGroup(b, n, i) \in [Span(n) -> Bytes]
         /\ KnownAfter(b, n, 4 * i) => KnownAfter(UnpackGroup(b, n, i), n, 4 * (i + 1))
<1> DEFINE m == n \div 4
           h == n \div 2
           r == (n * 3) \div 4
<1>1. m \in Nat /\ h \in Nat /\ r \in Nat /\ 2 * m <= h /\ h + m <= r /\ r <= n /\ 4 * m <= n
  BY Quarters
<1>2. i \in Nat /\ i < m
  BY <1>1
<1> DEFINE mid == b[h + i]
           One(d, j) == [d EXCEPT ![4*i + j] = SixBits(d[2*i + j \div 2], mid, j)]
<1>3. UnpackGroup(b, n, i) = One(One(One(One(b, 0), 1), 2), 3)
  BY DEF UnpackGroup
<1>4. \A d, e : KnownAfter(d, n, e) <=> \A k \in Span(n) : k < r \/ k < e => d[k] # Stale
  BY DEF KnownAfter
<1> HIDE DEF m, h, r
<1>5. h + i \in Span(n) /\ h + i < r
  BY <1>1, <1>2 DEF Span
<1>6. mid \in Bytes /\ (KnownAfter(b, n, 4 * i) => mid # Stale)
  BY <1>4, <1>5
<1> HIDE DEF mid
<1>7. ASSUME NEW d \in [Span(n) -> Bytes], NEW j \in 0..3
      PROVE  /\ One(d, j) \in [Span(n) -> Bytes]
             /\ KnownAfter(d, n, 4 * i + j) /\ mid # Stale
                  => KnownAfter(One(d, j), n, 4 * i + j + 1)
  <2> DEFINE l == 2 * i + j \div 2
             e == 4 * i + j
  <2>1. l \in Span(n) /\ l < r /\ e \in Span(n)
    <3>1. j \div 2 \in 0..1
      OBVIOUS
    <3>2. QED
      BY <1>1, <1>2, <3>1 DEF Span
  <2> HIDE DEF l
  <2>2. d[l] \in Bytes
    BY <2>1
  <2>3. SixBits(d[l], mid, j) \in Bytes
    BY <1>6, <2>2, SixBitsKnown
  <2>4. One(d, j) = [d EXCEPT ![e] = SixBits(d[l], mid, j)]
    BY DEF l
  <2>5. One(d, j) \in [Span(n) -> Bytes]
    BY <2>3, <2>4
  <2>6. ASSUME KnownAfter(d, n, e), mid # Stale, NEW p \in Span(n), p < r \/ p < e + 1
        PROVE  One(d, j)[p] # Stale
    <3>1. CASE p = e
      <4>1. d[l] # Stale
        BY <1>4, <2>1, <2>6
      <4>2. SixBits(d[l], mid, j) # Stale
        BY <1>6, <2>2, <2>6, <4>1, SixBitsKnown
      <4>3. QED
        BY <2>1, <2>4, <3>1, <4>2
    <3>2. CASE p # e
      <4>1. p < r \/ p < e
        BY <2>6, <2>1, <3>2 DEF Span
      <4>2. d[p] # Stale
        BY <1>4, <2>6, <4>1
      <4>3. QED
        BY <2>4, <2>6, <3>2, <4>2
    <3>3. QED
      BY <3>1, <3>2
  <2> HIDE DEF One
  <2>7. KnownAfter(d, n, 4 * i + j) /\ mid # Stale => KnownAfter(One(d, j), n, e + 1)
    BY <1>4, <2>6
  <2>8. QED
    BY <2>5, <2>7
<1> HIDE DEF One
<1> DEFINE d1 == One(b, 0)
           d2 == One(d1, 1)
           d3 == One(d2, 2)
           d4 == One(d3, 3)
<1>8. /\ d1 \in [Span(n) -> Bytes]
      /\ KnownAfter(b, n, 4 * i) /\ mid # Stale => KnownAfter(d1, n, 4 * i + 1)
  <2>1. 4 * i + 0 = 4 * i /\ 4 * i + 0 + 1 = 4 * i + 1
    BY <1>2
  <2>2. QED
    BY <1>7, <2>1
<1>9. /\ d2 \in [Span(n) -> Bytes]
      /\ KnownAfter(d1, n, 4 * i + 1) /\ mid # Stale => KnownAfter(d2, n, 4 * i + 2)
  <2>1. 4 * i + 1 + 1 = 4 * i + 2
    BY <1>2
  <2>2. QED
    BY <1>7, <1>8, <2>1
<1>10. /\ d3 \in [Span(n) -> Bytes]
       /\ KnownAfter(d2, n, 4 * i + 2) /\ mid # Stale => KnownAfter(d3, n, 4 * i + 3)
  <2>1. 4 * i + 2 + 1 = 4 * i + 3
    BY <1>2
  <2>2. QED
    BY <1>7, <1>9, <2>1
<1>11. /\ d4 \in [Span(n) -> Bytes]
       /\ KnownAfter(d3, n, 4 * i + 3) /\ mid # Stale => KnownAfter(d4, n, 4 * (i + 1))
  <2>1. 4 * i + 3 + 1 = 4 * (i + 1)
    BY <1>2
  <2>2. QED
    BY <1>7, <1>10, <2>1
<1>12. QED
  BY <1>3, <1>6, <1>8, <1>9, <1>10, <1>11

\* The recursion over the groups defines a function.
Unpacking(b, size, n, f) ==
  f = [k \in 0..n |-> IF k = 0 THEN b ELSE UnpackGroup(f[k - 1], size, k - 1)]

\* A set of numbers that is not empty has a lowest.
LEMMA LowestExists ==
  ASSUME NEW T, T \subseteq Nat, T # {}
  PROVE  \E x \in T : \A y \in T : x <= y
<1>1. \E x \in T : \A y \in T : ~(<<y, x>> \in OpToRel(<, Nat))
  BY NatLessThanWellFounded, WFMin
<1>2. PICK x \in T : \A y \in T : ~(<<y, x>> \in OpToRel(<, Nat))
  BY <1>1
<1>3. ASSUME NEW y \in T PROVE x <= y
  <2>1. ~(<<y, x>> \in OpToRel(<, Nat))
    BY <1>2
  <2>2. x \in Nat /\ y \in Nat
    OBVIOUS
  <2>3. ~(y < x)
    BY <2>1, <2>2 DEF OpToRel
  <2>4. QED
    BY <2>2, <2>3
<1>4. QED
  BY <1>3

\* The recursion over the first n groups has a solution, for every n.
LEMMA UnpackingExists ==
  ASSUME NEW b, NEW size, NEW n \in Nat
  PROVE  \E f : Unpacking(b, size, n, f)
<1> DEFINE Bad == {m \in Nat : ~\E f : Unpacking(b, size, m, f)}
<1>1. SUFFICES ASSUME Bad # {} PROVE FALSE
  OBVIOUS
<1>2. PICK m \in Bad : \A y \in Bad : m <= y
  BY <1>1, LowestExists
<1>3. m # 0
  <2>1. Unpacking(b, size, 0, [k \in 0..0 |-> b])
    BY DEF Unpacking
  <2>2. QED
    BY <1>2, <2>1
<1>4. m - 1 \in Nat /\ m - 1 \notin Bad /\ m \in Nat
  BY <1>2, <1>3
<1>5. PICK f : Unpacking(b, size, m - 1, f)
  BY <1>4
<1> HIDE DEF Bad
<1> DEFINE g == [k \in 0..m |-> IF k = m THEN UnpackGroup(f[m - 1], size, m - 1) ELSE f[k]]
<1>6. ASSUME NEW k \in 0..m
      PROVE  g[k] = IF k = 0 THEN b ELSE UnpackGroup(g[k - 1], size, k - 1)
  <2>1. CASE k = m
    <3>1. m - 1 \in 0..m /\ m - 1 # m
      BY <1>4
    <3>2. g[m - 1] = f[m - 1] /\ g[m] = UnpackGroup(f[m - 1], size, m - 1)
      BY <1>4, <3>1
    <3>3. QED
      BY <1>3, <2>1, <3>2
  <2>2. CASE k # m
    <3>1. k \in 0..(m - 1) /\ g[k] = f[k]
      BY <1>4, <2>2
    <3>2. f[k] = IF k = 0 THEN b ELSE UnpackGroup(f[k - 1], size, k - 1)
      BY <1>5, <3>1 DEF Unpacking
    <3>3. k # 0 => k - 1 \in 0..m /\ k - 1 # m
      BY <3>1, <1>4
    <3>4. k # 0 => g[k - 1] = f[k - 1]
      BY <3>3
    <3>5. QED
      BY <3>1, <3>2, <3>4
  <2>3. QED
    BY <2>1, <2>2
<1>7. Unpacking(b, size, m, g)
  <2>1. g = [k \in 0..m |-> g[k]]
    OBVIOUS
  <2> HIDE DEF g
  <2>2. QED
    BY <1>6, <2>1 DEF Unpacking
<1>8. QED
  BY <1>2, <1>7 DEF Bad

\* What was read of a chunk is enough for its whole groups to be known, unpacked.
LEMMA WarmKnown ==
  ASSUME NEW n \in Nat, NEW b \in [Span(n) -> Bytes]
  PROVE  /\ WarmUnpacked(b, n) \in [Span(n) -> Bytes]
         /\ (\A k \in Span(n) : k < (n * 3) \div 4 => b[k] # Stale)
              => \A k \in Span(n) : k < 4 * (n \div 4) => WarmUnpacked(b, n)[k] # Stale
<1> DEFINE m == n \div 4
           after == CHOOSE f : Unpacking(b, n, m, f)
<1>1. WarmUnpacked(b, n) = after[m]
  BY DEF WarmUnpacked, Unpacking
<1>2. m \in Nat /\ 4 * m <= n
  BY Quarters
<1>3. /\ \A k \in Span(n) : k < 4 * (n \div 4) <=> k < 4 * m
      /\ \A k : k \in 0..(m - 1) <=> k \in 0..(n \div 4 - 1)
  OBVIOUS
<1> HIDE DEF m
<1>4. Unpacking(b, n, m, after)
  BY <1>2, UnpackingExists
<1> HIDE DEF after
<1> DEFINE Fine(k) == /\ after[k] \in [Span(n) -> Bytes]
                      /\ KnownAfter(b, n, 0) => KnownAfter(after[k], n, 4 * k)
           Bad == {k \in 0..m : ~Fine(k)}
<1>5. Fine(0)
  <2>1. after[0] = b
    BY <1>2, <1>4 DEF Unpacking
  <2>2. QED
    BY <2>1
<1>6. ASSUME NEW k \in 1..m, Fine(k - 1) PROVE Fine(k)
  <2>1. k - 1 \in 0..(n \div 4 - 1) /\ (k - 1) + 1 = k /\ k \in 0..m /\ k # 0
    BY <1>2, <1>3
  <2>2. after[k] = UnpackGroup(after[k - 1], n, k - 1)
    BY <1>4, <2>1 DEF Unpacking
  <2>3. after[k - 1] \in [Span(n) -> Bytes]
    BY <1>6
  <2>4. /\ UnpackGroup(after[k - 1], n, k - 1) \in [Span(n) -> Bytes]
        /\ KnownAfter(after[k - 1], n, 4 * (k - 1))
             => KnownAfter(UnpackGroup(after[k - 1], n, k - 1), n, 4 * ((k - 1) + 1))
    BY <2>1, <2>3, GroupKnown
  <2>5. QED
    BY <1>6, <2>1, <2>2, <2>4
<1>7. \A k \in 0..m : Fine(k)
  <2>1. SUFFICES ASSUME Bad # {} PROVE FALSE
    OBVIOUS
  <2>2. Bad \subseteq Nat
    OBVIOUS
  <2> HIDE DEF Bad
  <2>3. PICK k \in Bad : \A y \in Bad : k <= y
    BY <2>1, <2>2, LowestExists
  <2>4. k \in 0..m /\ ~Fine(k)
    BY <2>3 DEF Bad
  <2>5. k \in 1..m
    BY <1>5, <2>4
  <2>6. k - 1 \in 0..m /\ ~(k <= k - 1)
    BY <1>2, <2>5
  <2>7. Fine(k - 1)
    BY <2>3, <2>6 DEF Bad
  <2>8. QED
    BY <1>6, <2>4, <2>5, <2>7
<1>8. Fine(m)
  BY <1>2, <1>7
<1>9. ASSUME \A k \in Span(n) : k < (n * 3) \div 4 => b[k] # Stale
      PROVE  \A k \in Span(n) : k < 4 * m => after[m][k] # Stale
  <2>1. KnownAfter(b, n, 0)
    BY <1>9 DEF KnownAfter, Span
  <2>2. KnownAfter(after[m], n, 4 * m)
    BY <1>8, <2>1
  <2>3. QED
    BY <2>2 DEF KnownAfter
<1>10. QED
  BY <1>1, <1>3, <1>8, <1>9
-----------------------------------------------------------------------------
\* A tensor of any number of chunks, from the file to the indices that are looked up.
PlanesTypes ==
  /\ w \in Weights /\ tier \in Tiers
  /\ DOMAIN buffer = Chunks /\ \A c \in Chunks : buffer[c] \in [Span(Size(c)) -> Bytes]
  /\ host \in [Places -> Bytes] /\ gpu \in [Places -> Bytes]
  /\ held \in [Threads -> Bytes] /\ warp \in [Warps -> {"ready", "loaded", "stored"}]
  /\ step \in [Chunks -> {"queued", "read", "done"}]
  /\ readAs \in [Chunks -> Tiers \cup {Unseen}] /\ copiedAs \in [Chunks -> Tiers \cup {Unseen}]
  /\ stage \in {"load", "stage1", "stage2", "recover", "done"}

\* What a chunk's buffer holds: what was read, and nothing else.
ReadFits ==
  \A c \in Chunks :
    /\ step[c] = "queued" => readAs[c] = Unseen /\ \A k \in Span(Size(c)) : buffer[c][k] = Stale
    /\ step[c] # "done" => copiedAs[c] = Unseen
    /\ step[c] = "read" => \A k \in Span(Size(c)) :
         buffer[c][k] = IF readAs[c] # Unseen /\ k < ReadSize(Size(c), readAs[c])
                          THEN Packed(w)[From(c) + k] ELSE Stale
    /\ step[c] = "read" => readAs[c] \in Tiers

\* What a byte of the pinned buffer is.
HostFits ==
  \A p \in Places : LET c == ChunkOf(p) IN
    /\ step[c] # "done" => host[p] = Stale
    /\ step[c] = "done" /\ copiedAs[c] # 1 =>
         host[p] = IF WasRead(p) THEN Packed(w)[p] ELSE Stale
    /\ step[c] = "done" /\ copiedAs[c] = 1 /\ readAs[c] # 2
       /\ p - From(c) < 4 * (Size(c) \div 4) => host[p] # Stale
Ordered ==
  /\ stage # "load" => \A c \in Chunks : step[c] = "done"
  /\ stage \in {"stage1", "stage2"} => looked = 2
  /\ stage \in {"load", "stage1"} => \A v \in Warps : warp[v] = "ready"

\* While no warp was overtaken, what a warp has yet to load is as it was copied: the
\* threads that write there come later, and are of this warp or of a higher one.
Undisturbed ==
  \A v \in Warps : \A i \in ThreadsOf(v) :
    /\ warp[v] = "ready" /\ (\A u \in Warps : u >= v => warp[u] # "stored")
         => gpu[N \div 2 + i] = host[i]
    /\ warp[v] # "ready" => held[i] = host[i]
    /\ warp[v] = "stored" => \A p \in Places : p \div 2 = i => gpu[p] = Nibble(host[i], p)
AllNibbles == \A p \in Places : gpu[p] = Nibble(host[p \div 2], p)
GpuFits ==
  /\ stage = "stage1" => gpu = host
  /\ stage = "stage2" /\ ~overtaken => Undisturbed
  /\ stage \in {"recover", "done"} /\ looked # 2 => gpu = host
  /\ stage \in {"recover", "done"} /\ looked = 2 /\ ~overtaken => AllNibbles
PlanesInv == PlanesTypes /\ ReadFits /\ HostFits /\ Ordered /\ GpuFits

\* Division by the size of a warp does not change an order.
LEMMA Monotone ==
  ASSUME NEW d \in Nat \ {0}, NEW a \in Nat, NEW b \in Nat, a <= b
  PROVE  a \div d <= b \div d /\ a \div d \in Nat /\ b \div d \in Nat
<1>1. /\ a \div d \in Nat /\ a % d \in 0..(d - 1) /\ a = d * (a \div d) + (a % d)
      /\ b \div d \in Nat /\ b % d \in 0..(d - 1) /\ b = d * (b \div d) + (b % d)
  OBVIOUS
<1> DEFINE p == a \div d
           q == b \div d
<1>2. SUFFICES ASSUME p >= q + 1 PROVE FALSE
  BY <1>1
<1>3. \E k \in Nat : p = q + 1 + k
  <2>1. p - (q + 1) \in Nat /\ p = q + 1 + (p - (q + 1))
    BY <1>1, <1>2
  <2>2. QED
    BY <2>1
<1>4. PICK k \in Nat : p = q + 1 + k
  BY <1>3
<1> HIDE DEF p, q
<1>5. p \in Nat /\ q \in Nat /\ a >= d * p /\ b < d * q + d /\ d * p \in Nat /\ d * q \in Nat
  BY <1>1 DEF p, q
<1>6. d * p = d * q + d + d * k /\ d * k \in Nat
  BY <1>4, <1>5
<1>7. QED
  BY <1>5, <1>6

\* What is in the c-th part of size d is found there.
LEMMA PartOf ==
  ASSUME NEW d \in Nat \ {0}, NEW c \in Nat, NEW k \in 0..(d - 1)
  PROVE  (c * d + k) \div d = c
<1> DEFINE a == c * d + k
           q == a \div d
<1>1. a \in Nat /\ c * d \in Nat
  OBVIOUS
<1>2. q \in Nat /\ a % d \in 0..(d - 1) /\ a = d * q + (a % d)
  BY <1>1
<1>3. ASSUME q >= c + 1 PROVE FALSE
  <2>1. PICK j \in Nat : q = c + 1 + j
    <3>1. q - (c + 1) \in Nat /\ q = c + 1 + (q - (c + 1))
      BY <1>2, <1>3
    <3>2. QED
      BY <3>1
  <2> HIDE DEF q
  <2>2. d * q = c * d + d + d * j /\ d * j \in Nat
    BY <2>1
  <2>3. QED
    BY <1>1, <1>2, <2>2
<1>4. ASSUME c >= q + 1 PROVE FALSE
  <2>1. PICK j \in Nat : c = q + 1 + j
    <3>1. c - (q + 1) \in Nat /\ c = q + 1 + (c - (q + 1))
      BY <1>2, <1>4
    <3>2. QED
      BY <3>1
  <2> HIDE DEF q
  <2>2. c * d = d * q + d + d * j /\ d * j \in Nat /\ d * q \in Nat
    BY <1>2, <2>1
  <2>3. QED
    BY <1>1, <1>2, <2>2
<1>5. QED
  BY <1>2, <1>3, <1>4

\* The chunks are parts of the tensor, and each place is in one.
LEMMA ChunkPlaces ==
  /\ \A c \in Chunks : /\ From(c) \in Nat /\ Size(c) \in Nat
                       /\ \A k \in Span(Size(c)) : From(c) + k \in Places
  /\ \A p \in Places : /\ ChunkOf(p) \in Chunks
                       /\ p - From(ChunkOf(p)) \in Span(Size(ChunkOf(p)))
                       /\ \A c \in Chunks : p - From(c) \in Span(Size(c)) => c = ChunkOf(p)
<1> DEFINE d == PerChunk
<1>1. N \in Nat /\ NumChunks \in Nat \ {0}
  BY PlanesAssumption
<1>2. d \in Nat /\ NumChunks * d >= N /\ NumChunks * d \in Nat
  <2> DEFINE x == N + NumChunks - 1
  <2>1. x \in Nat
    BY <1>1
  <2>2. x \div NumChunks \in Nat /\ x % NumChunks \in 0..(NumChunks - 1)
        /\ x = NumChunks * (x \div NumChunks) + (x % NumChunks)
    BY <1>1, <2>1
  <2>3. d = x \div NumChunks
    BY DEF PerChunk
  <2> HIDE DEF d
  <2>4. d \in Nat /\ NumChunks * d \in Nat
    BY <1>1, <2>2, <2>3
  <2>5. QED
    BY <1>1, <2>2, <2>3, <2>4
<1>3. ASSUME NEW c \in Chunks
      PROVE  /\ c \in Nat /\ From(c) = c * d /\ From(c) \in Nat
             /\ Size(c) \in Nat /\ Size(c) <= d /\ (Size(c) # 0 => From(c) + Size(c) <= N)
  <2>1. c \in Nat
    BY <1>1 DEF Chunks
  <2>2. From(c) = c * d /\ From(c + 1) = c * d + d /\ c * d \in Nat
    <3>1. From(c) = c * d /\ From(c + 1) = (c + 1) * d
      BY DEF From
    <3> HIDE DEF d
    <3>2. (c + 1) * d = c * d + d /\ c * d \in Nat
      BY <1>2, <2>1
    <3>3. QED
      BY <3>1, <3>2
  <2>3. Size(c) = IF c * d + d <= N THEN d ELSE IF c * d <= N THEN N - c * d ELSE 0
    BY <2>2 DEF Size
  <2> HIDE DEF d
  <2> DEFINE e == c * d
  <2>4. e \in Nat /\ Size(c) = IF e + d <= N THEN d ELSE IF e <= N THEN N - e ELSE 0
    BY <2>2, <2>3
  <2> HIDE DEF e
  <2>5. Size(c) \in Nat /\ Size(c) <= d /\ (Size(c) # 0 => e + Size(c) <= N)
    BY <1>1, <1>2, <2>4
  <2>6. QED
    BY <2>1, <2>2, <2>5 DEF e
<1>4. ASSUME NEW c \in Chunks, NEW k \in Span(Size(c)) PROVE From(c) + k \in Places
  BY <1>1, <1>3 DEF Span, Places
<1>5. ASSUME NEW p \in Places, NEW c \in Chunks, p - From(c) \in Span(Size(c))
      PROVE  c = ChunkOf(p)
  <2> DEFINE k == p - From(c)
  <2>1. p \in Nat /\ p = From(c) + k
    BY <1>1, <1>3 DEF Places
  <2>2. k \in 0..(d - 1) /\ d \in Nat \ {0}
    BY <1>2, <1>3, <1>5 DEF Span
  <2> HIDE DEF k, d
  <2>3. p = c * d + k
    BY <1>3, <2>1
  <2>4. p \div d = c
    BY <1>3, <2>2, <2>3, PartOf
  <2>5. QED
    BY <2>4 DEF ChunkOf, d
<1>6. ASSUME NEW p \in Places
      PROVE  ChunkOf(p) \in Chunks /\ p - From(ChunkOf(p)) \in Span(Size(ChunkOf(p)))
  <2> DEFINE q == p \div d
  <2>1. p \in Nat /\ p < N
    BY <1>1 DEF Places
  <2>2. d \in Nat \ {0}
    <3>1. d = 0 => NumChunks * d = 0
      BY <1>1
    <3> HIDE DEF d
    <3>2. QED
      BY <1>2, <2>1, <3>1, <1>1
  <2> HIDE DEF d
  <2>3. q \in Nat /\ p % d \in 0..(d - 1) /\ p = d * q + (p % d)
    BY <2>1, <2>2
  <2> HIDE DEF q
  <2>4. ASSUME q >= NumChunks PROVE FALSE
    <3>1. PICK j \in Nat : q = NumChunks + j
      <4>1. q - NumChunks \in Nat /\ q = NumChunks + (q - NumChunks)
        BY <1>1, <2>3, <2>4
      <4>2. QED
        BY <4>1
    <3>2. d * q = NumChunks * d + d * j /\ d * j \in Nat
      BY <1>1, <2>2, <3>1
    <3>3. QED
      BY <1>1, <1>2, <2>1, <2>3, <3>2
  <2>5. q \in Chunks
    BY <1>1, <2>3, <2>4 DEF Chunks
  <2>6. ChunkOf(p) = q
    BY DEF ChunkOf, q, d
  <2>7. From(q) = q * d /\ From(q + 1) = (q + 1) * d
    BY DEF From, d
  <2>8. (q + 1) * d = q * d + d /\ q * d = d * q /\ q * d \in Nat
    BY <2>2, <2>3
  <2> DEFINE e == q * d
  <2>9. /\ e \in Nat /\ p = e + (p % d) /\ From(q) = e
        /\ Size(q) = IF e + d <= N THEN d ELSE IF e <= N THEN N - e ELSE 0
    BY <2>3, <2>7, <2>8 DEF Size, d
  <2> HIDE DEF e
  <2>10. p - e \in Span(Size(q))
    BY <1>1, <2>1, <2>2, <2>3, <2>9 DEF Span
  <2>11. QED
    BY <2>5, <2>6, <2>9, <2>10
<1>7. QED
  BY <1>3, <1>4, <1>5, <1>6

\* Where a thread of the unpacking kernel reads and writes.
LEMMA ThreadPlaces ==
  /\ \A i \in Threads : /\ i \in Places /\ N \div 2 + i \in Places /\ i < N \div 2
                        /\ (N \div 2 + i) \div 2 \in Threads /\ i <= (N \div 2 + i) \div 2
                        /\ i \div WarpSize \in Warps /\ i \in ThreadsOf(i \div WarpSize)
  /\ \A p \in Places : p \div 2 \in Threads
  /\ \A p \in Places : p >= N \div 2 => p - N \div 2 \in Threads
  /\ \A i, j \in Threads : i <= j => i \div WarpSize <= j \div WarpSize
  /\ N \div 2 \in Nat /\ Warps \subseteq Nat /\ Threads \subseteq Nat
<1>1. PICK m \in Nat : N = 4 * m
  BY PlanesAssumption
<1>2. N \div 2 = 2 * m
  BY <1>1
<1>3. WarpSize \in Nat \ {0}
  BY PlanesAssumption
<1>4. \A i, j \in Threads : i <= j => i \div WarpSize <= j \div WarpSize
  BY <1>3, Monotone DEF Threads
<1>5. ASSUME NEW i \in Threads
      PROVE  i \div WarpSize \in Warps
  <2>1. i \in Nat /\ N \div 2 - 1 \in Nat /\ i <= N \div 2 - 1
    BY <1>1, <1>2 DEF Threads
  <2>2. QED
    BY <1>3, <2>1, Monotone DEF Warps
<1>6. ASSUME NEW i \in Threads
      PROVE  /\ i \in Places /\ N \div 2 + i \in Places /\ i < N \div 2
             /\ (N \div 2 + i) \div 2 \in Threads /\ i <= (N \div 2 + i) \div 2
  <2>1. i \in Nat /\ i < 2 * m
    BY <1>1, <1>2 DEF Threads
  <2>2. (2 * m + i) \div 2 \in Nat /\ (2 * m + i) \div 2 < 2 * m /\ i <= (2 * m + i) \div 2
    BY <2>1
  <2>3. QED
    BY <1>1, <1>2, <2>1, <2>2 DEF Threads, Places
<1>7. \A p \in Places : /\ p \div 2 \in Threads
                        /\ p >= N \div 2 => p - N \div 2 \in Threads
  BY <1>1, <1>2 DEF Threads, Places
<1>8. Warps \subseteq Nat /\ Threads \subseteq Nat
  BY DEF Warps, Threads
<1>9. QED
  BY <1>2, <1>4, <1>5, <1>6, <1>7, <1>8 DEF ThreadsOf

\* The invariant holds at the start, and below each action keeps it.
LEMMA PlanesStart == PlanesInit => PlanesInv
<1> SUFFICES ASSUME PlanesInit PROVE PlanesInv
  OBVIOUS
<1>1. Stale \in Bytes
  BY DEF Stale, Bytes
<1>2. PlanesTypes
  BY <1>1 DEF PlanesInit, PlanesTypes, Span
<1>3. ReadFits
  BY DEF PlanesInit, ReadFits, Span
<1>4. HostFits
  BY ChunkPlaces DEF PlanesInit, HostFits
<1>5. Ordered /\ GpuFits
  BY DEF PlanesInit, Ordered, GpuFits
<1>6. QED
  BY <1>2, <1>3, <1>4, <1>5 DEF PlanesInv

\* The packed indices are bytes, none of which is a stale one.
LEMMA PackedKnown ==
  ASSUME PlanesTypes
  PROVE  /\ w \in [Places -> 0..255] /\ Packed(w) \in [Places -> 0..255]
         /\ \A p \in Places : Packed(w)[p] \in Bytes /\ Packed(w)[p] # Stale
<1>1. w \in [Places -> 0..255]
  BY PlanesAssumption DEF PlanesTypes
<1>2. Packed(w) \in [Places -> 0..255]
  BY <1>1, PackedBytes
<1>3. QED
  BY <1>1, <1>2 DEF Bytes, Stale

\* Neither the chunks nor the host changes after they are loaded.
LEMMA LoadedStays ==
  ASSUME PlanesInv, UNCHANGED <<w, buffer, step, host, readAs, copiedAs>>
  PROVE  ReadFits' /\ HostFits'
<1>1. ReadFits'
  BY DEF PlanesInv, ReadFits
<1>2. \A p : WasRead(p)' <=> WasRead(p)
  BY DEF WasRead
<1>3. HostFits'
  BY <1>2 DEF PlanesInv, HostFits
<1>4. QED
  BY <1>1, <1>3

\* A caller sets the tier, or nothing happens.
LEMMA SetTierKeeps ==
  ASSUME PlanesInv, SetTier \/ UNCHANGED planesVars
  PROVE  PlanesInv'
<1>1. /\ UNCHANGED <<w, buffer, step, host, gpu, held, warp, stage,
                     readAs, copiedAs, looked, overtaken>>
      /\ tier' \in Tiers
  BY DEF PlanesInv, PlanesTypes, SetTier, planesVars
<1>2. PlanesTypes'
  BY <1>1 DEF PlanesInv, PlanesTypes
<1>3. Ordered' /\ GpuFits'
  BY <1>1 DEF PlanesInv, Ordered, GpuFits, AllNibbles, Undisturbed, ThreadsOf, Threads
<1>4. QED
  BY <1>1, <1>2, <1>3, LoadedStays DEF PlanesInv

\* What is so of one chunk when another one has changed.
LEMMA ReadKeeps ==
  ASSUME PlanesInv, NEW c \in Chunks, Read(c)
  PROVE  PlanesInv'
<1>1. PlanesTypes /\ ReadFits /\ HostFits /\ Ordered /\ GpuFits
  BY DEF PlanesInv
<1>2. /\ step[c] = "queued" /\ step' = [step EXCEPT ![c] = "read"]
      /\ buffer' = [buffer EXCEPT ![c] =
           [k \in DOMAIN buffer[c] |-> IF k < ReadSize(Size(c), tier)
                                         THEN Packed(w)[From(c) + k] ELSE buffer[c][k]]]
      /\ readAs' = [readAs EXCEPT ![c] = tier]
      /\ UNCHANGED <<w, tier, host, gpu, held, warp, stage, copiedAs, looked, overtaken, sets>>
  BY DEF Read
<1>3. /\ step' \in [Chunks -> {"queued", "read", "done"}]
      /\ readAs' \in [Chunks -> Tiers \cup {Unseen}] /\ step'[c] = "read" /\ readAs'[c] = tier
      /\ \A e \in Chunks \ {c} : step'[e] = step[e] /\ readAs'[e] = readAs[e]
  BY <1>1, <1>2 DEF PlanesTypes
<1>4. stage = "load" /\ tier \in Tiers /\ tier # Unseen
  BY <1>1, <1>2, PlanesAssumption DEF Ordered, PlanesTypes, Unseen
<1>5. /\ DOMAIN buffer' = Chunks /\ \A e \in Chunks \ {c} : buffer'[e] = buffer[e]
      /\ buffer'[c] = [k \in Span(Size(c)) |-> IF k < ReadSize(Size(c), tier)
                                                 THEN Packed(w)[From(c) + k] ELSE Stale]
  <2>1. DOMAIN buffer = Chunks /\ buffer[c] \in [Span(Size(c)) -> Bytes]
    BY <1>1 DEF PlanesTypes
  <2>2. DOMAIN buffer[c] = Span(Size(c)) /\ \A k \in Span(Size(c)) : buffer[c][k] = Stale
    BY <1>1, <1>2, <2>1 DEF ReadFits
  <2>3. buffer'[c] = [k \in DOMAIN buffer[c] |-> IF k < ReadSize(Size(c), tier)
                                          THEN Packed(w)[From(c) + k] ELSE buffer[c][k]]
    BY <1>2, <2>1
  <2>4. DOMAIN buffer' = Chunks /\ \A e \in Chunks \ {c} : buffer'[e] = buffer[e]
    BY <1>2, <2>1
  <2>5. QED
    BY <2>2, <2>3, <2>4
<1>6. buffer'[c] \in [Span(Size(c)) -> Bytes]
  BY <1>1, <1>5, PackedKnown, ChunkPlaces DEF Stale, Bytes
<1>7. PlanesTypes'
  BY <1>1, <1>2, <1>3, <1>5, <1>6 DEF PlanesTypes
<1>8. ReadFits'
  <2>1. ASSUME NEW e \in Chunks
        PROVE  /\ step'[e] = "queued" => readAs'[e] = Unseen
                                         /\ \A k \in Span(Size(e)) : buffer'[e][k] = Stale
               /\ step'[e] # "done" => copiedAs'[e] = Unseen
               /\ step'[e] = "read" => \A k \in Span(Size(e)) :
                    buffer'[e][k] = IF readAs'[e] # Unseen /\ k < ReadSize(Size(e), readAs'[e])
                                      THEN Packed(w)[From(e) + k] ELSE Stale
               /\ step'[e] = "read" => readAs'[e] \in Tiers
    <3>1. CASE e = c
      BY <1>1, <1>2, <1>3, <1>4, <1>5, <3>1 DEF ReadFits
    <3>2. CASE e # c
      BY <1>1, <1>2, <1>3, <1>5, <3>2 DEF ReadFits
    <3>3. QED
      BY <3>1, <3>2
  <2>2. Packed(w)' = Packed(w)
    BY <1>2
  <2>3. QED
    BY <2>1, <2>2 DEF ReadFits
<1>9. HostFits'
  <2>1. ASSUME NEW p \in Places, ChunkOf(p) # c
        PROVE  WasRead(p)' <=> WasRead(p)
    BY <1>3, <2>1, ChunkPlaces DEF WasRead
  <2>2. QED
    BY <1>1, <1>2, <1>3, <2>1, ChunkPlaces DEF HostFits
<1>10. Ordered' /\ GpuFits'
  BY <1>1, <1>2, <1>4 DEF Ordered, GpuFits
<1>11. QED
  BY <1>7, <1>8, <1>9, <1>10 DEF PlanesInv

\* A read that fails leaves nothing.
LEMMA ReadFailsKeeps ==
  ASSUME PlanesInv, NEW c \in Chunks, ReadFails(c)
  PROVE  PlanesInv'
<1>1. PlanesTypes /\ ReadFits /\ HostFits /\ Ordered /\ GpuFits
  BY DEF PlanesInv
<1>2. /\ step[c] = "queued" /\ step' = [step EXCEPT ![c] = "done"]
      /\ UNCHANGED <<w, tier, buffer, host, gpu, held, warp, stage,
                     readAs, copiedAs, looked, overtaken, sets>>
  BY DEF ReadFails
<1>3. /\ step' \in [Chunks -> {"queued", "read", "done"}] /\ step'[c] = "done"
      /\ \A e \in Chunks \ {c} : step'[e] = step[e]
  BY <1>1, <1>2 DEF PlanesTypes
<1>4. stage = "load" /\ readAs[c] = Unseen /\ copiedAs[c] = Unseen
  BY <1>1, <1>2 DEF Ordered, ReadFits
<1>5. PlanesTypes'
  BY <1>1, <1>2, <1>3 DEF PlanesTypes
<1>6. ReadFits'
  <2>1. \A e \in Chunks : step'[e] # "done" => step'[e] = step[e]
    BY <1>3
  <2>2. QED
    BY <1>1, <1>2, <2>1 DEF ReadFits
<1>7. HostFits'
  <2>1. \A p \in Places : WasRead(p)' <=> WasRead(p)
    BY <1>2 DEF WasRead
  <2>2. \A p \in Places : ChunkOf(p) = c => ~WasRead(p) /\ host[p] = Stale
    BY <1>1, <1>2, <1>4, ChunkPlaces DEF WasRead, HostFits
  <2>3. Unseen # 1
    BY DEF Unseen
  <2>4. QED
    BY <1>1, <1>2, <1>3, <1>4, <2>1, <2>2, <2>3, ChunkPlaces DEF HostFits
<1>8. Ordered' /\ GpuFits'
  BY <1>1, <1>2, <1>4 DEF Ordered, GpuFits
<1>9. QED
  BY <1>5, <1>6, <1>7, <1>8 DEF PlanesInv

\* A chunk is copied to its places; unpacked, what was read of it stays known.
LEMMA CopyKeeps ==
  ASSUME PlanesInv, NEW c \in Chunks, Copy(c)
  PROVE  PlanesInv'
<1>1. PlanesTypes /\ ReadFits /\ HostFits /\ Ordered /\ GpuFits
  BY DEF PlanesInv
<1> DEFINE n == Size(c)
           b == IF tier = 1 THEN WarmUnpacked(buffer[c], n) ELSE buffer[c]
<1>2. /\ step[c] = "read" /\ step' = [step EXCEPT ![c] = "done"]
      /\ host' = [p \in Places |-> IF p - From(c) \in DOMAIN b
                                      THEN b[p - From(c)] ELSE host[p]]
      /\ copiedAs' = [copiedAs EXCEPT ![c] = tier]
      /\ UNCHANGED <<w, tier, buffer, gpu, held, warp, stage, readAs, looked, overtaken, sets>>
  BY DEF Copy
<1>3. /\ step' \in [Chunks -> {"queued", "read", "done"}] /\ step'[c] = "done"
      /\ copiedAs' \in [Chunks -> Tiers \cup {Unseen}] /\ copiedAs'[c] = tier
      /\ \A e \in Chunks \ {c} : step'[e] = step[e] /\ copiedAs'[e] = copiedAs[e]
  BY <1>1, <1>2 DEF PlanesTypes
<1>4. stage = "load"
  BY <1>1, <1>2 DEF Ordered
<1>5. buffer[c] \in [Span(n) -> Bytes] /\ n \in Nat
  BY <1>1, ChunkPlaces DEF PlanesTypes
<1>6. b \in [Span(n) -> Bytes]
  BY <1>5, WarmKnown
<1>7. readAs[c] \in Tiers /\ readAs[c] # Unseen
  BY <1>1, <1>2, PlanesAssumption DEF ReadFits, Unseen
<1>8. \A k \in Span(n) : buffer[c][k] = IF k < ReadSize(n, readAs[c])
                                          THEN Packed(w)[From(c) + k] ELSE Stale
  BY <1>1, <1>2, <1>7 DEF ReadFits
<1>9. tier # 1 => b = buffer[c]
  OBVIOUS
<1>10. ASSUME tier = 1, readAs[c] # 2, NEW k \in Span(n), k < 4 * (n \div 4)
       PROVE  b[k] # Stale
  <2>1. readAs[c] \in {0, 1}
    BY <1>7, <1>10, PlanesAssumption
  <2>2. ASSUME NEW j \in Span(n), j < (n * 3) \div 4 PROVE buffer[c][j] # Stale
    <3>1. j < n
      BY <1>5 DEF Span
    <3>2. j < ReadSize(n, readAs[c])
      BY <2>1, <2>2, <3>1 DEF ReadSize
    <3>3. From(c) + j \in Places
      BY ChunkPlaces
    <3>4. QED
      BY <1>1, <1>8, <3>2, <3>3, PackedKnown
  <2>3. WarmUnpacked(buffer[c], n)[k] # Stale
    BY <1>5, <1>10, <2>2, WarmKnown
  <2>4. QED
    BY <1>10, <2>3
<1> HIDE DEF b
<1>11. \A p \in Places : p - From(c) \in DOMAIN b <=> ChunkOf(p) = c
  BY <1>6, ChunkPlaces
<1>12. \A p \in Places : host'[p] = IF ChunkOf(p) = c THEN b[p - From(c)] ELSE host[p]
  BY <1>2, <1>11
<1>13. host' \in [Places -> Bytes]
  <2>1. \A p \in Places : p - From(c) \in DOMAIN b => b[p - From(c)] \in Bytes
    BY <1>6
  <2>2. QED
    BY <1>1, <1>2, <2>1 DEF PlanesTypes
<1>14. PlanesTypes'
  BY <1>1, <1>2, <1>3, <1>13 DEF PlanesTypes
<1>15. ReadFits'
  <2>1. \A e \in Chunks : step'[e] # "done" => step'[e] = step[e] /\ copiedAs'[e] = copiedAs[e]
    BY <1>3
  <2>2. QED
    BY <1>1, <1>2, <2>1 DEF ReadFits
<1>16. HostFits'
  <2>1. \A p \in Places : WasRead(p)' <=> WasRead(p)
    BY <1>2 DEF WasRead
  <2>2. ASSUME NEW p \in Places, ChunkOf(p) = c
        PROVE  /\ tier # 1 => host'[p] = IF WasRead(p) THEN Packed(w)[p] ELSE Stale
               /\ tier = 1 /\ readAs[c] # 2 /\ p - From(c) < 4 * (n \div 4) => host'[p] # Stale
    <3> DEFINE k == p - From(c)
    <3>1. k \in Span(n) /\ From(c) + k = p
      <4>1. p \in Int /\ From(c) \in Nat
        BY ChunkPlaces DEF Places
      <4>2. QED
        BY <2>2, <4>1, ChunkPlaces
    <3>2. host'[p] = b[k]
      BY <1>12, <2>2
    <3>3. WasRead(p) <=> k < ReadSize(n, readAs[c])
      BY <1>7, <2>2 DEF WasRead
    <3> HIDE DEF k
    <3>4. tier # 1 => b[k] = IF WasRead(p) THEN Packed(w)[p] ELSE Stale
      BY <1>8, <1>9, <3>1, <3>3
    <3>5. tier = 1 /\ readAs[c] # 2 /\ k < 4 * (n \div 4) => b[k] # Stale
      BY <1>10, <3>1
    <3>6. QED
      BY <3>2, <3>4, <3>5 DEF k
  <2>3. Packed(w)' = Packed(w)
    BY <1>2
  <2>4. ASSUME NEW p \in Places, ChunkOf(p) # c
        PROVE  /\ host'[p] = host[p] /\ step'[ChunkOf(p)] = step[ChunkOf(p)]
               /\ copiedAs'[ChunkOf(p)] = copiedAs[ChunkOf(p)]
    BY <1>3, <1>12, <2>4, ChunkPlaces
  <2>5. QED
    BY <1>1, <1>2, <1>3, <2>1, <2>2, <2>3, <2>4 DEF HostFits
<1>17. Ordered' /\ GpuFits'
  BY <1>1, <1>2, <1>4 DEF Ordered, GpuFits
<1>18. QED
  BY <1>14, <1>15, <1>16, <1>17 DEF PlanesInv

\* The GPU gets the bytes of the host.
LEMMA SetDeviceKeeps ==
  ASSUME PlanesInv, SetDevice
  PROVE  PlanesInv'
<1>1. PlanesTypes /\ Ordered
  BY DEF PlanesInv
<1>2. /\ stage = "load" /\ gpu' = host /\ looked' = tier
      /\ \A c \in Chunks : step[c] = "done"
      /\ stage' = IF tier = 2 THEN "stage1" ELSE "recover"
      /\ UNCHANGED <<w, tier, buffer, step, host, held, warp, readAs, copiedAs, overtaken, sets>>
  BY DEF SetDevice
<1>3. PlanesTypes'
  BY <1>1, <1>2 DEF PlanesTypes
<1>4. Ordered'
  BY <1>1, <1>2 DEF Ordered
<1>5. GpuFits'
  BY <1>2 DEF GpuFits
<1>6. QED
  BY <1>2, <1>3, <1>4, <1>5, LoadedStays DEF PlanesInv

\* The first stage copies the low section above the middle, where none has stored yet.
LEMMA Stage1Keeps ==
  ASSUME PlanesInv, Stage1
  PROVE  PlanesInv'
<1>1. PlanesTypes /\ Ordered /\ GpuFits
  BY DEF PlanesInv
<1>2. /\ stage = "stage1" /\ stage' = "stage2"
      /\ gpu' = [p \in Places |-> IF p >= N \div 2 THEN gpu[p - N \div 2] ELSE gpu[p]]
      /\ UNCHANGED <<w, tier, buffer, step, host, held, warp,
                     readAs, copiedAs, looked, overtaken, sets>>
  BY DEF Stage1, Stage1Copy
<1>3. \A p \in Places : p >= N \div 2 => p - N \div 2 \in Places
  BY ThreadPlaces
<1>4. PlanesTypes'
  BY <1>1, <1>2, <1>3 DEF PlanesTypes
<1>5. Ordered' /\ \A v \in Warps : warp'[v] = "ready"
  BY <1>1, <1>2 DEF Ordered
<1>6. ASSUME NEW v \in Warps, NEW i \in ThreadsOf(v)
      PROVE  gpu'[N \div 2 + i] = host[i]
  <2>1. i \in Threads /\ gpu = host
    BY <1>1, <1>2 DEF ThreadsOf, GpuFits
  <2>2. N \div 2 + i \in Places /\ i \in Nat /\ N \div 2 \in Nat
    BY <2>1, ThreadPlaces
  <2>3. (N \div 2 + i) - N \div 2 = i /\ N \div 2 + i >= N \div 2
    BY <2>2
  <2>4. QED
    BY <1>2, <2>1, <2>2, <2>3
<1>7. Undisturbed'
  BY <1>2, <1>5, <1>6 DEF Undisturbed, ThreadsOf, Threads
<1>8. GpuFits'
  BY <1>2, <1>7 DEF GpuFits
<1>9. QED
  BY <1>2, <1>4, <1>5, <1>8, LoadedStays DEF PlanesInv

\* The recovery kernel only looks up.
LEMMA RecoverKeeps ==
  ASSUME PlanesInv, Recover
  PROVE  PlanesInv'
<1>1. /\ stage = "recover" /\ stage' = "done"
      /\ UNCHANGED <<w, tier, buffer, step, host, gpu, held, warp,
                     readAs, copiedAs, looked, overtaken, sets>>
  BY DEF Recover
<1>2. PlanesTypes' /\ Ordered'
  BY <1>1 DEF PlanesInv, PlanesTypes, Ordered
<1>3. GpuFits'
  BY <1>1 DEF PlanesInv, GpuFits, AllNibbles
<1>4. QED
  BY <1>1, <1>2, <1>3, LoadedStays DEF PlanesInv

\* A warp loads its part of the copy, unless a higher one wrote over that.
LEMMA WarpLoadKeeps ==
  ASSUME PlanesInv, NEW v \in Warps, WarpLoad(v)
  PROVE  PlanesInv'
<1>1. PlanesTypes /\ Ordered /\ GpuFits
  BY DEF PlanesInv
<1>2. /\ stage = "stage2" /\ warp[v] = "ready" /\ warp' = [warp EXCEPT ![v] = "loaded"]
      /\ held' = [i \in Threads |-> IF i \in ThreadsOf(v) THEN gpu[N \div 2 + i] ELSE held[i]]
      /\ overtaken' = (overtaken \/ \E u \in Warps : u > v /\ warp[u] = "stored")
      /\ UNCHANGED <<w, tier, buffer, step, host, gpu, stage, readAs, copiedAs, looked, sets>>
  BY DEF WarpLoad
<1>3. /\ \A i \in Threads : N \div 2 + i \in Places
      /\ \A u \in Warps : \A i \in ThreadsOf(u) : i \in Threads /\ (i \in ThreadsOf(v) => u = v)
  BY ThreadPlaces DEF ThreadsOf
<1>4. /\ warp' \in [Warps -> {"ready", "loaded", "stored"}]
      /\ \A u \in Warps : warp'[u] = IF u = v THEN "loaded" ELSE warp[u]
  BY <1>1, <1>2 DEF PlanesTypes
<1>5. held' \in [Threads -> Bytes]
  BY <1>1, <1>2, <1>3 DEF PlanesTypes
<1>6. PlanesTypes' /\ Ordered'
  BY <1>1, <1>2, <1>4, <1>5 DEF PlanesTypes, Ordered
<1>7. ASSUME ~overtaken', NEW u \in Warps, NEW i \in ThreadsOf(u)
      PROVE  /\ warp'[u] = "ready" /\ (\A x \in Warps : x >= u => warp'[x] # "stored")
                  => gpu'[N \div 2 + i] = host'[i]
             /\ warp'[u] # "ready" => held'[i] = host'[i]
             /\ warp'[u] = "stored" =>
                  \A p \in Places : p \div 2 = i => gpu'[p] = Nibble(host'[i], p)
  <2>1. Undisturbed /\ \A x \in Warps : x > v => warp[x] # "stored"
    BY <1>1, <1>2, <1>7 DEF GpuFits
  <2>2. CASE u = v
    <3>1. \A x \in Warps : x >= v => warp[x] # "stored"
      BY <1>2, <2>1, ThreadPlaces
    <3>2. gpu[N \div 2 + i] = host[i]
      BY <1>2, <1>7, <2>1, <2>2, <3>1 DEF Undisturbed
    <3>3. held'[i] = gpu[N \div 2 + i]
      BY <1>2, <1>3, <1>7, <2>2
    <3>4. QED
      BY <1>2, <1>4, <2>2, <3>2, <3>3
  <2>3. CASE u # v
    <3>1. held'[i] = held[i] /\ warp'[u] = warp[u]
      BY <1>2, <1>3, <1>4, <1>7, <2>3
    <3>2. (\A x \in Warps : x >= u => warp'[x] # "stored")
            => \A x \in Warps : x >= u => warp[x] # "stored"
      BY <1>2, <1>4
    <3>3. /\ warp[u] = "ready" /\ (\A x \in Warps : x >= u => warp[x] # "stored")
               => gpu[N \div 2 + i] = host[i]
          /\ warp[u] # "ready" => held[i] = host[i]
          /\ warp[u] = "stored" =>
               \A p \in Places : p \div 2 = i => gpu[p] = Nibble(host[i], p)
      BY <1>7, <2>1 DEF Undisturbed
    <3>4. QED
      BY <1>2, <3>1, <3>2, <3>3
  <2>4. QED
    BY <2>2, <2>3
<1>8. ~overtaken' => Undisturbed'
  BY <1>7 DEF Undisturbed, ThreadsOf, Threads
<1>9. GpuFits'
  BY <1>2, <1>8 DEF GpuFits
<1>10. QED
  BY <1>2, <1>6, <1>9, LoadedStays DEF PlanesInv

\* A warp stores where no other stores; only its own places change.
LEMMA WarpStoreKeeps ==
  ASSUME PlanesInv, NEW v \in Warps, WarpStore(v)
  PROVE  PlanesInv'
<1>1. PlanesTypes /\ Ordered /\ GpuFits
  BY DEF PlanesInv
<1>2. /\ stage = "stage2" /\ warp[v] = "loaded" /\ warp' = [warp EXCEPT ![v] = "stored"]
      /\ gpu' = [p \in Places |-> IF p \div 2 \in ThreadsOf(v)
                                    THEN Nibble(held[p \div 2], p) ELSE gpu[p]]
      /\ stage' = IF \A u \in Warps : warp'[u] = "stored" THEN "recover" ELSE stage
      /\ UNCHANGED <<w, tier, buffer, step, host, held, readAs, copiedAs,
                     looked, overtaken, sets>>
  BY DEF WarpStore
<1>3. /\ \A u \in Warps : \A i \in ThreadsOf(u) : i \in Threads /\ (i \in ThreadsOf(v) => u = v)
      /\ \A p \in Places : p \div 2 \in Threads
  BY ThreadPlaces DEF ThreadsOf
<1>4. /\ warp' \in [Warps -> {"ready", "loaded", "stored"}]
      /\ \A u \in Warps : warp'[u] = IF u = v THEN "stored" ELSE warp[u]
  BY <1>1, <1>2 DEF PlanesTypes
<1>5. ASSUME NEW b \in Bytes, NEW p \in Places PROVE Nibble(b, p) \in Bytes
  <2>1. CASE b = Stale
    BY <2>1 DEF Nibble, Of, Bytes, Stale
  <2>2. CASE b # Stale
    <3>1. b \in 0..255
      BY <2>2 DEF Bytes, Stale
    <3>2. QED
      BY <3>1 DEF Nibble, Of, Bytes, Stale
  <2>3. QED
    BY <2>1, <2>2
<1>6. gpu' \in [Places -> Bytes]
  BY <1>1, <1>2, <1>3, <1>5 DEF PlanesTypes
<1>7. PlanesTypes' /\ Ordered'
  BY <1>1, <1>2, <1>4, <1>6 DEF PlanesTypes, Ordered
<1>8. ASSUME ~overtaken, NEW u \in Warps, NEW i \in ThreadsOf(u)
      PROVE  /\ warp'[u] = "ready" /\ (\A x \in Warps : x >= u => warp'[x] # "stored")
                  => gpu'[N \div 2 + i] = host[i]
             /\ warp'[u] # "ready" => held'[i] = host[i]
             /\ warp'[u] = "stored" =>
                  \A p \in Places : p \div 2 = i => gpu'[p] = Nibble(host[i], p)
  <2>1. /\ warp[u] = "ready" /\ (\A x \in Warps : x >= u => warp[x] # "stored")
             => gpu[N \div 2 + i] = host[i]
        /\ warp[u] # "ready" => held[i] = host[i]
        /\ warp[u] = "stored" =>
             \A p \in Places : p \div 2 = i => gpu[p] = Nibble(host[i], p)
    BY <1>1, <1>2, <1>8 DEF GpuFits, Undisturbed
  <2>2. i \in Threads /\ i \div WarpSize = u
    BY <1>8 DEF ThreadsOf
  <2>3. ASSUME warp'[u] = "ready", \A x \in Warps : x >= u => warp'[x] # "stored"
        PROVE  gpu'[N \div 2 + i] = host[i]
    <3>1. warp[u] = "ready" /\ \A x \in Warps : x >= u => warp[x] # "stored"
      BY <1>4, <2>3
    <3>2. ~(v >= u) /\ v \in Nat /\ u \in Nat
      BY <1>4, <2>3, ThreadPlaces
    <3> DEFINE e == N \div 2 + i
    <3>3. e \in Places /\ e \div 2 \in Threads /\ i <= e \div 2
      BY <2>2, ThreadPlaces
    <3>4. u <= (e \div 2) \div WarpSize /\ (e \div 2) \div WarpSize \in Warps
      BY <2>2, <3>3, ThreadPlaces
    <3>5. (e \div 2) \div WarpSize # v
      BY <3>2, <3>4, ThreadPlaces
    <3>6. e \div 2 \notin ThreadsOf(v)
      BY <3>5 DEF ThreadsOf
    <3>7. gpu'[e] = gpu[e]
      BY <1>2, <3>3, <3>6
    <3>8. QED
      BY <2>1, <3>1, <3>7
  <2>4. warp'[u] # "ready" => held'[i] = host[i]
    BY <1>2, <1>4, <2>1
  <2>5. ASSUME warp'[u] = "stored", NEW p \in Places, p \div 2 = i
        PROVE  gpu'[p] = Nibble(host[i], p)
    <3>1. CASE u = v
      BY <1>2, <1>8, <2>1, <2>5, <3>1
    <3>2. CASE u # v
      BY <1>2, <1>3, <1>4, <1>8, <2>1, <2>5, <3>2
    <3>3. QED
      BY <3>1, <3>2
  <2>6. QED
    BY <2>3, <2>4, <2>5
<1>9. ~overtaken' => Undisturbed'
  BY <1>2, <1>8 DEF Undisturbed, ThreadsOf, Threads
<1>10. ASSUME \A u \in Warps : warp'[u] = "stored", ~overtaken'
       PROVE  AllNibbles'
  <2>1. ASSUME NEW p \in Places PROVE gpu'[p] = Nibble(host'[p \div 2], p)
    <3>1. p \div 2 \in Threads /\ (p \div 2) \div WarpSize \in Warps
          /\ p \div 2 \in ThreadsOf((p \div 2) \div WarpSize)
      BY ThreadPlaces
    <3>2. QED
      BY <1>2, <1>8, <1>10, <3>1
  <2>2. QED
    BY <2>1 DEF AllNibbles
<1>11. GpuFits'
  <2>1. looked' = 2
    BY <1>1, <1>2 DEF Ordered
  <2>2. QED
    BY <1>2, <1>9, <1>10, <2>1 DEF GpuFits
<1>12. QED
  BY <1>2, <1>7, <1>11, LoadedStays DEF PlanesInv

\* PlanesInv is an invariant.
LEMMA PlanesInductive == PlanesSpec => []PlanesInv
<1>1. PlanesInit => PlanesInv
  BY PlanesStart
<1>2. PlanesInv /\ [PlanesNext]_planesVars => PlanesInv'
  <2> SUFFICES ASSUME PlanesInv, [PlanesNext]_planesVars PROVE PlanesInv'
    OBVIOUS
  <2>1. CASE SetTier \/ UNCHANGED planesVars
    BY <2>1, SetTierKeeps
  <2>2. CASE SetDevice
    BY <2>2, SetDeviceKeeps
  <2>3. CASE Stage1
    BY <2>3, Stage1Keeps
  <2>4. CASE Recover
    BY <2>4, RecoverKeeps
  <2>5. CASE \E c \in Chunks : Read(c) \/ ReadFails(c) \/ Copy(c)
    BY <2>5, ReadKeeps, ReadFailsKeeps, CopyKeeps
  <2>6. CASE \E v \in Warps : WarpLoad(v) \/ WarpStore(v)
    BY <2>6, WarpLoadKeeps, WarpStoreKeeps
  <2>7. QED
    BY <2>1, <2>2, <2>3, <2>4, <2>5, <2>6 DEF PlanesNext
<1>3. QED
  BY <1>1, <1>2, PTL DEF PlanesSpec

\* What is looked up is accounted for byte by byte, whatever tier each reader saw and
\* whichever reads failed: what was read, or a stale byte where nothing was; and the
\* unpacking on the GPU keeps each nibble unless a warp loads after a higher one stored.
\* For tensors and warps of any size, and any number of chunks.
THEOREM AccountedFor == PlanesSpec => []LooksUpWhatWasRead
<1>1. PlanesInv => LooksUpWhatWasRead
  <2> SUFFICES ASSUME PlanesInv, stage = "done", NEW p \in Places,
                      NEW b, b = IF looked = 2 THEN p \div 2 ELSE p
               PROVE  LET c == ChunkOf(b) IN
                      /\ copiedAs[c] # 1 /\ ~(looked = 2 /\ overtaken) =>
                           gpu[p] = IF ~WasRead(b) THEN Stale
                                      ELSE IF looked = 2 THEN w[p] % 16 ELSE Packed(w)[p]
                      /\ copiedAs[c] = 1 /\ readAs[c] # 2 /\ looked # 2
                         /\ b - From(c) < 4 * (Size(c) \div 4) => gpu[p] # Stale
    BY DEF LooksUpWhatWasRead
  <2>1. PlanesTypes /\ HostFits /\ Ordered /\ GpuFits
    BY DEF PlanesInv
  <2>2. b \in Places
    BY ThreadPlaces
  <2>3. ChunkOf(b) \in Chunks /\ step[ChunkOf(b)] = "done"
    BY <2>1, <2>2, ChunkPlaces DEF Ordered
  <2>4. /\ copiedAs[ChunkOf(b)] # 1 =>
             host[b] = IF WasRead(b) THEN Packed(w)[b] ELSE Stale
        /\ copiedAs[ChunkOf(b)] = 1 /\ readAs[ChunkOf(b)] # 2
           /\ b - From(ChunkOf(b)) < 4 * (Size(ChunkOf(b)) \div 4) => host[b] # Stale
    BY <2>1, <2>2, <2>3 DEF HostFits
  <2>5. CASE looked = 2
    <3>1. ~overtaken => gpu[p] = Nibble(host[p \div 2], p)
      BY <2>1, <2>5 DEF GpuFits, AllNibbles
    <3>2. Nibble(Packed(w)[p \div 2], p) = w[p] % 16
      BY <2>1, PackedKnown, LowNibble
    <3>3. Nibble(Stale, p) = Stale
      BY DEF Nibble, Of
    <3>4. QED
      BY <2>4, <2>5, <3>1, <3>2, <3>3
  <2>6. CASE looked # 2
    <3>1. gpu = host /\ b = p
      BY <2>1, <2>6 DEF GpuFits
    <3>2. QED
      BY <2>4, <2>6, <3>1
  <2>7. QED
    BY <2>5, <2>6
<1>2. QED
  BY <1>1, PlanesInductive, PTL
=============================================================================
