--------------------------- MODULE OffloadStore ----------------------------
(* Turning a checkpoint into an offload directory, and starting from one.
   Three files hold a model: the data file, to which tensors are appended, the
   index, which the engine rewrites in place after each tensor or batch, and
   name_id_map.json, which from_pretrained writes once at the end. A process may
   crash between any two steps; what it wrote stays, what it held is lost.

   A tensor is its position in the checkpoint files' order, which is the same at
   every start. Its id is the number of ids handed out before it.           *)
EXTENDS Integers, Sequences, FiniteSets

CONSTANTS NumTensors,  \* tensors in the checkpoint
          Sparse,      \* those that belong to an expert; they are stored in batches
          FileEnds,    \* the last tensor of each checkpoint file
          MaxBatch,    \* int(num_compute_threads / num_file_chunks)
          MaxCrashes   \* bound of the model

Tensors == 1..NumTensors
Ids == 0..(NumTensors - 1)
Half == 0              \* in the data file: a tensor a crash cut short
Absent == -1           \* in an index or a map: no entry
NoOffset == 0          \* in an index: an entry whose offsets were never set

ASSUME StoreAssumption == /\ NumTensors \in Nat \ {0} /\ MaxBatch \in Nat
                          /\ MaxCrashes \in Nat
                          /\ Sparse \subseteq Tensors /\ FileEnds \subseteq Tensors
                          /\ NumTensors \in FileEnds

VARIABLES
  data,       \* the data file: the tensor at each offset
  indexFile,  \* lut_moe_index: there, whole (not cut off), its entries
  mapFile,    \* name_id_map.json: "none", "torn" or "whole", and the ids in it
  index,      \* kTensorIndex: the offset of each id
  nameId,     \* name_id_map in memory
  paramId,    \* the next parameter id
  next,       \* the tensor the checkpoint loop is at
  batch,      \* sparse tensors that have an id and wait to be stored
  todo,       \* tensors being stored
  pc,
  crashes
disk == <<data, indexFile, mapFile>>
vars == <<data, indexFile, mapFile, index, nameId, paramId, next, batch, todo,
          pc, crashes>>

Nothing == [i \in Ids |-> Absent]
Nameless == [t \in Tensors |-> Absent]
Init == /\ data = <<>>
        /\ indexFile = [there |-> FALSE, whole |-> TRUE, entries |-> Nothing]
        /\ mapFile = [state |-> "none", ids |-> Nameless]
        /\ index = Nothing /\ nameId = Nameless /\ paramId = 0 /\ next = 1
        /\ batch = {} /\ todo = {} /\ pc = "down" /\ crashes = 0
-----------------------------------------------------------------------------
\* Starting.
FromScratch == ~indexFile.there \/ mapFile.state = "none"

\* The handle's constructor loads the index if the file is there; an entry the
\* file's end cuts off is loaded with whatever part of it is missing left unset.
Booted(where, ids) ==
  /\ pc = "down"
  /\ index' = IF indexFile.there THEN indexFile.entries ELSE Nothing
  /\ nameId' = ids /\ pc' = where
  /\ paramId' = 0 /\ next' = 1 /\ batch' = {} /\ todo' = {}
  /\ UNCHANGED <<disk, crashes>>

BootFromScratch == FromScratch /\ Booted("create", Nameless)
BootFromFiles == /\ ~FromScratch /\ mapFile.state = "whole"
                 /\ Booted("ready", mapFile.ids)
\* json.load raises on a map that a crash cut short
BootOnTornMap == ~FromScratch /\ mapFile.state = "torn" /\ Booted("failed", Nameless)
\* a count or a vector length read past the end of the index is arbitrary: the
\* constructor may run out of memory on it
BootOnTornIndex == /\ indexFile.there /\ ~indexFile.whole
                   /\ Booted("failed", Nameless)

\* Creating: the loop over the checkpoint files.
NamedTwice(t) == /\ nameId' = [nameId EXCEPT ![t] = paramId]   \* a bug: takes two ids
                 /\ paramId' = paramId + 2 /\ next' = t + 1
Named(t) == /\ nameId' = [nameId EXCEPT ![t] = paramId]
            /\ paramId' = paramId + 1 /\ next' = t + 1
Stores(S) == todo' = S /\ batch' = {} /\ pc' = "insert"
Full(B) == Cardinality(B) = MaxBatch
EndsNever(t) == t > NumTensors   \* a bug: what is pending at a file's end is dropped
EndsFile(t) == t \in FileEnds

\* an expert's tensor gets its id at once and waits for its batch
TakeSparse ==
  /\ pc = "create" /\ next \in Sparse
  /\ Named(next)
  /\ LET B == batch \cup {next} IN
     IF Full(B) \/ EndsFile(next)
       THEN Stores(B) ELSE batch' = B /\ UNCHANGED <<todo, pc>>
  /\ UNCHANGED <<disk, index, crashes>>

\* any other tensor first has the pending batch stored
FlushBatch ==
  /\ pc = "create" /\ next \in Tensors \ Sparse /\ batch # {}
  /\ Stores(batch)
  /\ UNCHANGED <<disk, index, nameId, paramId, next, crashes>>

\* then it is stored itself, unless an earlier start has done so
IsTensorOffloaded(id) == index[id] # Absent
TakeDense ==
  /\ pc = "create" /\ next \in Tensors \ Sparse /\ batch = {}
  /\ Named(next)
  /\ IF IsTensorOffloaded(paramId)
       THEN UNCHANGED <<batch, todo, pc>> ELSE Stores({next})
  /\ UNCHANGED <<disk, index, crashes>>

\* StoreTensor and BatchStoreTensor enter the ids first; one that is in the index
\* already is fatal.
Insert ==
  /\ pc = "insert"
  /\ IF \E t \in todo : index[nameId[t]] # Absent
       THEN pc' = "aborted" /\ UNCHANGED index
       ELSE /\ index' = [i \in Ids |-> IF \E t \in todo : nameId[t] = i
                                         THEN NoOffset ELSE index[i]]
            /\ pc' = "append"
  /\ UNCHANGED <<disk, nameId, paramId, next, batch, todo, crashes>>

\* their bytes are appended one by one, the offset goes to the entry
OffsetCounted(d) == Cardinality({i \in Ids : index[i] > NoOffset}) + 1  \* a bug
OffsetIn(d) == Len(d)
AppendBytes ==
  /\ pc = "append"
  /\ \E t \in todo :
       /\ \A u \in todo : t <= u
       /\ data' = Append(data, t)
       /\ index' = [index EXCEPT ![nameId[t]] = OffsetIn(data')]
       /\ todo' = todo \ {t}
       /\ pc' = IF todo = {t} THEN "serialize" ELSE pc
  /\ UNCHANGED <<indexFile, mapFile, nameId, paramId, next, batch, crashes>>

\* the whole index is written over the old one
WholeIndex == [there |-> TRUE, whole |-> TRUE, entries |-> index]
Serialize ==
  /\ pc = "serialize" /\ indexFile' = WholeIndex /\ pc' = "create"
  /\ UNCHANGED <<data, mapFile, index, nameId, paramId, next, batch, todo, crashes>>

\* when all files have been read the map is written and the data file opened
WriteMapPerFile ==   \* a bug: the map is written when each file has been read
  /\ pc = "create" /\ next - 1 \in FileEnds /\ nameId # mapFile.ids
  /\ mapFile' = [state |-> "whole", ids |-> nameId]
  /\ pc' = IF next > NumTensors THEN "ready" ELSE "create"
  /\ UNCHANGED <<data, indexFile, index, nameId, paramId, next, batch, todo, crashes>>
WriteMap ==
  /\ pc = "create" /\ next > NumTensors
  /\ mapFile' = [state |-> "whole", ids |-> nameId] /\ pc' = "ready"
  /\ UNCHANGED <<data, indexFile, index, nameId, paramId, next, batch, todo, crashes>>
-----------------------------------------------------------------------------
\* A crash. The file being written is left with a part of what was to be written.
Present == {i \in Ids : index[i] # Absent}
CutEntries(S, c) == [i \in Ids |-> IF i \in S THEN index[i]
                                   ELSE IF i \in c THEN NoOffset ELSE Absent]
CutFiles == {[there |-> TRUE, whole |-> FALSE, entries |-> CutEntries(S, c)] :
               S \in SUBSET Present, c \in {{}} \cup {{i} : i \in Present}}

DiskAfterCrash ==
  CASE pc = "append" ->
         data' \in {data, Append(data, Half)} /\ UNCHANGED <<indexFile, mapFile>>
    [] pc = "serialize" ->
         indexFile' \in CutFiles \cup {indexFile} /\ UNCHANGED <<data, mapFile>>
    [] pc = "create" /\ next > NumTensors ->
         /\ mapFile' \in {mapFile, [state |-> "torn", ids |-> Nameless]}
         /\ UNCHANGED <<data, indexFile>>
    [] OTHER -> UNCHANGED disk

Crash ==
  /\ pc # "down" /\ crashes < MaxCrashes
  /\ DiskAfterCrash
  /\ pc' = "down" /\ crashes' = crashes + 1
  /\ index' = Nothing /\ nameId' = Nameless /\ paramId' = 0 /\ next' = 1
  /\ batch' = {} /\ todo' = {}

Boot == BootFromScratch \/ BootFromFiles \/ BootOnTornMap \/ BootOnTornIndex
Work == \/ Boot \/ TakeSparse \/ FlushBatch \/ TakeDense
        \/ Insert \/ AppendBytes \/ Serialize \/ WriteMap
Next == Work \/ Crash
Spec == Init /\ [][Next]_vars
-----------------------------------------------------------------------------
Positions == {Absent} \cup Nat
TypeOK == /\ data \in Seq(Tensors \cup {Half})
          /\ indexFile \in [there : BOOLEAN, whole : BOOLEAN,
                            entries : [Ids -> Positions]]
          /\ mapFile \in [state : {"none", "torn", "whole"},
                          ids : [Tensors -> {Absent} \cup Ids]]
          /\ index \in [Ids -> Positions]
          /\ nameId \in [Tensors -> {Absent} \cup Ids]
          /\ paramId \in 0..NumTensors /\ next \in 1..(NumTensors + 1)
          /\ batch \subseteq Tensors /\ todo \subseteq Tensors
          /\ pc \in {"down", "create", "insert", "append", "serialize", "ready",
                     "aborted", "failed"}
          /\ crashes \in 0..MaxCrashes

\* The tensor that has the id i at every start.
TensorOf(i) == i + 1
Names(entries) == \A i \in Ids : entries[i] \in {Absent, NoOffset}
                                 \/ (/\ entries[i] \in 1..Len(data)
                                     /\ data[entries[i]] = TensorOf(i))

\* Whatever starts and crashes went before, an entry of the index file that has an
\* offset has the offset of its own tensor's bytes, in the file and in memory: the
\* index is written after the data it names, and ids mean the same at each start.
IndexNamesStoredData == Names(indexFile.entries) /\ Names(index)

\* A process that is ready serves each tensor from its own bytes, except a dense
\* tensor whose entry a crash cut off: the next start took that for stored. A start
\* fails, by an exception or a fatal error, only after a crash.
ReadyServesModel ==
  /\ pc = "ready" => \A t \in Tensors :
       LET o == index[nameId[t]] IN
         \/ o \in DOMAIN data /\ data[o] = t
         \/ o = NoOffset /\ t \notin Sparse /\ crashes > 0
  /\ pc \in {"aborted", "failed"} => crashes > 0

\* Once the name map is complete no start and no crash changes any of the files.
PublishedStays == [][mapFile.state = "whole" => UNCHANGED disk]_vars

\* What the fatal message of StoreTensor and BatchStoreTensor says never happens.
NotOffloadedTwice == pc # "aborted"
=============================================================================
