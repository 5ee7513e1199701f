----------------------------- MODULE Documents -----------------------------
(* The object graphs that the plugins Paint, Notepad and SmartBase keep       *)
(* (src/plugins/paint, notepad, smartbase; src/sdk/src/pbx.ts) in a           *)
(* ScopedStorage: one file of a plugin with all its documents, which a set    *)
(* reads and writes back as a whole (src/core/src/storage).  A skill loads    *)
(* one document, may ask the AI, changes its copy and sets it, with awaits in *)
(* between; two processes may share the data directory.                       *)
(* A behaviour is about the file of one plugin, and runs the skills of that   *)
(* plugin.  A graph is its objects and their links: the root links to the     *)
(* layers of a canvas, the blocks of a note, the tables of a database and to  *)
(* what is embedded; a table links to its records.  What an object holds is   *)
(* data that no guard reads.                                                  *)
LOCAL INSTANCE Naturals
LOCAL INSTANCE Sequences

CONSTANTS
    Keys,       \* the keys of the plugin's documents
    Skills,     \* the skill calls that may be under way together
    Runs,       \* the processes
    RunsIn,     \* per call: its process
    First,      \* an object that is there from the start
    Nothing     \* no document, no key

Root == "root"   \* the root of a document, which is no object of it

ASSUME DocumentsAssumption ==
    RunsIn \in [Skills -> Runs] /\ First \notin Skills /\ Root \notin Skills \cup {First}

Plugins == {"paint", "notepad", "smartbase"}

VARIABLES
    plugin,     \* whose file it is
    file,       \* the plugin's file: per key a graph
    under,      \* per call: its step, its key, its copy, and the file as its set read it
    lines,      \* sharedWriteQueue of each process: the calls whose set waits or runs
    inside      \* who is inside the cross-process lock of the file

documents == <<plugin, file, under, lines, inside>>

\* A call makes one object at most, which bears its name.
Objects == Skills \cup {First}
Classes == {"layer", "block", "embed", "table", "record"}

\* $objects, by class, and the links $ref between them.
Graph == [class : [Objects -> Classes \cup {"none"}],
          links : SUBSET ((Objects \cup {Root}) \X Objects)]

createDocument == [class |-> [o \in Objects |-> "none"], links |-> {}]

\* addObject and linkObject: the new object, and the link to it from its holder.
addObject(g, o, c, holder) == [class |-> [g.class EXCEPT ![o] = c], links |-> g.links \cup {<<holder, o>>}]

\* Its holder's link is taken out of the list, and the object out of $objects.
removeObject(g, o, holder) ==
    [class |-> [g.class EXCEPT ![o] = "none"], links |-> g.links \ {<<holder, o>>}]

\* What a plugin's document has from the start.
FirstPart == [paint |-> "layer", notepad |-> "block", smartbase |-> "table"]

NotUnderWay == [step |-> "idle", key |-> Nothing, graph |-> Nothing, read |-> Nothing]

InitDocuments ==
    /\ plugin \in Plugins
    /\ file \in {f \in [Keys -> {Nothing, addObject(createDocument, First, FirstPart[plugin], Root)}] :
                    \E k \in Keys : f[k] = Nothing}
    /\ under = [s \in Skills |-> NotUnderWay]
    /\ lines = [p \in Runs |-> <<>>]
    /\ inside = {}

\* A UUID is new: no document and no copy has an object of that name.
Has(g, o) == g # Nothing /\ g.class[o] # "none"

Unused(o) ==
    /\ \A k \in Keys : ~Has(file[k], o)
    /\ \A s \in Skills : /\ ~Has(under[s].graph, o)
                         /\ under[s].read # Nothing => \A k \in Keys : ~Has(under[s].read[k], o)

-----------------------------------------------------------------------------
(* ScopedStorage and the write queue *)

StorageLock == INSTANCE Mutex WITH Procs <- Runs

\* set: the read-modify-write joins the line of its process.
SetKey(s, k, g) ==
    /\ under' = [under EXCEPT ![s] = [step |-> "queued", key |-> k, graph |-> g, read |-> Nothing]]
    /\ lines' = [lines EXCEPT ![RunsIn[s]] = Append(@, s)]
    /\ UNCHANGED <<plugin, file, inside>>

\* The first of the line settles, and the next may run.
SetEnds(s) ==
    /\ under' = [under EXCEPT ![s] = NotUnderWay]
    /\ lines' = [lines EXCEPT ![RunsIn[s]] = Tail(@)]

FirstInLine(s) == lines[RunsIn[s]] # <<>> /\ Head(lines[RunsIn[s]]) = s

\* The task of the queue runs under the lock, and reads the whole file first.
readAll(s) ==
    /\ under[s].step = "queued" /\ FirstInLine(s)
    /\ StorageLock!Enter(RunsIn[s])
    /\ under' = [under EXCEPT ![s].step = "writing", ![s].read = file]
    /\ UNCHANGED <<plugin, file, lines>>

\* atomicWriteFile of the file as read, with the key set.
writeAll(s) ==
    /\ under[s].step = "writing"
    /\ file' = [under[s].read EXCEPT ![under[s].key] = under[s].graph]
    /\ StorageLock!Leave(RunsIn[s]) /\ SetEnds(s)
    /\ UNCHANGED plugin

\* The lock is not to be had, or the read or the write under it fails.
setFails(s) ==
    /\ \/ under[s].step = "queued" /\ FirstInLine(s) /\ UNCHANGED inside
       \/ under[s].step = "writing" /\ StorageLock!Leave(RunsIn[s])
    /\ SetEnds(s)
    /\ UNCHANGED <<plugin, file>>

\* A process dies: the file is the old or the new one, and its lock is freed.
Dies(p) ==
    /\ \E s \in Skills : RunsIn[s] = p /\ under[s].step # "idle"
    /\ under' = [s \in Skills |-> IF RunsIn[s] = p THEN NotUnderWay ELSE under[s]]
    /\ lines' = [lines EXCEPT ![p] = <<>>]
    /\ inside' = inside \ {p}
    /\ UNCHANGED <<plugin, file>>

-----------------------------------------------------------------------------
(* The skills: how each begins and ends *)

\* A new document is set under the UUID of its root.
createGraph(s, k, g) ==
    /\ under[s].step = "idle" /\ Unused(s)
    /\ file[k] = Nothing /\ \A t \in Skills : under[t].step = "idle" \/ under[t].key # k
    /\ SetKey(s, k, g)

\* Every other skill loads its document first; nothing happens without one.
getDocument(s, k) ==
    /\ under[s].step = "idle"
    /\ file[k] # Nothing
    /\ under' = [under EXCEPT ![s] = [step |-> "loaded", key |-> k, graph |-> file[k], read |-> Nothing]]
    /\ UNCHANGED <<plugin, file, lines, inside>>

\* The object is not there, the AI refuses or fails: nothing is saved.
skillFails(s) ==
    /\ under[s].step = "loaded"
    /\ under' = [under EXCEPT ![s] = NotUnderWay]
    /\ UNCHANGED <<plugin, file, lines, inside>>

\* The copy it loaded, changed, is set: at once, or when the AI has answered.
saveDocument(s, g) == under[s].step = "loaded" /\ SetKey(s, under[s].key, g)

Copy(s) == under[s].graph

\* A new object of the copy, under its root or under a table.
adds(s, c, holder) ==
    /\ under[s].step = "loaded" /\ Unused(s)
    /\ saveDocument(s, addObject(Copy(s), s, c, holder))

\* What a layer, a block or a record holds changes, and no link.
rewrites(s, o, c) == under[s].step = "loaded" /\ Copy(s).class[o] = c /\ saveDocument(s, Copy(s))

\* It is refused when the holder does not link to the object.
removes(s, o, holder) ==
    /\ under[s].step = "loaded" /\ <<holder, o>> \in Copy(s).links
    /\ saveDocument(s, removeObject(Copy(s), o, holder))

-----------------------------------------------------------------------------
(* The skills of Paint *)

createCanvas(s, k)  == plugin = "paint" /\ createGraph(s, k, createDocument)
addLayer(s)         == plugin = "paint" /\ adds(s, "layer", Root)
aiGenerateImage(s)  == plugin = "paint" /\ adds(s, "layer", Root)
embedInCanvas(s)    == plugin = "paint" /\ adds(s, "embed", Root)
updateLayer(s, o)   == plugin = "paint" /\ rewrites(s, o, "layer")
deleteLayer(s, o)   == plugin = "paint" /\ under[s].step = "loaded" /\ Copy(s).class[o] = "layer"
                                        /\ removes(s, o, Root)

(* of Notepad *)

createNote(s, k) ==
    plugin = "notepad" /\ createGraph(s, k, addObject(createDocument, s, "block", Root))
aiTransformBlock(s, o) == plugin = "notepad" /\ rewrites(s, o, "block")
embedInNote(s)         == plugin = "notepad" /\ adds(s, "embed", Root)

(* of SmartBase: a record is found by way of its table. *)

createDatabase(s, k) == plugin = "smartbase" /\ createGraph(s, k, createDocument)
createTable(s)       == plugin = "smartbase" /\ adds(s, "table", Root)

findTable(s, t) == plugin = "smartbase" /\ under[s].step = "loaded" /\ Copy(s).class[t] = "table"

insertRecord(s, t)    == findTable(s, t) /\ adds(s, "record", t)
updateRecord(s, t, o) == findTable(s, t) /\ <<t, o>> \in Copy(s).links /\ rewrites(s, o, "record")
deleteRecord(s, t, o) == findTable(s, t) /\ removes(s, o, t)

DocumentsStep ==
    \/ \E p \in Runs : Dies(p)
    \/ \E s \in Skills :
          \/ readAll(s) \/ writeAll(s) \/ setFails(s) \/ skillFails(s)
          \/ addLayer(s) \/ aiGenerateImage(s) \/ embedInCanvas(s)
          \/ embedInNote(s) \/ createTable(s)
          \/ \E k \in Keys : createCanvas(s, k) \/ createNote(s, k) \/ createDatabase(s, k) \/ getDocument(s, k)
          \/ \E o \in Objects : updateLayer(s, o) \/ deleteLayer(s, o) \/ aiTransformBlock(s, o) \/ insertRecord(s, o)
          \/ \E t, o \in Objects : updateRecord(s, t, o) \/ deleteRecord(s, t, o)

DocumentsSpec == InitDocuments /\ [][DocumentsStep]_documents

-----------------------------------------------------------------------------
(* Properties *)

\* Every link leads to an object that is there, from the one holder an object of its
\* class has, and no object is without its link.
Whole(g) ==
    /\ \A l \in g.links : /\ g.class[l[2]] # "none"
                          /\ IF g.class[l[2]] = "record" THEN l[1] # Root /\ g.class[l[1]] = "table"
                                                        ELSE l[1] = Root
    /\ \A o \in Objects : g.class[o] # "none" => \E h \in Objects \cup {Root} : <<h, o>> \in g.links

\* "The whole read-modify-write is also atomic against a second process": the file
\* changes only by the set of a call, on that call's document and to what the call made
\* of it, so that no call undoes what another did to another document; and however the
\* calls on one document overlap, what is stored is a whole graph, without a link to
\* nothing and without an object that nothing links to (core/src/storage/queue.ts
\* enqueue, scoped-storage.ts set).
OnlyOwnDocument ==
    [][\A k \in Keys : file'[k] # file[k] =>
          \E s \in Skills : under[s].step = "writing" /\ under[s].key = k /\ file'[k] = under[s].graph]_documents

StoredWhole == \A k \in Keys : file[k] # Nothing => Whole(file[k])

DocumentsKept == OnlyOwnDocument /\ []StoredWhole

=============================================================================
