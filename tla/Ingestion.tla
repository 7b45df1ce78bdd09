------------------------------ MODULE Ingestion ------------------------------
(***************************************************************************)
(* The data loader (ingestion/): one run reads the files of SOURCE_MAP in  *)
(* order and upserts their features in batches, one transaction per batch, *)
(* while the dashboard goes on editing the same table.  A run may be lost  *)
(* at any point (its memory is lost, the committed batches stay) and is    *)
(* then started again from the first file.                                 *)
(*                                                                         *)
(* A feature is known by its OSM identity; identities of different tables  *)
(* are different here.  "normal" says whether normalize_feature succeeds   *)
(* on it, "fits" whether the table takes the row (a site must be a POINT). *)
(***************************************************************************)
EXTENDS Naturals, Sequences, FiniteSets

CONSTANTS
    Files,      \* SOURCE_MAP: a sequence of [model, type, cats, broken, features]
    Ids,        \* the OSM identities in them
    BatchSize,  \* 500 in the code
    MaxRuns,    \* bound: how many runs are started
    MaxEdits    \* bound: how many changes the dashboard makes

Feature == [id : Ids, normal : BOOLEAN, fits : BOOLEAN]
ASSUME FilesAssumption ==
    /\ Files \in Seq({Files[n] : n \in DOMAIN Files})
    /\ \A n \in DOMAIN Files :
        /\ Files[n].model \in {"Site", "Boundary", "RestrictedZone"}
        /\ Files[n].model # "Site" => Files[n].cats = {}
        /\ Files[n].broken \in BOOLEAN
        /\ Files[n].features \in Seq(Feature)
    /\ \A n, m \in DOMAIN Files :
        \A p \in DOMAIN Files[n].features, q \in DOMAIN Files[m].features :
            Files[n].features[p].id = Files[m].features[q].id =>
                Files[n].model = Files[m].model
ASSUME BoundsAssumption == BatchSize \in Nat \ {0} /\ MaxRuns \in Nat /\ MaxEdits \in Nat

VARIABLES
    table,    \* the committed rows, by OSM identity
    running,  \* whether a run is under way
    runs,     \* how many runs were started
    file, pos,  \* the feature the run reads next
    batch,    \* the normalised features waiting to be upserted
    seen,     \* the identities of this file taken so far
    edits,    \* how many changes the dashboard made
    clean,    \* history: nothing disturbed the present run
    settled   \* history: the last thing that happened was the end of a clean run

run == <<running, runs, file, pos, batch, seen>>
vars == <<table, run, edits, clean, settled>>

Init ==
    /\ table = <<>>
    /\ running = FALSE /\ runs = 0
    /\ file = 1 /\ pos = 1 /\ batch = <<>> /\ seen = {}
    /\ edits = 0 /\ clean = FALSE /\ settled = FALSE

-----------------------------------------------------------------------------
(* The upsert *)

\* What a feature of file n is inserted as.  The columns a feature does not
\* carry take their defaults: a draft of version 1.
Fresh(n) ==
    [key |-> <<runs, n>>, content |-> n, site_type |-> Files[n].type,
     categories |-> Files[n].cats, status |-> "draft", version |-> 1]

\* Variants: the version is counted on; the row is replaced by a new one.
OntoCounting(old, n) == [Fresh(n) EXCEPT !.key = old.key, !.version = old.version + 1]
OntoReplacing(old, n) == [Fresh(n) EXCEPT !.categories = old.categories \cup @]

\* ON CONFLICT DO UPDATE: every column but the key is set to what the feature
\* would be inserted as, and the categories of a site are merged.
Onto(old, n) ==
    [Fresh(n) EXCEPT
        !.key = old.key,
        !.categories = IF Files[n].model = "Site" THEN old.categories \cup @ ELSE @]

InBatch == {batch[b].id : b \in DOMAIN batch}

\* One statement inserts the whole batch: one row the table does not take, or
\* one identity twice, and it fails.
Acceptable ==
    /\ \A b \in DOMAIN batch : batch[b].fits
    /\ Cardinality(InBatch) = Len(batch)

Upserted ==
    [i \in DOMAIN table \cup InBatch |->
        IF i \notin InBatch THEN table[i]
        ELSE IF i \in DOMAIN table THEN Onto(table[i], file)
        ELSE Fresh(file)]

-----------------------------------------------------------------------------
(* A run *)

Features == Files[file].features
Reading == running /\ file \in DOMAIN Files

StartRun ==
    /\ ~running /\ runs < MaxRuns
    /\ running' = TRUE /\ runs' = runs + 1
    /\ file' = 1 /\ pos' = 1 /\ batch' = <<>> /\ seen' = {}
    /\ clean' = TRUE /\ settled' = FALSE
    /\ UNCHANGED <<table, edits>>

\* A feature that does not normalise, or whose identity this file had before,
\* is skipped.
TakeFeature ==
    /\ Reading /\ ~Files[file].broken
    /\ pos <= Len(Features) /\ Len(batch) < BatchSize
    /\ pos' = pos + 1
    /\ LET f == Features[pos]
       IN  IF f.normal /\ f.id \notin seen
           THEN batch' = Append(batch, f) /\ seen' = seen \cup {f.id}
           ELSE UNCHANGED <<batch, seen>>
    /\ UNCHANGED <<table, running, runs, file, edits, clean, settled>>

\* Variant: the last batch of a file is forgotten unless it is full.
DueWhenFull == Reading /\ ~Files[file].broken /\ Len(batch) >= BatchSize

\* A batch is due when it is full, and the last one at the end of the file.
Due ==
    /\ Reading /\ ~Files[file].broken
    /\ batch # <<>>
    /\ Len(batch) >= BatchSize \/ pos > Len(Features)

\* The batch is upserted and committed, or rolled back and dropped.
UpsertBatch ==
    /\ Due
    /\ table' = IF Acceptable THEN Upserted ELSE table
    /\ batch' = <<>>
    /\ UNCHANGED <<running, runs, file, pos, seen, edits, clean, settled>>

\* The database fails under the batch: rolled back, dropped and not retried.
\* When the failure hits the commit, the batch may be in the table all the same.
LoseBatch ==
    /\ Due
    /\ table' = table \/ (Acceptable /\ table' = Upserted)
    /\ batch' = <<>> /\ clean' = FALSE
    /\ UNCHANGED <<running, runs, file, pos, seen, edits, settled>>

NextFile ==
    /\ Reading /\ ~Files[file].broken
    /\ pos > Len(Features) /\ ~Due
    /\ file' = file + 1 /\ pos' = 1 /\ seen' = {} /\ batch' = <<>>
    /\ UNCHANGED <<table, running, runs, edits, clean, settled>>

Complete ==
    /\ running /\ file > Len(Files)
    /\ running' = FALSE /\ settled' = clean
    /\ UNCHANGED <<table, runs, file, pos, batch, seen, edits, clean>>

\* The run ends early: its process stops, or a file is not JSON and the error
\* of the parser leaves run_ingestion.
Abort ==
    /\ running
    /\ running' = FALSE /\ batch' = <<>> /\ seen' = {} /\ clean' = FALSE
    /\ UNCHANGED <<table, runs, file, pos, edits, settled>>

\* Meanwhile, through the API: a row is published, or deleted.
Touched ==
    /\ edits < MaxEdits /\ edits' = edits + 1
    /\ clean' = FALSE /\ settled' = FALSE
    /\ UNCHANGED run

Publish(i) ==
    /\ i \in DOMAIN table
    /\ table' = [table EXCEPT ![i].status = "published", ![i].version = @ + 1]
    /\ Touched

Delete(i) ==
    /\ i \in DOMAIN table
    /\ table' = [j \in DOMAIN table \ {i} |-> table[j]]
    /\ Touched

Loader == TakeFeature \/ UpsertBatch \/ NextFile \/ Complete
Next ==
    \/ StartRun \/ Loader \/ LoseBatch \/ Abort
    \/ \E i \in Ids : Publish(i) \/ Delete(i)

Spec == Init /\ [][Next]_vars

-----------------------------------------------------------------------------
(* What the files say *)

\* The features of file n that count: the first normal one of each identity.
Kept(n) ==
    {p \in DOMAIN Files[n].features :
        LET f == Files[n].features
        IN  /\ f[p].normal
            /\ \A q \in 1..(p - 1) : f[q].id = f[p].id => ~f[q].normal}

Chunk(n, p) == Cardinality({q \in Kept(n) : q < p}) \div BatchSize

\* Those that arrive: a feature shares the fate of its batch.
Delivered(n) ==
    {Files[n].features[p].id :
        p \in {p \in Kept(n) :
                 \A q \in Kept(n) :
                    Chunk(n, q) = Chunk(n, p) => Files[n].features[q].fits}}

FilesOf(i) == {n \in DOMAIN Files : i \in Delivered(n)}
LastFileOf(i) == CHOOSE n \in FilesOf(i) : \A m \in FilesOf(i) : m <= n

-----------------------------------------------------------------------------
(* Properties *)

TypeOK ==
    /\ DOMAIN table \subseteq Ids
    /\ \A i \in DOMAIN table :
         /\ table[i].content \in DOMAIN Files
         /\ table[i].status \in {"draft", "published"}
         /\ table[i].version \in 1..(1 + MaxEdits)
    /\ runs \in 0..MaxRuns /\ edits \in 0..MaxEdits
    /\ file \in 1..(Len(Files) + 1) /\ pos \in Nat
    /\ Len(batch) <= BatchSize /\ seen \subseteq Ids
    /\ running \in BOOLEAN /\ clean \in BOOLEAN /\ settled \in BOOLEAN

\* After a run that nothing disturbed the table is what the files say, whatever
\* runs were lost before it and whatever they left: every feature of an intact
\* batch is there, with the columns of the last file that has it and the
\* categories of all of them, and nothing else is.
CleanRunConverges ==
    settled =>
        /\ DOMAIN table = {i \in Ids : FilesOf(i) # {}}
        /\ \A i \in DOMAIN table :
             LET n == LastFileOf(i) IN
             /\ table[i].content = n /\ table[i].site_type = Files[n].type
             /\ table[i].categories =
                  IF Files[n].model = "Site"
                  THEN UNION {Files[m].cats : m \in FilesOf(i)}
                  ELSE Files[n].cats
             /\ table[i].status = "draft" /\ table[i].version = 1

\* The loader never gives an existing row another key, so the warnings and
\* services that hang on it stay, and never takes a category from it, however
\* runs are lost and repeated.
LoaderKeepsRows ==
    [][\A i \in DOMAIN table :
        edits' = edits =>
            /\ i \in DOMAIN table' /\ table'[i].key = table[i].key
            /\ table[i].categories \subseteq table'[i].categories]_vars

\* "To re-run idempotently (safe to run multiple times)" (DEVELOPER.md:77): what
\* the dashboard published is still published after a run.
RerunIsSafe ==
    [][\A i \in DOMAIN table \cap DOMAIN table' :
        table[i].status = "published" => table'[i].status = "published"]_vars
=============================================================================
