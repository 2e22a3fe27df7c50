---------------------------- MODULE MCAcquisition ----------------------------
(* The three ways in which candidate packs come to be: acquisition of two    *)
(* sources, ingestion of documents, and the pack pipeline.  They share no    *)
(* files, so a run is of one of them.                                        *)
EXTENDS Acquisition, DocumentIngest, PackPipeline

CONSTANTS s1, s2, a, b, empty, bad

VARIABLE world

acquisitionVars == <<vars, ingestVars, pipelineVars, world>>

MCSourceOrder == <<s1, s2>>

\* b has one claim in common with a, and names one claim twice.
MCClaimKeys(c) ==
    CASE c = a   -> <<"k1", "k2">>
      [] c = b   -> <<"k2", "k3", "k3">>
      [] OTHER   -> << >>

\* The first source changes, and breaks; the second has no claims.
MCOffered(s) == IF s = s1 THEN {a, b, bad} ELSE {empty}

MCModes == {m \in [incremental : BOOLEAN, dry : BOOLEAN, partial : BOOLEAN] :
              m.dry => m.partial}

\* Two documents of one stem, of which only the first can be read
\* incrementally; one of its texts needs a mapping.
MCDocuments == <<"notes.jsonl", "notes.csv">>

MCStem(d) == "notes"

MCHeld(d) == IF d = "notes.jsonl" THEN {"t1", "t2", "raw"} ELSE {"t3", "cut"}

MCRowsIn(t) == CASE t = "t1" -> {1} [] t = "t2" -> {1, 2} [] t = "raw" -> {2} [] OTHER -> {3}

MCMappingOf(t) == t

MCPlace(n) == CASE n[2] = "raw" -> 1 [] n[2] = "t1" -> 2 [] n[2] = "t2" -> 3 [] OTHER -> 4

MCFlags ==
    {f \in [auto : BOOLEAN, incremental : BOOLEAN, force : BOOLEAN] : f.force => f.incremental}

MCFeedKeys(f) == IF f = "two" THEN <<"k1", "k2", "k1">> ELSE << >>

\* What is not the world of a run stays as it is.  Packs are frozen in a world
\* of their own, with one fault less.  Documents are read by two
\* processes in two runs, or by one in three.
AcquisitionInit ==
    /\ world \in {"sources", "frozen", "documents", "alone", "pipeline"}
    /\ Init /\ IngestInit /\ PipelineInit
    /\ world \notin {"documents", "alone"} => text = [d \in DocumentSet |-> CHOOSE t \in Held(d) : TRUE]
    /\ world # "pipeline" => tree = [t \in Targets |-> NoTree]

FirstIngester == CHOOSE p \in Ingesters : TRUE

AcquisitionNext ==
    \/ /\ world \in {"sources", "frozen"} /\ Next /\ UNCHANGED <<ingestVars, pipelineVars, world>>
       /\ IF world = "sources" THEN freezing' = {} ELSE run'.faults < MaxFaults
    \/ /\ world \in {"documents", "alone"} /\ IngestNext /\ UNCHANGED <<vars, pipelineVars, world>>
       /\ IF world = "alone" THEN \A p \in Ingesters \ {FirstIngester} : ingest'[p] = ingest[p]
          ELSE /\ tally'.runs <= 2
               /\ \A p \in Ingesters : ingest'[p].step # "idle" => ingest'[p].target = <<Documents[1]>>
    \/ world = "pipeline" /\ PipelineNext /\ UNCHANGED <<vars, ingestVars, world>>

AcquisitionSpec == AcquisitionInit /\ [][AcquisitionNext]_acquisitionVars
=============================================================================
