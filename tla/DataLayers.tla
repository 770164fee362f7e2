----------------------------- MODULE DataLayers -----------------------------
(***************************************************************************)
(* Compression and encryption around a storage: the pipeline and the       *)
(* decorators CompressedStorage and EncryptedStorage.  A stored file is    *)
(* its content inside its layers; a user's file may be a Zstd frame itself.*)
(* Encryption is perfect: data opens with the key that sealed it or fails. *)
(***************************************************************************)
EXTENDS ServerClock, Integers, FiniteSets, SequencesExt

CONSTANTS LayerFiles,  \* files
          Plain,       \* contents that are no compressed data
          SealKeys,    \* keys
          LayerConfigs \* configurations: compression, encryption, key, outer

ASSUME LayerAssumption ==
    LayerConfigs \subseteq
        [compression : {"none", "zstd", "lz4"}, encryption : BOOLEAN,
         key : SealKeys \cup {Nothing}, outer : {"compress", "encrypt"}]

VARIABLES settings,  \* the PipelineConfig, or the decorators of a process
          disk,      \* the inner storage: [LayerFiles -> data]
          contents,  \* what was stored last, and under which layers
          retrieved  \* the last file retrieved

layerVars == <<settings, disk, contents, retrieved>>

Failed == [layer |-> "failed"]
PlainData(c) == [layer |-> "plain", of |-> c]
Frame(format, data) == [layer |-> format, of |-> data]
Sealed(key, data) == [layer |-> "sealed", key |-> key, of |-> data]

\* Files a user may store: the last one is a .zst file.
UserData == {PlainData(c) : c \in Plain} \cup {Frame("zstd", PlainData(c)) : c \in Plain}

LayerInit ==
    /\ settings \in LayerConfigs
    /\ disk = [f \in LayerFiles |-> Nothing]
    /\ contents = [f \in LayerFiles |-> Nothing]
    /\ retrieved = Nothing

-----------------------------------------------------------------------------

\* build_pipeline: encryption without a key is no encryption, and no error.
Compressors(c) ==
    IF c.compression = "none" THEN <<>> ELSE <<[layer |-> c.compression]>>
Sealers(c) ==
    IF c.encryption /\ c.key # Nothing
    THEN <<[layer |-> "sealed", key |-> c.key]>> ELSE <<>>

\* The layers data passes through on its way to the disk.  The pipeline always
\* compresses first; decorators are nested as their caller likes.
Layers(c) ==
    IF c.outer = "compress" THEN Compressors(c) \o Sealers(c)
    ELSE Sealers(c) \o Compressors(c)

Wrapped(layer, data) ==
    IF layer.layer = "sealed" THEN Sealed(layer.key, data) ELSE Frame(layer.layer, data)

\* detect_format
Compressed(data) == data.layer \in {"zstd", "lz4"}

\* Compressed data of either format is decompressed, all other data passes
\* through; sealed data has to open.
Unwrapped(layer, data) ==
    IF data = Failed THEN Failed
    ELSE IF layer.layer = "sealed"
         THEN IF data.layer = "sealed" /\ data.key = layer.key THEN data.of ELSE Failed
         ELSE IF Compressed(data) THEN data.of ELSE data

\* Mutant: the layers in the order of retrieval.
ProcessedBackwards(layers, data) ==
    FoldLeft(LAMBDA d, layer : Wrapped(layer, d), data, Reverse(layers))

ProcessStore(layers, data) ==
    FoldLeft(LAMBDA d, layer : Wrapped(layer, d), data, layers)

ProcessRetrieve(layers, data) ==
    FoldLeft(LAMBDA d, layer : Unwrapped(layer, d), data, Reverse(layers))

-----------------------------------------------------------------------------

\* Another process, with other layers around the same storage.
Reconfigure(c) ==
    /\ Request
    /\ settings' = c
    /\ UNCHANGED <<disk, contents, retrieved>>

\* The configuration is saved and loaded: its key is not serialized.
SaveAndLoad ==
    /\ Request
    /\ settings' = [settings EXCEPT !.key = Nothing]
    /\ UNCHANGED <<disk, contents, retrieved>>

StoreFile(f, data) ==
    /\ Request
    /\ disk' = [disk EXCEPT ![f] = ProcessStore(Layers(settings), data)]
    /\ contents' = [contents EXCEPT ![f] = [data |-> data, layers |-> Layers(settings)]]
    /\ UNCHANGED <<settings, retrieved>>

RetrieveFile(f) ==
    /\ Request
    /\ disk[f] # Nothing
    /\ retrieved' = [file |-> f, layers |-> Layers(settings),
                     data |-> ProcessRetrieve(Layers(settings), disk[f]),
                     stored |-> contents[f]]
    /\ UNCHANGED <<settings, disk, contents>>

LayerNext ==
    \/ \E c \in LayerConfigs : Reconfigure(c)
    \/ SaveAndLoad
    \/ \E f \in LayerFiles :
          \/ \E data \in UserData : StoreFile(f, data)
          \/ RetrieveFile(f)

LayerSpec == ClockInit /\ LayerInit /\ [][LayerNext]_<<clockVars, layerVars>>

-----------------------------------------------------------------------------
(* Properties *)

Kinds(layers) ==
    [i \in DOMAIN layers |-> IF layers[i].layer = "sealed" THEN "seal" ELSE "compress"]

\* Layers were added between the two, and none removed.
Extends(now, then) ==
    \/ Kinds(then) = Kinds(now)
    \/ then = <<>>
    \/ Len(then) = 1 /\ \E i \in DOMAIN now : Kinds(now)[i] = Kinds(then)[1]

\* What comes out is what went in.  A file retrieved through the layers it was
\* stored through is the same; after layers were added, or replaced by others of
\* their kind, it is the same or an error, whichever the formats and keys, unless
\* it is a compressed file itself and compression was added.  (After layers were
\* removed, a file may come out compressed or sealed, and no error tells.)
RetrievedIsStored ==
    retrieved # Nothing =>
        LET then == retrieved.stored
            now == retrieved.layers
        IN  /\ now = then.layers => retrieved.data = then.data
            /\ /\ Extends(now, then.layers)
               /\ Compressed(then.data) => Kinds(now) = Kinds(then.layers)
               => retrieved.data \in {then.data, Failed}

=============================================================================
