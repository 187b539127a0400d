----------------------------- MODULE FileStream -----------------------------
(***************************************************************************)
(* The way of one file through a request: ValidatedFileStream reads the    *)
(* source into a private temporary file, decides whether to accept it, and *)
(* replays it once; the Azure adapter cuts the replay into blocks.  Bytes  *)
(* are only counted: every step hands on what it read, in order.           *)
(***************************************************************************)
EXTENDS Naturals, Sequences

CONSTANTS
  Signature,   \* _MAX_SIGNATURE_LENGTH
  MaxSize,     \* max_size_bytes
  ChunkSize,   \* chunk_size_bytes, settings.storage_chunk_size_bytes
  BlockSizes,  \* values of settings.blob_block_size_bytes to look at
  MaxFile      \* bound on the file's length

ASSUME SizesAssumption ==
  /\ Signature \in Nat \ {0} /\ MaxSize \in Nat \ {0} /\ MaxFile \in Nat
  /\ ChunkSize \in Nat /\ ChunkSize >= Signature
  /\ BlockSizes \subseteq Nat \ {0}

VARIABLES
  (* the file *)
  size,        \* its length
  needs,       \* length of its type's signature, 0 when the type is unknown
  named,       \* extension and content type agree with the signature
  sound,       \* its structure is valid
  block,       \* the block size configured
  (* ValidatedFileStream *)
  pc,
  pos,         \* bytes read from the source
  header,      \* len(header)
  staged,      \* bytes in the temporary file; the temporary is open when
  open,        \* this is TRUE
  replayed,    \* bytes yielded by _replay
  (* AzureBlobDocumentStorage._blocks and _perform_upload *)
  buffer,      \* len(buffer)
  blocks,      \* lengths of the blocks staged
  result       \* "none", "stored", "failed" or the error refusing the file

file == <<size, needs, named, sound, block>>
stream == <<pc, pos, header, staged, open, replayed, buffer, blocks, result>>
fileVars == <<file, stream>>

Errors == {"EmptyFile", "FileTooLarge", "UnsupportedFileType",
           "InvalidFileStructure"}

FileTypeOK ==
  /\ size \in 0..MaxFile /\ needs \in 0..Signature
  /\ named \in BOOLEAN /\ sound \in BOOLEAN /\ block \in BlockSizes
  /\ pc \in {"header", "detect", "body", "structure", "replay", "done"}
  /\ pos \in 0..size
  /\ header \in 0..Signature
  /\ staged \in 0..MaxSize
  /\ open \in BOOLEAN
  /\ replayed \in 0..staged
  /\ buffer \in 0..(block + ChunkSize)
  /\ blocks \in Seq(1..block)
  /\ result \in {"none", "stored", "failed"} \cup Errors

FileInit ==
  /\ size \in 0..MaxFile
  /\ needs \in 0..Signature
  /\ needs <= size
  /\ named \in BOOLEAN /\ sound \in BOOLEAN /\ block \in BlockSizes
  /\ pc = "header" /\ pos = 0 /\ header = 0
  /\ staged = 0 /\ open = TRUE /\ replayed = 0
  /\ buffer = 0 /\ blocks = <<>>
  /\ result = "none"

\* validate()'s handler or the with statement closes the temporary file.
End(outcome) ==
  /\ pc' = "done"
  /\ result' = outcome
  /\ open' = FALSE

\* A read returns between one and n bytes, or none at the end of the file.
ReadSizes(n) == IF pos = size THEN {0}
                ELSE {k \in 1..n : pos + k <= size}

-----------------------------------------------------------------------------
(* _stage_and_validate *)

\* Mutant: one read is taken for the whole header.
ReadHeaderOnce ==
  /\ pc = "header"
  /\ \E n \in ReadSizes(Signature) : pos' = pos + n /\ header' = n
  /\ pc' = "detect"
  /\ UNCHANGED <<file, staged, open, replayed, buffer, blocks, result>>

\* Mutant: an empty read does not end the header.
ReadHeaderStubborn ==
  /\ pc = "header"
  /\ \E n \in ReadSizes(Signature - header) :
       /\ pos' = pos + n
       /\ header' = header + n
       /\ pc' = IF header' = Signature THEN "detect" ELSE "header"
  /\ UNCHANGED <<file, staged, open, replayed, buffer, blocks, result>>

\* The header is read until the longest signature fits or the file ends.
ReadHeader ==
  /\ pc = "header"
  /\ \E n \in ReadSizes(Signature - header) :
       /\ pos' = pos + n
       /\ header' = header + n
       /\ pc' = IF n = 0 \/ header' = Signature THEN "detect" ELSE "header"
  /\ UNCHANGED <<file, staged, open, replayed, buffer, blocks, result>>

\* size_bytes > max_size_bytes refuses.
Fits(n) == n <= MaxSize

\* Emptiness, size, type, extension and content type, in this order; then the
\* header itself is staged.
Detect ==
  /\ pc = "detect"
  /\ CASE header = 0 -> End("EmptyFile") /\ UNCHANGED staged
       [] header > 0 /\ ~Fits(header) -> End("FileTooLarge") /\ UNCHANGED staged
       [] header > 0 /\ Fits(header) /\ (needs = 0 \/ header < needs \/ ~named)
            -> End("UnsupportedFileType") /\ UNCHANGED staged
       [] OTHER -> /\ staged' = header
                   /\ pc' = "body"
                   /\ UNCHANGED <<open, result>>
  /\ UNCHANGED <<file, pos, header, replayed, buffer, blocks>>

\* The rest is accounted chunk by chunk.
StageChunk ==
  /\ pc = "body"
  /\ \E n \in ReadSizes(ChunkSize) :
       /\ pos' = pos + n
       /\ IF ~Fits(staged + n)
          THEN End("FileTooLarge") /\ UNCHANGED staged
          ELSE /\ staged' = staged + n
               /\ pc' = IF n = 0 THEN "structure" ELSE "body"
               /\ UNCHANGED <<open, result>>
  /\ UNCHANGED <<file, header, replayed, buffer, blocks>>

\* _validate_structure
CheckStructure ==
  /\ pc = "structure"
  /\ IF sound THEN pc' = "replay" /\ UNCHANGED <<open, result>>
              ELSE End("InvalidFileStructure")
  /\ UNCHANGED <<file, pos, header, staged, replayed, buffer, blocks>>

-----------------------------------------------------------------------------
(* _replay, _blocks, _perform_upload *)

\* buffer.extend(chunk), then every full block is yielded and staged.
Cut(n) ==
  LET full == (buffer + n) \div block
  IN  /\ buffer' = (buffer + n) % block
      /\ blocks' = blocks \o [i \in 1..full |-> block]

\* The temporary file is read in chunks.
ReplayChunk ==
  /\ pc = "replay"
  /\ replayed < staged
  /\ LET left == staged - replayed
         n == IF left < ChunkSize THEN left ELSE ChunkSize
     IN  replayed' = replayed + n /\ Cut(n)
  /\ UNCHANGED <<file, pc, pos, header, staged, open, result>>

\* Mutant: if buffer: yield is missing.
FlushNothing ==
  /\ pc = "replay"
  /\ replayed = staged
  /\ End("stored")
  /\ UNCHANGED <<file, pos, header, staged, replayed, buffer, blocks>>

\* The rest of the buffer is the last block; the block list is committed.
Flush ==
  /\ pc = "replay"
  /\ replayed = staged
  /\ blocks' = IF buffer > 0 THEN Append(blocks, buffer) ELSE blocks
  /\ buffer' = 0
  /\ End("stored")
  /\ UNCHANGED <<file, pos, header, staged, replayed>>

\* Reading the source or storing the file fails for good.
ReadOrStoreFails ==
  /\ pc \in {"header", "body", "replay"}
  /\ End("failed")
  /\ UNCHANGED <<file, pos, header, staged, replayed, buffer, blocks>>

Progress ==
  \/ ReadHeader \/ Detect \/ StageChunk \/ CheckStructure
  \/ ReplayChunk \/ Flush

FileNext == Progress \/ ReadOrStoreFails

FileSpec == FileInit /\ [][FileNext]_fileVars

-----------------------------------------------------------------------------
(* Properties *)

Acceptable == size > 0 /\ size <= MaxSize /\ needs > 0 /\ named /\ sound

\* The decision is about the file alone: however the source cuts its reads, an
\* acceptable file is never refused and no other is ever stored.
DecisionDependsOnFile ==
  /\ result \in Errors => ~Acceptable
  /\ result = "stored" => Acceptable

\* What is stored is the file: all blocks but the last are full, none is empty,
\* and together they have every byte, whatever chunk and block sizes.
StoredIsTheFile ==
  result = "stored" =>
    /\ Len(blocks) > 0
    /\ \A i \in 1..Len(blocks) - 1 : blocks[i] = block
    /\ blocks[Len(blocks)] \in 1..block
    /\ (Len(blocks) - 1) * block + blocks[Len(blocks)] = size
=============================================================================
