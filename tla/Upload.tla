-------------------------------- MODULE Upload -------------------------------
(***************************************************************************)
(* One POST from its first byte to its stored file: the body is counted    *)
(* while the form parser pulls it (BodyLimit); the file of a complete form *)
(* is what ValidatedFileStream then reads (FileStream).                    *)
(***************************************************************************)
EXTENDS BodyLimit, FileStream

CONSTANT Overhead   \* MULTIPART_OVERHEAD_BYTES

ASSUME OverheadAssumption == Limit = MaxSize + Overhead

VARIABLE handed   \* create_document() has been given the form's file

uploadVars == <<bodyVars, fileVars, handed>>

UploadInit ==
  /\ BodyInit
  /\ FileInit /\ size = 0 /\ ~named /\ ~sound
  /\ handed = FALSE

ReceiveBody == BodyNext /\ UNCHANGED <<fileVars, handed>>

\* Some of what precedes the closing boundary is the file.
Hand ==
  /\ outcome = "complete" /\ form /\ ~handed
  /\ handed' = TRUE
  /\ size' \in {n \in 0..MaxFile : n + Len(Boundary) <= Len(body)}
  /\ needs' \in {n \in 0..Signature : n <= size'}
  /\ named' \in BOOLEAN /\ sound' \in BOOLEAN
  /\ UNCHANGED <<bodyVars, block, stream>>

StoreFile == handed /\ FileNext /\ UNCHANGED <<bodyVars, handed>>

UploadNext == ReceiveBody \/ Hand \/ StoreFile

UploadSpec == UploadInit /\ [][UploadNext]_uploadVars

\* The request's thread runs on; the temporary file and the storage answer.
\* Nothing obliges the client to send the rest of a body.
UploadFairSpec ==
  UploadSpec /\ WF_uploadVars(handed /\ Progress /\ UNCHANGED <<bodyVars, handed>>)

-----------------------------------------------------------------------------
(* Properties *)

\* Every file handed over is decided on: no cutting of reads makes a request
\* read for ever.
EveryFileIsDecided == handed ~> (pc = "done")
=============================================================================
