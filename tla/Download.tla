------------------------------ MODULE Download ------------------------------
(***************************************************************************)
(* One download of restore-test (internal/restore/s3.go and dump.go): the  *)
(* connection check by HEAD, GET, the streaming to a temporary file, its   *)
(* validation, and the removal of the dump when the run ends.              *)
(*                                                                         *)
(* object is the S3 object, which a backup may replace at any time; a GET  *)
(* answers with one whole version of it.  A response comes in chunks.  A   *)
(* failing call, a full disk and a done context are one thing here: the    *)
(* call returns an error.                                                  *)
(***************************************************************************)
EXTENDS Integers

CONSTANTS
    Chunks,       \* length of a whole object in chunks
    LastWriter    \* bound: the backup runs are 0..LastWriter

VARIABLES
    object,       \* the S3 object: who put it and what it is
    reader,       \* control of the download
    logged,       \* the object the connection check saw
    response,     \* the object GET answered with, and whether it told the length
    written,      \* chunks in the temporary file
    onDisk,       \* the temporary file exists
    removeFailed, \* an os.Remove of the temporary file has failed
    dump          \* ETag (the run that put the object) and size of the Dump

ReaderStages == {"head", "get", "create", "chmod", "copy", "close", "validate",
                 "held", "released", "failed"}

Stored == [run : 0..LastWriter, content : {"none", "short", "truncated", "complete"}]

Nothing == [run |-> 0, content |-> "none"]

ReaderInit ==
    /\ reader = "head"
    /\ logged = Nothing
    /\ response = [of |-> Nothing, tellsLength |-> TRUE]
    /\ written = 0 /\ onDisk = FALSE /\ removeFailed = FALSE
    /\ dump = [etag |-> 0, size |-> 0]

\* A store that lost the end of an object has fewer chunks of it.
Length(o) == CASE o.content = "none" -> 0 [] o.content = "short" -> 1 [] OTHER -> Chunks

\* What validateGzipStream accepts: every chunk up to a trailer that fits.
WholeStream == onDisk /\ written = Length(response.of)
                      /\ response.of.content \in {"truncated", "complete"}

-----------------------------------------------------------------------------

\* The process moves on and leaves the file alone.
Goto(next) ==
    /\ reader' = next
    /\ UNCHANGED <<object, logged, response, written, onDisk, removeFailed, dump>>

\* HEAD of a key without an object is an error.
HeadReturns ==
    /\ reader = "head" /\ object.content # "none"
    /\ logged' = object
    /\ reader' = "get"
    /\ UNCHANGED <<object, response, written, onDisk, removeFailed, dump>>

GetReturns ==
    /\ reader = "get" /\ object.content # "none"
    /\ \E tells \in BOOLEAN : response' = [of |-> object, tellsLength |-> tells]
    /\ reader' = "create"
    /\ UNCHANGED <<object, logged, written, onDisk, removeFailed, dump>>

\* Errors before there is a file.
FailsEarly == reader \in {"head", "get", "create"} /\ Goto("failed")

CreateTemp ==
    /\ reader = "create"
    /\ onDisk' = TRUE
    /\ reader' = "chmod"
    /\ UNCHANGED <<object, logged, response, written, removeFailed, dump>>

Chmod == reader = "chmod" /\ Goto("copy")

CopyChunk ==
    /\ reader = "copy" /\ written < Length(response.of)
    /\ written' = written + 1
    /\ UNCHANGED <<object, reader, logged, response, onDisk, removeFailed, dump>>

\* A connection that is cut looks like the end when no length was told.
CopyEnds ==
    /\ reader = "copy"
    /\ written = Length(response.of) \/ ~response.tellsLength
    /\ Goto("close")

CloseTemp == reader = "close" /\ Goto("validate")

\* The partial file is removed; the result of the removal is dropped.
FailsWithFile ==
    /\ reader \in {"chmod", "copy", "close", "validate"}
    /\ \/ onDisk' = FALSE /\ UNCHANGED removeFailed
       \/ onDisk /\ removeFailed' = TRUE /\ UNCHANGED onDisk
    /\ reader' = "failed"
    /\ UNCHANGED <<object, logged, response, written, dump>>

\* Validate that tells of the object what the connection check saw.
ValidateReportingHead ==
    /\ reader = "validate" /\ WholeStream
    /\ dump' = [etag |-> logged.run, size |-> Length(logged)]
    /\ reader' = "held"
    /\ UNCHANGED <<object, logged, response, written, onDisk, removeFailed>>

Validate ==
    /\ reader = "validate" /\ WholeStream
    /\ dump' = [etag |-> response.of.run,
                size |-> IF response.tellsLength THEN Length(response.of) ELSE written]
    /\ reader' = "held"
    /\ UNCHANGED <<object, logged, response, written, onDisk, removeFailed>>

\* Dump.cleanup: a file that is gone already is no error.
Release ==
    /\ reader = "held"
    /\ \/ onDisk' = FALSE /\ UNCHANGED removeFailed
       \/ onDisk /\ removeFailed' = TRUE /\ UNCHANGED onDisk
    /\ reader' = "released"
    /\ UNCHANGED <<object, logged, response, written, dump>>

\* Something cleans the temporary directory under the running process.
FileVanishes ==
    /\ onDisk /\ reader \notin {"failed", "released"}
    /\ onDisk' = FALSE
    /\ UNCHANGED <<object, reader, logged, response, written, removeFailed, dump>>

ReaderNext ==
    \/ HeadReturns \/ GetReturns \/ FailsEarly
    \/ CreateTemp \/ Chmod \/ CopyChunk \/ CopyEnds \/ CloseTemp
    \/ FailsWithFile \/ Validate \/ Release
    \/ FileVanishes
=============================================================================
