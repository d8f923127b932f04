-------------------------- MODULE OperationDownload -------------------------
(***************************************************************************)
(* The operation that downloads one pinned asset of the catalog            *)
(* (downloadPinnedOperation of operations.go) into a directory it may      *)
(* share with others: a receipt says what the .part belongs to, the .part  *)
(* is continued where it ends, hashed, and linked under the final name,    *)
(* which is never replaced.                                                *)
(***************************************************************************)
EXTENDS OperationJob

CONSTANT Size

ASSUME SizeAssumption == Size \in Nat \ {0}

VARIABLES
    dest,     \* the final name: "absent", "foreign" or "ours"
    part,     \* BOOLEAN: there is a .part
    bytes,    \* what is in the .part, and in what it became
    synced,   \* how much of that survives a loss of power
    settled,  \* the directory is synced since the link
    pin       \* the receipt: "none", "torn", "other" or "ours"

names == <<dest, part, settled>>
content == <<bytes, synced>>
files == <<names, content, pin>>

Genuine == [i \in 1 .. Size |-> "right"]

(* What earlier programs and users may have left in the directory.         *)
DownloadInit ==
    /\ dest = "absent" /\ settled = FALSE
    /\ \/ part = FALSE /\ bytes = <<>> /\ pin = "none"
       \/ part = TRUE /\ bytes = <<"wrong">> /\ pin \in {"none", "other"}
    /\ synced = Len(bytes)

Around == UNCHANGED <<status, ctx>>

(* An existing destination is left alone.  The receipt is created before   *)
(* the .part and written in a second step.                                 *)
DownloadReceipt(j) ==
    /\ At(j, "receipt") /\ Around /\ UNCHANGED <<disk, names, content>>
    /\ IF dest # "absent" \/ (part /\ pin = "none") \/ pin \in {"torn", "other"}
       THEN Fail(j) /\ UNCHANGED pin
       ELSE \/ pin = "none" /\ pin' = "torn" /\ Goto(j, "pin")
            \/ pin = "ours" /\ Goto(j, "part") /\ UNCHANGED pin
            \/ Fail(j) /\ UNCHANGED pin

DownloadPin(j) ==
    /\ At(j, "pin") /\ Around /\ UNCHANGED <<disk, names, content>>
    /\ \/ pin' = "ours" /\ Goto(j, "part")
       \/ pin' \in {"torn", "ours"} /\ Fail(j)

(* The .part is opened, there is room for the rest of it, progress and log *)
(* are written; a whole one is not requested again.                        *)
DownloadPart(j) ==
    /\ At(j, "part") /\ Around /\ UNCHANGED <<dest, settled, content, pin>>
    /\ \/ UNCHANGED part /\ Unsaved /\ Fail(j)
       \/ part' = TRUE /\ Update(j, IF Len(bytes) = Size THEN "sync" ELSE "request")

(* The answer must be exactly the rest of the asset.                       *)
DownloadRequest(j) ==
    /\ At(j, "request") /\ Around /\ UNCHANGED <<disk, files>>
    /\ (~ctx[j] /\ Goto(j, "body")) \/ Fail(j)

(* One chunk, of the asset or not; now and then its progress is written.   *)
(* Nothing bounds the time a server takes but a cancel.                    *)
DownloadChunk(j) ==
    /\ At(j, "body") /\ ~ctx[j] /\ Len(bytes) < Size
    /\ Around /\ UNCHANGED <<names, synced, pin>>
    /\ \E b \in {"right", "wrong"} : bytes' = Append(bytes, b)
    /\ (Unsaved /\ Goto(j, "body")) \/ Update(j, "body")

(* Mutation: the request is made without the context of the operation.     *)
DownloadStops_Deaf(j) ==
    /\ At(j, "body") /\ ~ctx[j] /\ Around /\ UNCHANGED <<disk, names, bytes, pin>>
    /\ \/ Len(bytes) = Size /\ Goto(j, "sync") /\ UNCHANGED synced
       \/ Fail(j) /\ synced' \in {synced, Len(bytes)}

(* The body ends, or is given up for an error or a cancel.                 *)
DownloadStops(j) ==
    /\ At(j, "body") /\ Around /\ UNCHANGED <<disk, names, bytes, pin>>
    /\ \/ ~ctx[j] /\ Len(bytes) = Size /\ Goto(j, "sync") /\ UNCHANGED synced
       \/ Fail(j) /\ synced' \in {synced, Len(bytes)}

DownloadSync(j) ==
    /\ At(j, "sync") /\ Around /\ UNCHANGED <<names, bytes, pin>>
    /\ \/ synced' = Len(bytes) /\ Update(j, "hash")
       \/ UNCHANGED synced /\ Unsaved /\ Fail(j)

DownloadHash(j) ==
    /\ At(j, "hash") /\ Around /\ UNCHANGED <<disk, files>>
    /\ (~ctx[j] /\ bytes = Genuine /\ Goto(j, "link")) \/ Fail(j)

(* Mutation: the .part is renamed over the final name.                     *)
DownloadLink_Replaces(j) ==
    /\ At(j, "link") /\ Around /\ UNCHANGED <<disk, part, content, settled, pin>>
    /\ dest' = "ours" /\ Goto(j, "unlink")

DownloadLink(j) ==
    /\ At(j, "link") /\ Around /\ UNCHANGED <<disk, part, content, settled, pin>>
    /\ \/ dest = "absent" /\ dest' = "ours" /\ Goto(j, "unlink")
       \/ UNCHANGED dest /\ Fail(j)

DownloadUnlink(j) ==
    /\ At(j, "unlink") /\ Around /\ UNCHANGED <<disk, dest, content, settled, pin>>
    /\ \/ part' = FALSE /\ Goto(j, "dirsync")
       \/ UNCHANGED part /\ Fail(j)

(* The directory is synced, the result and the log written: an error makes *)
(* a published download a failed operation.                                *)
DownloadSettle(j) ==
    /\ At(j, "dirsync") /\ Around /\ UNCHANGED <<dest, part, content, pin>>
    /\ \/ settled' = TRUE /\ Update(j, "finish")
       \/ settled' = TRUE /\ Saved(j) /\ Fail(j)
       \/ UNCHANGED settled /\ Unsaved /\ Fail(j)

Downloads(j) ==
    \/ DownloadReceipt(j) \/ DownloadPin(j) \/ DownloadPart(j) \/ DownloadRequest(j)
    \/ DownloadStops(j) \/ DownloadSync(j) \/ DownloadHash(j) \/ DownloadLink(j)
    \/ DownloadUnlink(j) \/ DownloadSettle(j)

(* Somebody else puts a file under the final name.                         *)
Intrude == dest = "absent" /\ dest' = "foreign" /\ UNCHANGED <<job, part, settled, content, pin>>

(* What a loss of power may take away: bytes and names not synced.  The    *)
(* file system keeps the order of changes of names.                        *)
FilesAfterPowerLoss ==
    /\ \E n \in synced .. Len(bytes) :
          bytes' = SubSeq(bytes, 1, n) /\ synced' = n
    /\ IF dest = "ours" /\ ~settled
       THEN \/ dest' = "absent" /\ part' = TRUE
            \/ dest' = "ours" /\ part' \in {part, TRUE}
       ELSE UNCHANGED <<dest, part>>
    /\ settled' = (dest' = "ours") /\ UNCHANGED pin
=============================================================================
