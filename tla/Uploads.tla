------------------------------ MODULE Uploads -------------------------------
(***************************************************************************)
(* A file sent from the phone in pieces (src/daemon/src/uploads.ts).       *)
(* Every request states the offset it starts at; the daemon appends only   *)
(* the piece that starts where its copy ends, and answers how much it      *)
(* holds.  The phone (not in this repository) is modelled from what the    *)
(* daemon expects of it: it carries on from the last answer, and gives up  *)
(* a request whose answer does not come.  The abandoned request may still  *)
(* arrive, at any later time, and the daemon may die between any two of    *)
(* its writes.  A byte is its position in the phone's file.                *)
(***************************************************************************)
EXTENDS Naturals, Sequences, SequencesExt

CONSTANTS FileSizes,          \* sizes of the file being sent (one is chosen)
          MAX_HTTP_CHUNK,     \* largest body of one request; the phone keeps to it
          MAX_UPLOAD_BYTES,   \* largest upload
          MaxLost             \* bound: requests given up, and daemon deaths

ASSUME UploadsAssumption ==
    /\ FileSizes \subseteq Nat
    /\ MAX_HTTP_CHUNK \in Nat \ {0} /\ MAX_UPLOAD_BYTES \in Nat
    /\ MaxLost \in Nat

VARIABLES upSize,      \* the phone's file has bytes 1 .. upSize
          upPart,      \* .part-<uploadId> (<<>>: absent or empty)
          upFinal,     \* the finished file, or NotYet
          upAcked,     \* phone: `received` of the last answer
          upTold,      \* phone: "going", "done" (path answered), "refused"
          upAsking,    \* phone: the request it waits on, or NoPiece
          upLate,      \* requests it gave up that may still arrive
          upLost       \* requests given up and deaths so far

uploadsVars == <<upSize, upPart, upFinal, upAcked, upTold, upAsking, upLate, upLost>>

NotYet == <<"not yet">>
NoPiece == [off |-> 0, len |-> 0, done |-> FALSE, some |-> FALSE]

PhoneFile == [i \in 1..upSize |-> i]
PieceBytes(r) == SubSeq(PhoneFile, r.off + 1, r.off + r.len)

(* What one request leaves on disk and answers, by the early returns of    *)
(* uploadBytes: finished already; not where we are; too large; a piece.    *)
Progress(part, final, received, kind) ==
    [part |-> part, final |-> final, received |-> received, kind |-> kind]

StorePiece_NeedsBytes(r, held) ==
    IF r.done /\ r.len > 0
    THEN Progress(<<>>, upPart \o PieceBytes(r), held + r.len, "done")
    ELSE Progress(upPart \o PieceBytes(r), upFinal, held + r.len, "going")

(* The piece that fits: appended, and the file renamed when it is the last. *)
StorePiece(r, held) ==
    IF r.done THEN Progress(<<>>, upPart \o PieceBytes(r), held + r.len, "done")
    ELSE Progress(upPart \o PieceBytes(r), upFinal, held + r.len, "going")

uploadBytes(r) ==
    LET held == Len(upPart) IN
    IF upFinal # NotYet THEN Progress(upPart, upFinal, Len(upFinal), "done")
    ELSE IF r.off # held THEN Progress(upPart, upFinal, held, "going")
    ELSE IF held + r.len > MAX_UPLOAD_BYTES THEN Progress(<<>>, upFinal, 0, "refused")
    ELSE StorePiece(r, held)

UploadsInit ==
    /\ upSize \in FileSizes
    /\ upPart = <<>> /\ upFinal = NotYet
    /\ upAcked = 0 /\ upTold = "going"
    /\ upAsking = NoPiece /\ upLate = {} /\ upLost = 0

(* The phone asks for the next piece; an empty last one finishes a file    *)
(* the daemon already holds in full.                                       *)
AskPiece ==
    /\ upTold = "going" /\ ~upAsking.some
    /\ \E n \in 0..MAX_HTTP_CHUNK :
        /\ upAcked + n <= upSize
        /\ n > 0 \/ upAcked = upSize
        /\ upAsking' = [off |-> upAcked, len |-> n, done |-> upAcked + n = upSize,
                        some |-> TRUE]
    /\ UNCHANGED <<upSize, upPart, upFinal, upAcked, upTold, upLate, upLost>>

(* The request arrives and its answer reaches the phone. *)
PieceAnswered ==
    /\ upAsking.some
    /\ LET p == uploadBytes(upAsking) IN
        /\ upPart' = p.part /\ upFinal' = p.final
        /\ upAcked' = p.received /\ upTold' = p.kind
    /\ upAsking' = NoPiece
    /\ UNCHANGED <<upSize, upLate, upLost>>

(* The link drops: the request, or only its answer, is lost or late. *)
GiveUpPiece ==
    /\ upAsking.some /\ upLost < MaxLost
    /\ upLost' = upLost + 1
    /\ upAsking' = NoPiece
    /\ upLate' \in {upLate, upLate \cup {upAsking}}
    /\ UNCHANGED <<upSize, upPart, upFinal, upAcked, upTold>>

(* A request given up arrives after all; nobody reads the answer. *)
LatePiece ==
    /\ \E r \in upLate :
        /\ LET p == uploadBytes(r) IN upPart' = p.part /\ upFinal' = p.final
        /\ upLate' = upLate \ {r}
    /\ UNCHANGED <<upSize, upAcked, upTold, upAsking, upLost>>

(* The daemon dies inside appendFileSync, or between it and the rename:    *)
(* some of the piece is in the part file and no answer is given.           *)
DiesWriting ==
    /\ upAsking.some /\ upLost < MaxLost
    /\ upFinal = NotYet /\ upAsking.off = Len(upPart)
    /\ Len(upPart) + upAsking.len <= MAX_UPLOAD_BYTES
    /\ \E n \in 0..upAsking.len :
        upPart' = upPart \o SubSeq(PieceBytes(upAsking), 1, n)
    /\ upLost' = upLost + 1
    /\ upAsking' = NoPiece
    /\ UNCHANGED <<upSize, upFinal, upAcked, upTold, upLate>>

UploadsNext ==
    \/ AskPiece
    \/ PieceAnswered
    \/ GiveUpPiece
    \/ LatePiece
    \/ DiesWriting

(* The phone keeps asking while it is told to go on, and the daemon        *)
(* answers a request that reaches it.                                      *)
UploadsFairness == WF_uploadsVars(AskPiece) /\ WF_uploadsVars(PieceAnswered)

UploadsSpec == UploadsInit /\ [][UploadsNext]_uploadsVars /\ UploadsFairness

-----------------------------------------------------------------------------
(* What the daemon holds is always the beginning of the phone's file, and  *)
(* a finished upload is the whole of it, whatever was repeated, late or    *)
(* cut short ("a retry never corrupts or duplicates anything").            *)
UploadIsTheFile ==
    /\ IsPrefix(upPart, PhoneFile)
    /\ upFinal # NotYet => upFinal = PhoneFile
    /\ upTold = "done" => upFinal = PhoneFile

(* A file within the limit whose first piece was asked for is finished in  *)
(* the end, also when the daemon died between the last append and the      *)
(* rename; a larger one is refused.                                        *)
UploadFinishes ==
    upAsking.some ~> upTold = IF upSize <= MAX_UPLOAD_BYTES THEN "done" ELSE "refused"

(* Together: an upload becomes the file. *)
UploadSucceeds == []UploadIsTheFile /\ UploadFinishes
=============================================================================
